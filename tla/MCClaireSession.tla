-------------------------- MODULE MCClaireSession --------------------------
(***************************************************************************)
(* Claire's session, and in its first state what the Telegram bridge does  *)
(* with every short text and every short course of events.                 *)
(***************************************************************************)
EXTENDS ClaireSession, TelegramBridge

Text == UNION {[1..n -> {"narrow", "wide"}] : n \in 0..5}

\* At most three chunks of two characters, two attempts for each.
Attempts == 2
Sent == {[i \in 1..n |-> "narrow"] : n \in {1, 3, 5}}
Script == [1..6 -> Answer \ {"not modified"}]

Happening == [kind : {"arrive", "poll", "poll lost", "crash"}, id : {0}]
                 \cup [kind : {"crash"}, id : {1}]

\* The updates that arrive are numbered from 1.
Numbered(course) ==
    [i \in DOMAIN course |->
        IF course[i].kind # "arrive" THEN course[i]
        ELSE [course[i] EXCEPT !.id = Cardinality({j \in 1..i : course[j].kind = "arrive"})]]

\* Courses of the input loop.
Course == {Numbered(c) : c \in UNION {[1..n -> Happening] : n \in 5..6}}

Said == [kind : {"message"}, text : {<<"narrow">>, <<"wide", "narrow">>}]
            \cup [kind : {"outcome"}, text : {<<"wide">>}]
            \cup [kind : {"other"}, text : {<<>>}]
Conversation == UNION {[1..n -> Said] : n \in 0..5}

-----------------------------------------------------------------------------
\* A reply reaches the chat whole and in order, however it is cut up, when
\* send_text says so, and that is what settles a wake; what is shown after a
\* failure is its beginning; a chunk is shown twice only if an answer was lost.
ReplyArrivesWhole ==
    Init =>
    /\ \A text \in Text : \A max \in 1..4 :
           LET chunks == telegram_chunks(text, max)
               Units(chunk) == FoldLeft(LAMBDA n, c : n + len_utf16(c), 0, chunk) IN
           /\ FlattenSeq(chunks) = text
           /\ \A i \in DOMAIN chunks : Units(chunks[i]) <= max \/ Len(chunks[i]) = 1
           /\ text # <<>> => \A i \in DOMAIN chunks : chunks[i] # <<>>
    /\ \A text \in Sent : \A script \in Script :
           LET numbered == [i \in DOMAIN telegram_chunks(text, 2) |-> i]
               sent == send_text(numbered, script, Attempts)
               shown == sent.received
               lost == {i \in 1..sent.at - 1 : script[i] = "answer lost"} IN
           /\ \A i \in DOMAIN shown : i > 1 => shown[i] - shown[i - 1] \in {0, 1}
           /\ shown # <<>> => shown[1] = 1
           /\ sent.ok => Range(shown) = Range(numbered)
           /\ Len(shown) <= Cardinality(Range(shown)) + Cardinality(lost)
           /\ sent.at - 1 <= Attempts * Len(numbered)

\* No message of the user is lost: whatever answer of getUpdates is lost, and
\* wherever the hub dies, an update Telegram has forgotten was handled.  It is
\* handled once, and in order, unless the hub died before the next poll told
\* Telegram.
EveryInputHandled ==
    Init =>
    \A course \in Course :
        LET end == FoldLeft(InputLoop, [queue |-> <<>>, offset |-> 0, handled |-> <<>>], course)
            arrived == {course[i].id : i \in {j \in DOMAIN course : course[j].kind = "arrive"}}
            crashed == \E i \in DOMAIN course : course[i].kind = "crash" IN
        /\ \A u \in arrived \ Range(end.queue) : IsInput(u) => u \in Range(end.handled)
        /\ ~crashed => \A i, j \in DOMAIN end.handled : i < j => end.handled[i] < end.handled[j]

\* What Claire is told of a conversation or a worker fits, and is its end: the
\* limits on events, messages and bytes never leave a gap or half a character, and no more
\* is cut than has to be.
HistoryIsTheEnd ==
    Init =>
    /\ \A text \in Text : \A max \in 3..8 :
           LET tail == bounded_tail(text, max, 2)
               kept == SelectSeq(tail, LAMBDA c : c # "omitted")
               gone == Len(text) - Len(kept) IN
           /\ kept = SubSeq(text, gone + 1, Len(text))
           /\ gone > 0 => Bytes(kept) + 2 <= max /\ Bytes(SubSeq(text, gone, Len(text))) + 2 > max
    /\ \A events \in Conversation :
           LET IsEnd(tail, kinds) ==
                   LET all == Joined(Lines(SelectSeq(events, LAMBDA e : e.kind \in kinds)))
                       kept == SelectSeq(tail, LAMBDA c : c # "omitted")
                   IN  kept = SubSeq(all, Len(all) - Len(kept) + 1, Len(all)) IN
           /\ IsEnd(conversation_history(events, 4, 2, 8, 2), {"message"})
           /\ IsEnd(worker_wake_context(events, 4, 8, 2), {"message", "outcome"})

\* What passes the bridge is whole: a reply arrives as the chunks it was cut into and
\* in their order, every update is handled, and what is kept of a history is its end.
BridgeIsFaithful == ReplyArrivesWhole /\ EveryInputHandled /\ HistoryIsTheEnd
=============================================================================
