--------------------------- MODULE TelegramBridge ---------------------------
(***************************************************************************)
(* Claire's side of the Telegram Bot API, crates/stackhour/src/telegram.rs *)
(* and the input loop of start_telegram in control.rs, and the texts that  *)
(* control.rs cuts to size for a turn.                                     *)
(*                                                                         *)
(* The Bot API is external: a request has an answer, drawn from a script,  *)
(* and getUpdates forgets the updates below its offset.  A text is a       *)
(* sequence of characters; waiting between attempts is left out.           *)
(***************************************************************************)
EXTENDS Integers, SequencesExt

\* A wide character, like an emoji, next to an ASCII one.
len_utf16(c) == IF c = "wide" THEN 2 ELSE 1
len_utf8(c) == IF c = "wide" THEN 4 ELSE 1

-----------------------------------------------------------------------------
(* Sending.                                                                *)

telegram_chunks(text, max) ==
    LET step(s, c) ==
            IF s.chunk # <<>> /\ s.units + len_utf16(c) > max
            THEN [chunks |-> Append(s.chunks, s.chunk), chunk |-> <<c>>, units |-> len_utf16(c)]
            ELSE [s EXCEPT !.chunk = Append(@, c), !.units = @ + len_utf16(c)]
        end == FoldLeft(step, [chunks |-> <<>>, chunk |-> <<>>, units |-> 0], text)
    IN  Append(end.chunks, end.chunk)

\* What may come of a request; it was carried out when it is answered, and when only
\* the answer is lost.
Answer == {"ok", "answer lost", "unreachable", "retry after", "not modified", "bad request"}
CarriedOut(a) == a \in {"ok", "answer lost"}

attempt(a) ==
    CASE a = "ok" -> "done"
      [] a = "retry after" -> "rate_limited"
      [] a = "not modified" -> "swallow"
      [] a = "bad request" -> "terminal"
      [] OTHER -> "failed"

\* The answers from position at on are used up by at most this many attempts.
call(script, at, attempts) ==
    LET from[i \in 0..attempts] ==
            IF i = attempts THEN [ok |-> FALSE, at |-> at + i, taken |-> 0]
            ELSE LET step == attempt(script[at + i])
                     taken == IF CarriedOut(script[at + i]) THEN 1 ELSE 0 IN
                 IF step \in {"rate_limited", "failed"}
                 THEN [from[i + 1] EXCEPT !.taken = @ + taken]
                 ELSE [ok |-> step = "done", at |-> at + i + 1, taken |-> taken]
    IN  from[0]

\* Mutant of send_text: the other chunks are sent after one has failed.
send_textGoesOn(chunks, script, attempts) ==
    FoldLeft(LAMBDA s, chunk :
                 LET c == call(script, s.at, attempts) IN
                 [ok |-> s.ok /\ c.ok, at |-> c.at,
                  received |-> s.received \o [i \in 1..c.taken |-> chunk]],
             [ok |-> TRUE, at |-> 1, received |-> <<>>], chunks)

\* The chunks in order, until one fails; received is what the chat then shows.
send_text(chunks, script, attempts) ==
    FoldLeft(LAMBDA s, chunk :
                 IF ~s.ok THEN s
                 ELSE LET c == call(script, s.at, attempts) IN
                      [ok |-> c.ok, at |-> c.at,
                       received |-> s.received \o [i \in 1..c.taken |-> chunk]],
             [ok |-> TRUE, at |-> 1, received |-> <<>>], chunks)

-----------------------------------------------------------------------------
(* Receiving.  s is [queue, offset, handled]: the updates Telegram has not *)
(* been told are done, the loop's variable, and what reached               *)
(* handle_claire_input.                                                    *)

\* Every third update is not a text of the chat's user.
IsInput(u) == u % 3 # 0

Confirm(s) == [s EXCEPT !.queue = SelectSeq(@, LAMBDA u : u >= s.offset)]

\* An update moves the offset before it is handled; one of another chat, of a bot or
\* without a text is passed over.
TakeUpdate(s, u) ==
    [s EXCEPT !.offset = u + 1, !.handled = IF IsInput(u) THEN Append(@, u) ELSE @]

\* get_updates and the loop over the updates it returns, n at most.
Polled(s, n) ==
    LET c == Confirm(s)
        some == IF n < Len(c.queue) THEN n ELSE Len(c.queue) IN
    FoldLeft(TakeUpdate, c, SubSeq(c.queue, 1, some))

\* What can happen to the loop: an update arrives, a poll is answered, its answer is
\* lost, or the hub dies at the first update of a batch and starts again.
InputLoop(s, what) ==
    CASE what.kind = "arrive" -> [s EXCEPT !.queue = Append(@, what.id)]
      [] what.kind = "poll" -> Polled(s, Len(s.queue))
      [] what.kind = "poll lost" -> Confirm(s)
      [] what.kind = "crash" -> [Polled(s, what.id) EXCEPT !.offset = 0]

-----------------------------------------------------------------------------
(* Texts for a turn.                                                       *)

Bytes(text) == FoldLeft(LAMBDA n, c : n + len_utf8(c), 0, text)

\* A long text is cut at the first character boundary that leaves room for the
\* marker, whose length is given.
bounded_tail(text, max, marker) ==
    LET room == IF max > marker THEN max - marker ELSE 0
        start == Bytes(text) - room
        At(i) == Bytes(SubSeq(text, 1, i - 1))
        first == CHOOSE i \in 1..Len(text) + 1 :
                     At(i) >= start /\ \A j \in 1..i - 1 : At(j) < start IN
    IF Bytes(text) <= max THEN text
    ELSE <<"omitted">> \o SubSeq(text, first, Len(text))

Joined(lines) == FoldLeft(LAMBDA t, l : IF t = <<>> THEN l ELSE t \o <<"\n">> \o l, <<>>, lines)

Latest(seq, n) == IF Len(seq) <= n THEN seq ELSE SubSeq(seq, Len(seq) - n + 1, Len(seq))

\* The last events of a task, oldest first.
task_events_tail(events, limit) == Latest(events, limit)

Lines(events) == [i \in DOMAIN events |-> events[i].text]

\* Of these the last messages, and of their text the last bytes.
conversation_history(events, limit, keep, max, marker) ==
    LET said == SelectSeq(task_events_tail(events, limit), LAMBDA e : e.kind = "message") IN
    bounded_tail(Joined(Lines(Latest(said, keep))), max, marker)

\* A worker's messages and outcomes, for its assessment.
worker_wake_context(events, limit, max, marker) ==
    LET told == SelectSeq(task_events_tail(events, limit),
                          LAMBDA e : e.kind \in {"message", "outcome"}) IN
    bounded_tail(Joined(Lines(told)), max, marker)
=============================================================================
