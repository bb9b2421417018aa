----------------------------- MODULE MCWatchers -----------------------------
(***************************************************************************)
(* The watchers, and in the first state the project they name for every    *)
(* place in a repository, its worktree, its submodule and their            *)
(* surroundings.                                                           *)
(***************************************************************************)
EXTENDS Watchers, ProjectNames

Piece(stem, git) == [stem |-> stem, git |-> git]
Url(form, host, path) == [form |-> form, host |-> host, path |-> path]
Slash == Piece("", FALSE)

\* Ways in which one remote, acme/api, is written.
Spellings ==
    {Url("scp", "GitHub.com", <<Piece("acme", FALSE), Piece("api", TRUE)>>),
     Url("url", "github.com", <<Slash, Piece("acme", FALSE), Piece("api", FALSE)>>),
     Url("url", "github.com", <<Slash, Piece("acme", FALSE), Piece("api", TRUE), Slash>>)}
\* Remotes that name no host.
Unusable == {Url("local", "", <<Slash, Piece("srv", FALSE), Piece("api", TRUE)>>),
             Url("url", "", <<Slash, Piece("srv", FALSE), Piece("api", TRUE)>>),
             Url("url", "github.com", <<Slash>>)}
Fork == Url("scp", "github.com", <<Piece("me", FALSE), Piece("fork", FALSE)>>)
Library == Url("scp", "github.com", <<Piece("acme", FALSE), Piece("lib", TRUE)>>)

Remote(name) == [tag |-> "remote", name |-> name]
UrlLine(url) == [tag |-> "url", url |-> url]
Section == [tag |-> "section"]
Other == [tag |-> "other"]

\* Configs whose remote is url: alone, after another remote, beside the submodule's
\* url, or as the first of two without an origin.
Configs(url) ==
    {<<Section, Other, Remote("origin"), UrlLine(url), Other>>,
     <<Remote("me"), UrlLine(Fork), Remote("origin"), Other, UrlLine(url)>>,
     <<Section, UrlLine(Library), Remote("origin"), UrlLine(url), Section, UrlLine(Library)>>,
     <<Remote("upstream"), UrlLine(url), Remote("me"), UrlLine(Fork)>>}

Clone == <<"home", "API">>
Worktree == <<"home", "work", "fix">>
Module == <<"home", "API", "lib">>
Checkouts == {Clone, Worktree, Module}
GitDir == Append(Clone, ".git")

\* The disk: the clone, a worktree of it and a submodule in it, and files.
Disk(config, pointer) ==
    LET own == GitDir \o <<"worktrees", "fix">>
        lib == GitDir \o <<"modules", "lib">>
        dirs == {<<>>, <<"home">>, <<"home", "work">>, <<"home", "notes">>, Clone, Worktree, Module,
                 GitDir, own, lib, Append(Clone, "src"), Append(Worktree, "src")}
        files == [p \in {Append(Worktree, ".git"), Append(Module, ".git"), Append(own, "commondir"),
                         Append(own, "HEAD"), Append(lib, "config"), Append(lib, "HEAD"),
                         Append(GitDir, "config"), Append(GitDir, "HEAD"),
                         Clone \o <<"src", "f">>, <<"home", "notes", "f">>} |->
            CASE p = Append(Worktree, ".git") -> Pointer(pointer)
              [] p = Append(own, "commondir") -> Pointer(<<"..", "..">>)
              [] p = Append(own, "HEAD") -> HEAD(TRUE, "fix")
              [] p = Append(Module, ".git") -> Pointer(<<"..", ".git", "modules", "lib">>)
              [] p = Append(lib, "config") -> Config(<<Remote("origin"), UrlLine(Library)>>)
              [] p = Append(lib, "HEAD") -> HEAD(FALSE, "commit")
              [] p = Append(GitDir, "config") -> Config(config)
              [] p = Append(GitDir, "HEAD") -> HEAD(TRUE, "main")
              [] OTHER -> Garbage] IN
    [p \in dirs \cup DOMAIN files |-> IF p \in dirs THEN Directory ELSE files[p]]

Pointers == {AsText(GitDir \o <<"worktrees", "fix">>),
             <<"..", "..", "API", ".git", "worktrees", "fix">>}
Places == {<<"home">>, <<"home", "notes", "f">>, Clone, Clone \o <<"src", "f">>, Clone \o <<"src", "gone">>,
           Worktree, Append(Worktree, "src"), Module, Append(Module, "f")}
\* The innermost checkout that holds a place.
Holding(place) ==
    LET holds == {c \in Checkouts : IsPrefix(c, place)} IN
    {c \in holds : \A d \in holds : Len(d) <= Len(c)}
NameOf(checkout, usable) ==
    CASE checkout = Module -> <<"acme", "lib">>
      [] usable -> <<"acme", "api">>
      [] OTHER -> <<Last(checkout)>>

\* Time is booked on the repository one works in.  Wherever in a clone, a worktree or a
\* submodule a session runs, and however its remote is written, its project is the
\* owner and name of the repository that the place belongs to, and an alias for the
\* remote renames all of them at once.  A place in no repository keeps its own name.
ProjectIsTheRepository ==
    Init /\ watch = "claude" =>
    \A url \in Spellings \cup Unusable : \A config \in Configs(url), pointer \in Pointers :
    \A place \in Places :
        LET disk == Disk(config, pointer)
            usable == url \in Spellings
            alias == <<[key |-> <<"GitHub.com", "acme", "API">>, value |-> <<"ours">>]>>
            project == resolve_project(disk, AsText(place), <<>>, Nothing)
            renamed == resolve_project(disk, AsText(place), alias, Nothing) IN
        IF Holding(place) = {}
        THEN project = <<Last(place)>> /\ renamed = project
        ELSE \A c \in Holding(place) :
                 /\ project = NameOf(c, usable)
                 /\ renamed = IF c = Module \/ ~usable THEN project ELSE <<"ours">>

\* A watched root is a boundary: a saved file below it is booked on the directory at the
\* first level, as the repository that holds that directory if the repository is itself
\* at or below the root, and never as one that merely encloses the root.  The branch is
\* the one checked out in that directory, not in the clone it shares its config with.
RootsAreBoundaries ==
    Init /\ watch = "claude" =>
    \A url \in Spellings \cup Unusable : \A config \in Configs(url), pointer \in Pointers :
    \A root \in {<<"home">>, <<"home", "work">>, Clone, Append(Clone, "src"), Worktree} :
    \A file \in {Append(root, "f"), root \o <<"src", "f">>, root \o <<"lib", "f">>, root \o <<"API", "f">>,
                 root \o <<"fix", "f">>} :
        LET row == FileRow(Disk(config, pointer), root, file, <<>>)
            top == IF Len(file) = Len(root) + 1 THEN root ELSE Front(file)
            within == {c \in Holding(top) : IsPrefix(root, c)} IN
        /\ row.project = IF within = {} THEN <<Last(top)>>
                         ELSE NameOf(CHOOSE c \in within : TRUE, url \in Spellings)
        /\ row.branch = CASE top = Clone -> <<"main">>
                          [] top = Worktree -> <<"fix">>
                          [] top = Module -> <<"the first 12 of", "commit">>
                          [] OTHER -> Nothing

\* Time is booked on the repository that was worked in, within the watched roots.
ProjectIsNamed == ProjectIsTheRepository /\ RootsAreBoundaries
=============================================================================
