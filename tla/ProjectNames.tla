--------------------------- MODULE ProjectNames ---------------------------
(* Which project an activity belongs to: the repository found from a        *)
(* directory, its remote, the aliases. Text that the code splits at "/" is  *)
(* the sequence of its pieces, so an absolute path begins with an empty     *)
(* piece; a resolved path is the pieces alone. The disk maps a resolved     *)
(* path to what is there: a directory, or a file and what its text says.    *)
EXTENDS Integers, Sequences, FiniteSets, SequencesExt, FiniteSetsExt

Nothing == <<>>                     \* no answer; as text, the empty one
IsAbsolute(text) == text # <<>> /\ Head(text) = ""
AsText(path) == <<"">> \o (IF path = <<>> THEN <<"">> ELSE path)
Cwd == <<"agent">>                  \* where the process was started

Directory == [what |-> "dir"]
\* A .git or commondir file: the path it names.
Pointer(text) == [what |-> "pointer", text |-> text]
Garbage == [what |-> "garbage"]
Config(lines) == [what |-> "config", lines |-> lines]
HEAD(symbolic, name) == [what |-> "head", symbolic |-> symbolic, name |-> name]
Reads(disk, path, what) == path \in DOMAIN disk /\ disk[path].what = what

normalize_abs(pieces) ==
    FoldLeft(LAMBDA stack, piece :
                 IF piece \in {"", "."} THEN stack
                 ELSE IF piece = ".." THEN (IF stack = <<>> THEN stack ELSE Front(stack))
                 ELSE Append(stack, piece),
             <<>>, pieces)

js_resolve2(base, text) == normalize_abs(IF IsAbsolute(text) THEN text ELSE base \o text)
js_resolve1(text) == js_resolve2(Cwd, text)
js_dirname(path) == IF path = <<>> THEN path ELSE Front(path)

\* The last piece of a path once its trailing slashes are gone.
js_basename(text) ==
    LET said == SelectSeq(text, LAMBDA piece : piece # "") IN
    IF said = <<>> THEN Nothing ELSE <<Last(said)>>

-----------------------------------------------------------------------------
\* The git directory of a root: its .git directory, or what its .git file names.
\* The answer is a set, empty for none.
git_dir_for(disk, root) ==
    LET dotGit == Append(root, ".git") IN
    IF Reads(disk, dotGit, "dir") THEN {dotGit}
    ELSE IF Reads(disk, dotGit, "pointer") THEN {js_resolve2(root, disk[dotGit].text)}
    ELSE {}

common_git_dirNot(disk, gitDir) == gitDir
\* The directory a worktree shares with its repository, where its config is.
common_git_dir(disk, gitDir) ==
    LET commondir == Append(gitDir, "commondir") IN
    IF Reads(disk, commondir, "pointer") THEN js_resolve2(gitDir, disk[commondir].text)
    ELSE gitDir

\* The innermost directory, from a location upwards, that has a git directory.
\* The search starts beside a file, and at a path where there is nothing.
repository_root(disk, location) ==
    LET path == js_resolve1(location)
        start == IF path \in DOMAIN disk /\ disk[path].what # "dir" THEN js_dirname(path) ELSE path
        roots == {n \in 0..Len(start) : git_dir_for(disk, SubSeq(start, 1, n)) # {}} IN
    IF roots = {} THEN {} ELSE {SubSeq(start, 1, Max(roots))}

\* The remotes that a config lists, and of them origin, or else the first.
Remotes(lines) ==
    FoldLeft(LAMBDA s, line :
                 IF line.tag = "remote" THEN [s EXCEPT !.section = line.name]
                 ELSE IF line.tag = "section" THEN [s EXCEPT !.section = ""]
                 ELSE IF line.tag = "url" /\ s.section # ""
                      THEN [s EXCEPT !.found = Append(@, [name |-> s.section, url |-> line.url])]
                 ELSE s,
             [section |-> "", found |-> <<>>], lines).found

remote_from_config(lines) ==
    LET remotes == Remotes(lines)
        origins == SelectSeq(remotes, LAMBDA r : r.name = "origin") IN
    IF origins # <<>> THEN {Head(origins).url}
    ELSE IF remotes # <<>> THEN {Head(remotes).url} ELSE {}

to_lowercase(word) ==
    CASE word = "GitHub.com" -> "github.com"
      [] word = "API" -> "api"
      [] OTHER -> word

TrimSlashes(pieces) ==
    LET said == {i \in DOMAIN pieces : pieces[i] # [stem |-> "", git |-> FALSE]} IN
    IF said = {} THEN <<>> ELSE SubSeq(pieces, Min(said), Max(said))

\* host/owner/repository of a remote. A piece of the remote's path is a stem and whether
\* ".git" follows it, which only the last piece's may. A local path has neither host nor
\* scheme and does not parse; a file URL has an empty host.
normalize_git_remote(remote) ==
    LET clean == TrimSlashes(remote.path)
        last == Len(clean)
        short == IF last = 0 THEN clean ELSE [clean EXCEPT ![last].git = FALSE] IN
    IF \/ remote.form = "local" \/ remote.host = "" \/ last = 0
       \/ short = <<[stem |-> "", git |-> FALSE]>>
    THEN Nothing
    ELSE <<to_lowercase(remote.host)>> \o [i \in 1..last |-> short[i].stem]

git_remote_for_root(disk, root) ==
    LET configs == {Append(common_git_dir(disk, d), "config") : d \in git_dir_for(disk, root)}
        urls == UNION {remote_from_config(disk[c].lines) : c \in {c \in configs : Reads(disk, c, "config")}} IN
    IF urls = {} THEN Nothing ELSE normalize_git_remote(CHOOSE u \in urls : TRUE)

-----------------------------------------------------------------------------
Lower(text) == [i \in DOMAIN text |-> to_lowercase(text[i])]

\* The alias of the first candidate that has one: its own key, or else the first key
\* that differs only in case.
alias_for(aliases, candidates) ==
    LET Keyed(c) == IF \E i \in DOMAIN aliases : aliases[i].key = c
                    THEN SelectSeq(aliases, LAMBDA a : a.key = c)
                    ELSE SelectSeq(aliases, LAMBDA a : Lower(a.key) = Lower(c))
        hits == {i \in DOMAIN candidates : candidates[i] # Nothing /\ Keyed(candidates[i]) # <<>>} IN
    IF hits = {} THEN Nothing ELSE Head(Keyed(candidates[Min(hits)])).value

OwnerAndRepository(remote) == SubSeq(remote, Max({1, Len(remote) - 1}), Len(remote))

resolve_project_with_root(disk, location, aliases, fallback, root) ==
    LET OfRoot(Op(_)) == IF root = {} THEN Nothing ELSE Op(CHOOSE r \in root : TRUE)
        remote == OfRoot(LAMBDA r : git_remote_for_root(disk, r))
        project == OwnerAndRepository(remote)
        base == IF root = {} THEN js_basename(location) ELSE OfRoot(js_basename)
        name == IF fallback # Nothing THEN fallback ELSE IF base # Nothing THEN base ELSE <<"unknown">>
        alias == alias_for(aliases,
                     <<IF location = Nothing THEN Nothing ELSE AsText(js_resolve1(location)),
                       OfRoot(AsText), remote, project, name>>) IN
    IF alias # Nothing THEN alias ELSE IF project # Nothing THEN project ELSE name

resolve_project(disk, location, aliases, fallback) ==
    resolve_project_with_root(disk, location, aliases, fallback,
        IF IsAbsolute(location) THEN repository_root(disk, location) ELSE {})

\* The same, with no repository that is not at or below the boundary.
resolve_project_within(disk, location, boundary, aliases, fallback) ==
    resolve_project_with_root(disk, location, aliases, fallback,
        IF IsAbsolute(location)
        THEN {r \in repository_root(disk, location) : IsPrefix(boundary, r)} ELSE {})

\* The branch checked out in a directory: its own HEAD, not the shared one. A
\* detached one is the first 12 characters of the commit.
git_branch(disk, projectDir) ==
    LET dotGit == Append(projectDir, ".git")
        gitDir == IF Reads(disk, dotGit, "pointer") THEN js_resolve2(projectDir, disk[dotGit].text)
                  ELSE dotGit
        head == Append(gitDir, "HEAD") IN
    IF dotGit \notin DOMAIN disk \/ Reads(disk, dotGit, "garbage") \/ ~Reads(disk, head, "head")
    THEN Nothing
    ELSE IF disk[head].symbolic THEN <<disk[head].name>> ELSE <<"the first 12 of", disk[head].name>>

\* What the file watcher says of a saved file below a root: the project and the branch
\* of the directory at the first level under the root, or of the root itself.
FileRow(disk, root, file, aliases) ==
    LET top == IF Len(file) > Len(root) + 1 THEN SubSeq(file, 1, Len(root) + 1) ELSE root IN
    [project |-> resolve_project_within(disk, AsText(top), root, aliases, Nothing),
     branch |-> git_branch(disk, top)]
=============================================================================
