----------------------------- MODULE FileStore -----------------------------
(***************************************************************************)
(* filesystem.Service over LocalManager and MemoryRepository               *)
(* (internal/filesystem), with the path guards of sandbox.Workspace and of *)
(* cloud.  A request names a path; safePath turns it into a place under    *)
(* the base directory or refuses it.  Calls hold no lock: a write checks   *)
(* and then writes, a copy walks the tree while others change it.          *)
(*                                                                         *)
(* The guards are about paths as they are written: no place here is a      *)
(* symbolic link.  One that leads out of the base directory is followed by *)
(* the code, as local.go:71 and docs/sandbox.md:34 say, so that the        *)
(* properties below are about trees without such links only.               *)
(***************************************************************************)
EXTENDS Naturals, SequencesExt

CONSTANTS
  Base,      \* the base directory: a sequence of names
  Place,     \* the absolute paths in play, none a symbolic link; another is too long
  Request,   \* the paths asked for: [abs |-> BOOLEAN, segs |-> names, "." and ".."]
  Client     \* concurrent calls

VARIABLES
  tree,      \* what is at each place
  files,     \* MemoryRepository.files: the places whose metadata is cached
  op,        \* the call each client is in
  lone,      \* history: clients whose call no other call has overlapped
  leaked     \* history: places outside the base directory that were read

vars == <<tree, files, op, lone, leaked>>

-----------------------------------------------------------------------------
\* filepath.Clean: ".." takes a name away, at the root it does nothing.
Clean(abs, segs) ==
  FoldLeft(LAMBDA done, s :
             IF s = "." THEN done
             ELSE IF s # ".." THEN Append(done, s)
             ELSE IF done # <<>> /\ Last(done) # ".." THEN Front(done)
             ELSE IF abs THEN done ELSE Append(done, ".."),
           <<>>, segs)

\* filepath.Rel: up to the longest common prefix, then down.
Rel(base, path) ==
  LET n == Cardinality({i \in 1 .. Len(base) : i <= Len(path) /\ SubSeq(base, 1, i) = SubSeq(path, 1, i)}) IN
    [i \in 1 .. Len(base) - n |-> ".."] \o SubSeq(path, n + 1, Len(path))

\* Mutant of withinBase: only ".." itself is outside.
WithinUnlessUp(base, path) == Rel(base, path) # <<"..">>

\* The relative path is not ".." and does not begin with "../".
withinBase(base, path) ==
  LET rel == Rel(base, path) IN rel = <<>> \/ Head(rel) # ".."

Absolute(base, r) ==
  IF r.abs THEN Clean(TRUE, r.segs) ELSE Clean(TRUE, base \o Clean(FALSE, r.segs))

\* The set of places a request stands for: none if it is refused.
safePath(r) ==
  LET path == Absolute(Base, r) IN IF withinBase(Base, path) THEN {path} ELSE {}

\* Workspace.Resolve and resolveInWorkPath refuse absolute paths.
Resolve(root, r) ==
  LET path == Absolute(root, r) IN IF ~r.abs /\ withinBase(root, path) THEN {path} ELSE {}

Target == [r \in Request |-> safePath(r) \cap Place]

-----------------------------------------------------------------------------
Idle == [pc |-> "idle"]
Go(c, call) == op' = [op EXCEPT ![c] = call]
Busy == {c \in Client : op[c] # Idle}

\* Another call begins.
Enter(c) ==
  /\ op[c] = Idle
  /\ lone' = IF Busy = {} THEN {c} ELSE {}

Inside == [p \in Place |-> {q \in Place : IsPrefix(p, q)}]
Under(p) == Inside[p]
Parents(p) == {q \in Place : p \in Under(q)} \ {p}
Children(p) == {q \in Under(p) : Len(q) = Len(p) + 1 /\ tree[q] # "none"}
DirAt(p) == p \in Place /\ tree[p] = "dir"
CanMake(p) == p \in Place /\ \A q \in Parents(p) : tree[q] # "file"
WithDirs(t, p) == [q \in Place |-> IF q \in Parents(p) THEN "dir" ELSE t[q]]

Init ==
  /\ tree = [p \in Place |-> IF IsPrefix(p, Base) \/ (~IsPrefix(Base, p) /\ \E q \in Place : IsStrictPrefix(p, q))
                             THEN "dir"
                             ELSE IF IsPrefix(Base, p) THEN "none" ELSE "file"]
  /\ files = {}
  /\ op = [c \in Client |-> Idle]
  /\ lone = {}
  /\ leaked = {}

ReadFile(c, r) ==
  /\ Enter(c)
  /\ \E p \in Target[r] :
       /\ tree[p] = "file"
       /\ leaked' = leaked \cup ({p} \ Under(Base))
       /\ files' = files \cup {p}
  /\ UNCHANGED <<tree, op>>

\* Search: every file below is opened.
Search(c, r) ==
  /\ Enter(c)
  /\ \E p \in Target[r] : leaked' = leaked \cup ({q \in Under(p) : tree[q] = "file"} \ Under(Base))
  /\ UNCHANGED <<tree, files, op>>

\* WriteFile: what exists is not overwritten, if it was there when looked at ...
WriteFile(c, r, overwrite) ==
  /\ Enter(c)
  /\ \E p \in Target[r] :
       /\ tree[p] = "none" \/ overwrite
       /\ Go(c, [pc |-> "write", at |-> p])
  /\ UNCHANGED <<tree, files, leaked>>

PutFile(p) ==
  IF CanMake(p) /\ tree[p] # "dir"
  THEN tree' = [WithDirs(tree, p) EXCEPT ![p] = "file"]
  ELSE tree' = IF CanMake(p) THEN WithDirs(tree, p) ELSE tree

\* ... the parents are made, the file written and its metadata cached.
Write(c) ==
  /\ op[c].pc = "write"
  /\ LET p == op[c].at IN
       /\ PutFile(p)
       /\ files' = IF CanMake(p) /\ tree[p] # "dir" THEN files \cup {p} ELSE files
  /\ Go(c, Idle)
  /\ UNCHANGED <<lone, leaked>>

Mkdir(c, r, recursive) ==
  /\ Enter(c)
  /\ \E p \in Target[r] :
       /\ tree[p] = "none" /\ CanMake(p)
       /\ recursive \/ DirAt(Front(p))
       /\ tree' = [WithDirs(tree, p) EXCEPT ![p] = "dir"]
  /\ UNCHANGED <<files, op, leaked>>

\* Remove: the base directory stays, a directory with entries needs `recursive` ...
RemovePath(c, r, recursive) ==
  /\ Enter(c)
  /\ \E p \in Target[r] :
       /\ p # Base
       /\ recursive \/ (tree[p] # "none" /\ Children(p) = {})
       /\ tree' = [q \in Place |-> IF q \in Under(p) THEN "none" ELSE tree[q]]
       /\ Go(c, [pc |-> "forget", asked |-> r, recursive |-> recursive])
  /\ UNCHANGED <<files, leaked>>

\* ... and the cache forgets the path as it was written in the request.
Forget(c) ==
  /\ op[c].pc = "forget"
  /\ LET r == op[c].asked
         exact == IF r.abs THEN {} ELSE {q \in files : q = Base \o r.segs}
         below == IF r.abs \/ ~op[c].recursive THEN {} ELSE {q \in files : IsStrictPrefix(Base \o r.segs, q)}
     IN files' = files \ (exact \cup below)
  /\ Go(c, Idle)
  /\ UNCHANGED <<tree, lone, leaked>>

\* Move: one os.Rename.  It refuses a directory as destination, empty or not, and
\* to put a directory where a file is.
Move(c, from, to) ==
  /\ Enter(c)
  /\ \E p \in Target[from], q \in Target[to] :
       /\ tree[p] # "none" /\ ~IsPrefix(p, q) /\ DirAt(Front(q))
       /\ tree[q] = "none" \/ (tree[q] = "file" /\ tree[p] = "file")
       /\ \A s \in Under(p) : tree[s] = "none" \/ q \o Rel(p, s) \in Place
       /\ tree' = [s \in Place |->
                     IF IsPrefix(q, s)
                     THEN LET old == p \o Rel(q, s) IN IF old \in Place THEN tree[old] ELSE "none"
                     ELSE IF IsPrefix(p, s) THEN "none" ELSE tree[s]]
  /\ UNCHANGED <<files, op, leaked>>

Content(p) == {<<Rel(p, s), tree[s]>> : s \in {s \in Under(p) : tree[s] # "none"}}

\* Copy: source and destination are looked at ...
Copy(c, from, to, overwrite) ==
  /\ Enter(c)
  /\ \E p \in Target[from], q \in Target[to] :
       /\ tree[p] # "none"
       /\ tree[q] = "none" \/ overwrite
       /\ Go(c, [pc |-> "copy", from |-> p, to |-> q, todo |-> {p}, content |-> Content(p)])
  /\ UNCHANGED <<tree, files, leaked>>

\* Mutant of Visit: the walk does not go below the first level.
VisitFlat(c) ==
  /\ op[c].pc = "copy"
  /\ \E p \in op[c].todo :
       LET target == op[c].to \o Rel(op[c].from, p)
           todo == (op[c].todo \ {p}) \cup IF p = op[c].from THEN Children(p) ELSE {}
       IN IF ~CanMake(target) \/ tree[p] = "none" \/ tree[target] \notin {"none", tree[p]}
          THEN Go(c, Idle) /\ UNCHANGED tree
          ELSE /\ tree' = [WithDirs(tree, target) EXCEPT ![target] = tree[p]]
               /\ Go(c, [op[c] EXCEPT !.todo = todo, !.pc = IF todo = {} THEN "copied" ELSE "copy"])
  /\ UNCHANGED <<files, lone, leaked>>

\* ... and each entry of the walk, in some order, is made at the destination; the
\* names in a directory are read before its copy is made.  The first error ends
\* the copy halfway.
Visit(c) ==
  /\ op[c].pc = "copy"
  /\ \E p \in op[c].todo :
       LET target == op[c].to \o Rel(op[c].from, p)
           todo == (op[c].todo \ {p}) \cup Children(p)
       IN IF ~CanMake(target) \/ tree[p] = "none" \/ tree[target] \notin {"none", tree[p]}
          THEN Go(c, Idle) /\ UNCHANGED tree
          ELSE /\ tree' = [WithDirs(tree, target) EXCEPT ![target] = tree[p]]
               /\ Go(c, [op[c] EXCEPT !.todo = todo, !.pc = IF todo = {} THEN "copied" ELSE "copy"])
  /\ UNCHANGED <<files, lone, leaked>>

Copied(c) ==
  /\ op[c].pc = "copied"
  /\ Go(c, Idle)
  /\ UNCHANGED <<tree, files, lone, leaked>>

Next ==
  \E c \in Client :
    \/ Write(c) \/ Forget(c) \/ Visit(c) \/ Copied(c)
    \/ \E r \in Request :
         \/ ReadFile(c, r) \/ Search(c, r)
         \/ \E flag \in BOOLEAN : WriteFile(c, r, flag) \/ Mkdir(c, r, flag) \/ RemovePath(c, r, flag)
         \/ \E to \in Request : Move(c, r, to) \/ \E flag \in BOOLEAN : Copy(c, r, to, flag)

Spec == Init /\ [][Next]_vars

-----------------------------------------------------------------------------
TypeOK ==
  /\ tree \in [Place -> {"none", "file", "dir"}]
  /\ files \subseteq Place /\ leaked \subseteq Place /\ lone \subseteq Client

\* However a path is written, and whatever calls overlap: in a tree without
\* symbolic links nothing outside the base directory is read or changed, and the
\* base directory itself stays.
Confined ==
  /\ \A p \in Place \ Under(Base) : p \notin leaked /\ tree[p] = IF \E q \in Place : IsStrictPrefix(p, q) THEN "dir" ELSE "file"
  /\ DirAt(Base)

\* A path that a workspace resolves stays in the workspace, and is the place
\* that following it name by name leads to where no name is a symbolic link.
WorkspaceConfined ==
  \A r \in Request : \A p \in Resolve(Base, r) :
    /\ IsPrefix(Base, p)
    /\ p = FoldLeft(LAMBDA at, s : IF s = "." THEN at ELSE IF s # ".." THEN Append(at, s)
                                   ELSE IF at = <<>> THEN at ELSE Front(at), Base, r.segs)

\* A copy that succeeds has made all the files and directories there were, unless
\* another call came in between or the destination is the source or part of it.
CopyExact ==
  \A c \in lone : op[c].pc = "copied" /\ ~IsPrefix(op[c].from, op[c].to) =>
    \A entry \in op[c].content : tree[op[c].to \o entry[1]] = entry[2]
=============================================================================
