------------------------------ MODULE PathGuard ------------------------------
(***************************************************************************)
(* PathGuard (security/paths.py): a path that a caller names is resolved   *)
(* to a path inside one of the allowed roots, or refused.                  *)
(*                                                                         *)
(* A path is the sequence of its names from the top.  The guard looks at   *)
(* the file system one name at a time, and others may change it in         *)
(* between.  A junction is a link.  The target of a link is the path it    *)
(* leads to.  Python 3.11 and 3.12 raise RuntimeError at a loop of links.  *)
(***************************************************************************)
EXTENDS Naturals, Sequences, SequencesExt

CONSTANTS
    PathNames,    \* names of files and directories
    Places,       \* paths at which there may be something
    Up,           \* the name ".."
    Reserved,     \* names that the platform's rules refuse
    MaxSteps,     \* bound: names looked up before links count as a loop
    MaxChanges    \* bound: changes by others during a call

Paths == Seq(PathNames)

ASSUME GuardAssumption ==
    /\ Places \subseteq Paths \ {<<>>}
    /\ Up \in PathNames /\ Reserved \subseteq PathNames
    /\ MaxSteps \in Nat /\ MaxChanges \in Nat

VARIABLES
    tree,       \* what is at each place
    allowed,    \* allowed roots that the constructor has still to look at
    roots,      \* those that it has resolved
    asked,      \* the arguments of resolve
    place,      \* where resolve is
    absolute,   \* its variable of that name
    walk,       \* absolute as far as its links have been followed
    changes,    \* changes that others may still make
    touched     \* history: they have made one

guard == <<tree, allowed, roots, asked, place, absolute, walk, changes, touched>>

Nodes == [kind : {"none", "file", "dir"}] \cup [kind : {"link"}, to : Places]

\* What is somewhere is in a directory.
Trees == { t \in [Places -> Nodes] :
             \A p \in Places : t[p].kind # "none" /\ Len(p) > 1 =>
                 Front(p) \in Places /\ t[Front(p)].kind = "dir" }

Asked == [form : {"absolute", "relative", "baseless"}, base : Paths, names : Paths, exists : BOOLEAN]

GuardInit ==
    /\ roots = <<>>
    /\ place = "construct"
    /\ absolute = <<>>
    /\ walk = [here |-> <<>>, rest |-> <<>>, steps |-> 0]
    /\ touched = FALSE

GuardRefusals == {"bad_root", "bad_name", "baseless", "bad_base", "outside", "link", "missing"}
GuardPlaces   == {"construct", "root", "begin", "walk", "links", "exist", "accepted", "loop"}

-----------------------------------------------------------------------------
(* What the operating system says of a path.                               *)

At(p) == IF p \in Places THEN tree[p] ELSE [kind |-> IF p = <<>> THEN "dir" ELSE "none"]

\* One name is looked up; at a link, the walk starts again with its target.
Follow(w) ==
    LET next == Append(w.here, Head(w.rest))
    IN  IF At(next).kind = "link"
        THEN [here |-> <<>>, rest |-> At(next).to \o Tail(w.rest), steps |-> w.steps + 1]
        ELSE [here |-> next, rest |-> Tail(w.rest), steps |-> w.steps + 1]

Begun(p) == [here |-> <<>>, rest |-> p, steps |-> 0]

\* The walk w one name on, if a name is left.
Onward(w) == IF w.rest = <<>> THEN w ELSE Follow(w)

\* The walk along p after each number of names.
After(p) ==
    LET after[n \in 0..MaxSteps] == IF n = 0 THEN Begun(p) ELSE Onward(after[n - 1])
    IN  after

Walked(p) == After(p)[MaxSteps]

Real(p)   == Walked(p).here
Exists(p) == Walked(p).rest = <<>> /\ At(Real(p)).kind # "none"
IsLink(p) == p # <<>> /\ Walked(Front(p)).rest = <<>>
             /\ At(Append(Real(Front(p)), Last(p))).kind = "link"

\* os.path.abspath: by the names alone.
Normal(p) ==
    LET normal[n \in 0..Len(p)] ==
          IF n = 0 THEN <<>>
          ELSE IF p[n] # Up THEN Append(normal[n - 1], p[n])
          ELSE IF normal[n - 1] = <<>> THEN <<>> ELSE Front(normal[n - 1])
    IN  normal[Len(p)]

-----------------------------------------------------------------------------
(* The guard.                                                              *)

Goto(there) == place' = there

Allowable(p) == Exists(p) /\ At(Real(p)).kind = "dir" /\ ~ IsLink(p)

\* The constructor: the next root is looked at; there has to be one.
Construct ==
    /\ place = "construct"
    /\ Goto(IF allowed # <<>> THEN IF Allowable(Head(allowed)) THEN "root" ELSE "bad_root"
            ELSE IF roots # <<>> THEN "begin" ELSE "bad_root")
    /\ UNCHANGED <<tree, allowed, roots, asked, absolute, walk, changes, touched>>

\* root.resolve(strict=True), which may find it gone.
ResolveRoot ==
    /\ place = "root"
    /\ IF Exists(Head(allowed))
       THEN /\ Goto("construct")
            /\ roots' = Append(roots, Real(Head(allowed)))
            /\ allowed' = Tail(allowed)
       ELSE /\ Goto(IF Walked(Head(allowed)).rest = <<>> THEN "bad_root" ELSE "loop")
            /\ UNCHANGED <<allowed, roots>>
    /\ UNCHANGED <<tree, asked, absolute, walk, changes, touched>>

BadName == \E i \in DOMAIN asked.names : asked.names[i] \in Reserved

\* The parts of the path, and the base that a relative one starts from.
Unsound ==
    IF BadName THEN "bad_name"
    ELSE IF asked.form = "baseless" THEN "baseless"
    ELSE IF asked.form = "relative"
            /\ ~ (Exists(asked.base) /\ \E i \in DOMAIN roots : roots[i] = Real(asked.base))
    THEN "bad_base"
    ELSE "none"

Begin ==
    /\ place = "begin"
    /\ IF Unsound # "none"
       THEN Goto(Unsound) /\ UNCHANGED <<absolute, walk>>
       ELSE /\ Goto("walk")
            /\ absolute' = Normal((IF asked.form = "relative" THEN Real(asked.base) ELSE <<>>)
                                  \o asked.names)
            /\ walk' = Begun(absolute')
    /\ UNCHANGED <<tree, allowed, roots, asked, changes, touched>>

\* absolute.resolve(strict=False).
Step ==
    /\ place = "walk"
    /\ walk.rest # <<>>
    /\ IF walk.steps = MaxSteps
       THEN Goto("loop") /\ UNCHANGED walk
       ELSE walk' = Follow(walk) /\ UNCHANGED place
    /\ UNCHANGED <<tree, allowed, roots, asked, absolute, changes, touched>>

Under(i, p) == IsPrefix(roots[i], p)

\* A guard that compares the path before its links are followed.
ContainingOfAbsolute == { i \in DOMAIN roots : Under(i, absolute) }

\* A guard that takes nothing for inside but what is below a root.
ContainingBelow == { i \in DOMAIN roots : Under(i, walk.here) /\ roots[i] # walk.here }

Containing == { i \in DOMAIN roots : Under(i, walk.here) }

Root == roots[CHOOSE i \in Containing : \A j \in Containing : i <= j]

\* _containing_root; what is not written below the root is not looked at
\* again.  The walk is kept, its rest now being what is left to look at.
Contain ==
    /\ place = "walk"
    /\ walk.rest = <<>>
    /\ IF Containing = {} THEN Goto("outside") /\ UNCHANGED walk
       ELSE IF IsPrefix(Root, absolute)
       THEN /\ Goto("links")
            /\ walk' = [walk EXCEPT !.rest = SubSeq(absolute, Len(Root) + 1, Len(absolute))]
       ELSE Goto("exist") /\ UNCHANGED walk
    /\ UNCHANGED <<tree, allowed, roots, asked, absolute, changes, touched>>

\* The path up to and with the next segment to look at.
Current == SubSeq(absolute, 1, Len(absolute) - Len(walk.rest) + 1)

\* A guard that looks at the last segment only.
LinkedAtEnd == Len(walk.rest) = 1 /\ Exists(Current) /\ IsLink(Current)

Linked == Exists(Current) /\ IsLink(Current)

\* One segment in _reject_linked_segments.
Look ==
    /\ place = "links"
    /\ IF walk.rest = <<>> THEN Goto("exist") /\ UNCHANGED walk
       ELSE IF Linked THEN Goto("link") /\ UNCHANGED walk
       ELSE walk' = [walk EXCEPT !.rest = Tail(@)] /\ UNCHANGED place
    /\ UNCHANGED <<tree, allowed, roots, asked, absolute, changes, touched>>

ReturnPath ==
    /\ place = "exist"
    /\ Goto(IF asked.exists /\ ~ Exists(walk.here) THEN "missing" ELSE "accepted")
    /\ UNCHANGED <<tree, allowed, roots, asked, absolute, walk, changes, touched>>

\* Somebody makes, removes or replaces a file, an empty directory or a link.
Change(p, node) ==
    /\ place \in GuardPlaces \ {"loop"}
    /\ changes > 0
    /\ changes' = changes - 1
    /\ touched' = TRUE
    /\ At(Front(p)).kind = "dir"
    /\ \A q \in Places : Front(q) = p => tree[q].kind = "none"
    /\ tree' = [tree EXCEPT ![p] = node]
    /\ UNCHANGED <<allowed, roots, asked, place, absolute, walk>>

GuardNext ==
    \/ Construct \/ ResolveRoot \/ Begin \/ Step \/ Contain \/ Look \/ ReturnPath
    \/ \E p \in Places, node \in Nodes : Change(p, node)

-----------------------------------------------------------------------------
(* Properties.                                                             *)

GuardTypeOK ==
    /\ tree \in Trees
    /\ allowed \in Seq(Paths) /\ (place = "root" => allowed # <<>>) /\ roots \in Seq(Paths)
    /\ asked \in Asked
    /\ absolute \in Paths
    /\ walk \in [here : Paths, rest : Paths, steps : 0..MaxSteps]
    /\ place \in GuardPlaces \cup GuardRefusals
    /\ changes \in 0..MaxChanges
    /\ touched \in BOOLEAN

\* Nobody but the guard has touched the tree.
Still == ~ touched

\* A path is accepted only inside an allowed root, wherever its links have
\* led and whatever others do to the tree meanwhile (paths.py:74-76).
AcceptedIsInside ==
    place = "accepted" => \E i \in DOMAIN roots : Under(i, walk.here)

\* The parts of p from the first name on.
Beginnings(p) == { SubSeq(p, 1, n) : n \in 1..Len(p) }

\* As long as others leave the tree alone, what is accepted is where the path
\* that was written leads to, has no link left on it, and exists if it has to:
\* so a caller that opens it (cli.py:88, 98, 112, 123) opens a file inside a
\* root.  And a path that is written below the root it ends in is accepted as
\* it is written, without a link on it, unless it passes a link whose target
\* does not exist (paths.py:116 asks exists() first, which is false of those).
AcceptedIsReal ==
    (place = "accepted" /\ Still) =>
        /\ Real(absolute) = walk.here
        /\ Real(walk.here) = walk.here
        /\ asked.exists => Exists(walk.here)
        /\ IsPrefix(Root, absolute) =>
             \/ walk.here = absolute
             \/ \E p \in Beginnings(absolute) : IsLink(p) /\ ~ Exists(p)

\* A path without links on it, inside a root that is written without links,
\* is never taken for one that is outside, linked or looping, nor for one
\* that is missing if it is there: the guard refuses no honest caller, of a
\* path of at most MaxSteps names.
PlainIsAccepted ==
    (/\ Still
     /\ place \notin {"construct", "root", "begin"} \cup {"bad_root", "bad_name", "baseless", "bad_base"}
     /\ Len(absolute) <= MaxSteps
     /\ \A p \in Beginnings(absolute) : ~ IsLink(p)
     /\ \E i \in DOMAIN roots : Under(i, absolute)) =>
        /\ place \notin {"outside", "link", "loop"}
        /\ place = "missing" => ~ Exists(absolute)
=============================================================================
