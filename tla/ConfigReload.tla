---------------------------- MODULE ConfigReload ----------------------------
(***************************************************************************)
(* The configuration of a running process: the load at startup (app.go),   *)
(* the file watcher with its debounce and its link tracker (reload.go) and *)
(* the published snapshot with its status (store.go), against an operator  *)
(* who edits the file in place or swaps a link on the way to it.           *)
(*                                                                         *)
(* The path is /p/config; it may resolve into another directory. A link on *)
(* the way is an entry of /p (a ConfigMap's "..data") or of a directory in *)
(* between. A file holds a version, or half of one while it is written.    *)
(***************************************************************************)
EXTENDS Naturals, Sequences

CONSTANTS
    Dirs,           \* directories the path may resolve into, Own among them
    LinkDirs,       \* where a link on the way may be: Own, Between
    MaxEdits        \* changes the operator makes

VARIABLES
    home, broken, content,          \* the directory the path resolves into; a link is missing;
                                    \* each directory's file
    used, edits, early, between, back,  \* history: directories resolved into, changes made;
                                    \* one came before the watch was up, one swapped a link
                                    \* of a directory in between, one went back to a used one
    events, watched, target,        \* fsnotify; linkTracker.target
    pc, armed, fire,                \* the process; the debounce timer; its channel
    current, boot, restart, lastError   \* the store

vars == <<home, broken, content, used, edits, early, between, back, events, watched, target, pc, armed, fire,
          current, boot, restart, lastError>>
files == <<home, broken, content, used, edits, early, between, back>>
watcher == <<watched, target, armed, fire>>
store == <<current, boot, restart, lastError>>

Own == "own"
Between == "between"
None == "none"
Valid == {"boot", "hot", "moved"}
Versions == Valid \cup {"bad"}

TypeOK ==
    /\ home \in Dirs /\ used \subseteq Dirs /\ {broken, back} \subseteq BOOLEAN /\ content \in [Dirs -> Versions \cup {"half"}]
    /\ edits \in 0..MaxEdits /\ {early, between, armed, fire, restart, lastError} \subseteq BOOLEAN
    /\ events \in Seq({"path", "link"} \cup Dirs) /\ watched \subseteq Dirs
    /\ target \in Dirs \cup {None} /\ pc \in {"start", "loaded", "watching", "ready", "published", "dead"}
    /\ current \in Valid /\ boot \in Valid

Init ==
    /\ home \in Dirs /\ broken = FALSE /\ content = [d \in Dirs |-> "boot"] /\ used = {home}
    /\ edits = 0 /\ early = FALSE /\ between = FALSE /\ back = FALSE
    /\ events = <<>> /\ watched = {} /\ target = None /\ pc = "start" /\ armed = FALSE /\ fire = FALSE
    /\ current = "boot" /\ boot = "boot" /\ restart = FALSE /\ lastError = FALSE

----------------------------------------------------------------------------
(* The operator and the kernel: an event reaches the watcher from the      *)
(* directories it watches.                                                 *)

at == IF broken THEN None ELSE home
Unwatched == pc \in {"loaded", "watching"}
Notify(dir, name) == events' = IF dir \in watched THEN Append(events, name) ELSE events

\* A file written in place, in two writes; in the path's own directory it is
\* the path, elsewhere a target.
Write(d, v) ==
    /\ \/ content[d] # "half" /\ v = "half" /\ edits < MaxEdits /\ edits' = edits + 1
       \/ content[d] = "half" /\ v # "half" /\ UNCHANGED edits
    /\ content' = [content EXCEPT ![d] = v] /\ Notify(d, IF d = Own THEN "path" ELSE d)
    /\ early' = (early \/ (d = at /\ Unwatched))
    /\ UNCHANGED <<home, broken, used, between, back, watcher, pc, store>>

\* A link is removed: not an event the watcher looks at.
Remove ==
    /\ home # Own /\ ~broken /\ broken' = TRUE /\ edits < MaxEdits /\ edits' = edits + 1
    /\ early' = (early \/ Unwatched)
    /\ UNCHANGED <<home, content, used, between, back, events, watcher, pc, store>>

\* A link is swapped, or made again. A link of the path's own directory is
\* the path itself or another entry on the way.
Swap(l, d) ==
    /\ edits < MaxEdits /\ edits' = edits + 1
    /\ (home # d \/ broken) /\ home' = d /\ broken' = FALSE
    /\ l = Between => Own \notin {home, d}
    /\ used' = used \cup {d} /\ back' = (back \/ d \in used \ {home})
    /\ between' = (between \/ l = Between) /\ early' = (early \/ Unwatched)
    /\ \E name \in IF Own \in {home, d} THEN {"path"} ELSE {"path", "link"} : Notify(l, name)
    /\ UNCHANGED <<content, watcher, pc, store>>

----------------------------------------------------------------------------
(* Startup.                                                                *)

\* Load reads and validates what the path resolves to now.
Loadable == at # None /\ content[at] \in Valid

\* RestartOnlyChanges: only "moved" differs in a restart-only setting.
Diff(v) == (v = "moved") # (boot = "moved")

\* Run: a file that does not load ends the process.
Startup ==
    /\ pc = "start"
    /\ IF Loadable THEN /\ current' = content[at] /\ boot' = content[at] /\ pc' = "loaded"
                   ELSE pc' = "dead" /\ UNCHANGED <<current, boot>>
    /\ UNCHANGED <<files, events, watcher, restart, lastError>>

WatchDir ==
    /\ pc = "loaded" /\ pc' = "watching" /\ watched' = {Own}
    /\ UNCHANGED <<files, events, target, armed, fire, store>>

\* follow: the new target's directory is watched as well.
Follow == target' = at /\ watched' = watched \cup ({at} \ {None})

NewLinkTracker ==
    /\ pc = "watching" /\ pc' = "ready" /\ Follow
    /\ UNCHANGED <<files, events, armed, fire, store>>

----------------------------------------------------------------------------
(* Watch.                                                                  *)

AffectsPathOnly(name) == name = "path" \/ (target # None /\ name = target)

\* affects: the path, its target, or anything that moved the target.
Affects(name) == name = "path" \/ (target # None /\ name = target) \/ at # target

\* schedule: the debounce starts again.
Event ==
    /\ pc = "ready" /\ events # <<>> /\ events' = Tail(events) /\ Follow
    /\ armed' = (armed \/ Affects(Head(events)))
    /\ UNCHANGED <<files, pc, fire, store>>

TimerFires ==
    /\ armed /\ armed' = FALSE /\ fire' = TRUE
    /\ UNCHANGED <<files, events, watched, target, pc, store>>

\* A reload is published, then reported; a failed one is only reported.
Reload ==
    /\ pc = "ready" /\ fire /\ fire' = FALSE
    /\ IF Loadable THEN current' = content[at] /\ pc' = "published" /\ UNCHANGED lastError
                   ELSE lastError' = TRUE /\ UNCHANGED <<current, pc>>
    /\ UNCHANGED <<files, events, watched, target, armed, boot, restart>>

ReloadOK ==
    /\ pc = "published" /\ pc' = "ready" /\ restart' = Diff(current) /\ lastError' = FALSE
    /\ UNCHANGED <<files, events, watcher, current, boot>>

Next ==
    \/ \E d \in Dirs, v \in Versions \cup {"half"} : Write(d, v)
    \/ Remove \/ (\E l \in LinkDirs, d \in Dirs : Swap(l, d))
    \/ Startup \/ WatchDir \/ NewLinkTracker \/ Event \/ TimerFires \/ Reload \/ ReloadOK

\* The process is scheduled and its timer fires; the operator need not finish.
Process == Startup \/ WatchDir \/ NewLinkTracker \/ Event \/ Reload \/ ReloadOK
Spec == Init /\ [][Next]_vars /\ WF_vars(Process) /\ WF_vars(TimerFires)

----------------------------------------------------------------------------
Agrees ==
    \/ Loadable /\ current = content[at] /\ restart = Diff(current)
    \/ lastError \/ broken

\* However edits, swaps and reloads interleave, the process ends up with the
\* file: when nothing changes any more it runs what the path resolves to and
\* reports what needs a restart, or it reports that a reload failed
\* (Watch, linkTracker). Out of its sight are a change made before the watch
\* is up, a link swapped in a directory it does not watch, and a link swapped
\* there and back while a reload reads through it.
FileFollowed == <>[](pc = "dead" \/ early \/ between \/ back \/ Agrees)

\* Every link on the way is followed (Watch).
LinksFollowed == <>[](pc = "dead" \/ early \/ back \/ Agrees)
=============================================================================
