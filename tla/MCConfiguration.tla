--------------------------- MODULE MCConfiguration ---------------------------
(***************************************************************************)
(* Configuration and Schedule with days of eight units and ticks of up to  *)
(* three; two native programs, one of them with a link, the launcher of    *)
(* Snaps, and a Snap that has lost a program in its second revision; a     *)
(* link into that Snap, and one from a file of it to another.              *)
(***************************************************************************)
EXTENDS Configuration, TLC

CONSTANTS video, chat, web, r1, r2

UpToThree == 1..3
Back == -2

Path(snap, revision, file) == [snap |-> snap, revision |-> revision, file |-> file]
Player == Path(Native, Native, "player")
Editor == Path(Native, Native, "editor")
Alias == Path(Native, Native, "alias")
Launcher == Path(Native, Native, "launcher")
Main(revision) == Path(web, revision, "main")
Helper(revision) == Path(web, revision, "helper")
Shortcut == Path(Native, Native, "shortcut")
Tool(revision) == Path(web, revision, "tool")

MCLink == (Alias :> Player) @@ (Launcher :> Path(Native, Native, "snap"))
          @@ (Shortcut :> Main(Current)) @@ (Tool(r1) :> Main(r1)) @@ (Tool(r2) :> Editor)
MCSafe == {Player, Editor, Main(r1), Main(r2), Helper(r1)}

\* Rules that may be accepted, then rules that never are.
Rules ==
  {<<>>,
   (video :> {Alias}) @@ (chat :> {Main(Current)}),
   (video :> {Player, Main(r1)}) @@ (chat :> {Editor}),
   (video :> {Main(r2)}) @@ (chat :> {Helper(r2), Player}),
   (video :> {Shortcut}) @@ (chat :> {Main(Current)}),
   (video :> {Tool(Current)}) @@ (chat :> {Alias, Main(r1)}),
   (video :> {Alias}) @@ (chat :> {Player}),
   (video :> {Main(r1)}) @@ (chat :> {Main(Current)}),
   (video :> {Launcher}), (video :> {}) @@ (chat :> {Editor})}

Times == {<<TRUE, NoClock, NoClock>>, <<TRUE, 1, 2>>, <<FALSE, 1, NoClock>>, <<FALSE, NoClock, 1>>}
         \cup {<<FALSE, from, until>> : from \in 0..7, until \in 0..7}

File(times, executables) ==
  [allDay |-> times[1], from |-> times[2], until |-> times[3], executables |-> executables]

\* Every schedule with one set of rules, and every set of rules with one schedule.
MCFiles == {File(times, <<>>) : times \in Times}
           \cup {File(<<TRUE, NoClock, NoClock>>, executables) : executables \in Rules}
=============================================================================
