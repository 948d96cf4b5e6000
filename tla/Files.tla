-------------------------------- MODULE Files --------------------------------
(***************************************************************************)
(* Settings files and the log (filemanager.cpp, log.cpp, menu.cpp,         *)
(* settings.cpp).  A save writes over the settings and then renews their   *)
(* backup; the log is shortened by writing it again.  All of it runs on    *)
(* the GUI thread, one handler at a time, but a file may not open, a write *)
(* may come out short, and power may fail at every statement.              *)
(*                                                                         *)
(* A step is one statement on a file; plan holds those a handler has yet   *)
(* to do.  The content of a file is the number of the save it comes from.  *)
(* A copy of a file is whole or absent: QFile::copy renames a temporary    *)
(* file.  The settings of the steel technologies, which have no backup,    *)
(* are left out.                                                           *)
(***************************************************************************)
EXTENDS Naturals, SequencesExt

CONSTANTS
  Logger,      \* the objects cLogger that live as long as the program
  menu,        \* dMenu::log, one of them
  MaxLog,      \* MAX_SIZE_FILE_LOG, in lines
  Share,       \* one in so many lines is dropped: 10
  MaxQueue,    \* lines the assertion of addMess allows to wait: 100
  MaxSaves,    \* bound on saves and resets
  MaxNotes,    \* bound on the other messages
  MaxMishaps   \* bound on power failures and on statements that fail

ASSUME FilesAssumption ==
  /\ menu \in Logger /\ MaxLog \in Nat \ {0} /\ Share \in Nat \ {0} /\ MaxQueue \in Nat
  /\ MaxSaves \in Nat /\ MaxNotes \in Nat /\ MaxMishaps \in Nat

File == {"system", "channels"}

VARIABLES
  main, backup,   \* the content of each file of settings and of its backup
  mem,            \* the settings in use; 0 are those built in
  log, q,         \* the lines of the log file, and those waiting in each logger
  lines,          \* what is left of the log while it is written again
  plan,           \* statements to come
  up,
  saves, notes, mishaps,   \* counted for the bounds
  said,           \* ghost: the messages, in order
  gone,           \* ghost: messages that were lost with the power
  safe, kept,     \* ghosts: the last save that was ended; what may be restored
  torn, bare,     \* ghosts: the text was cut off; a save began without a backup
                  \* of the last one
  refused         \* ghost: the saves whose file did not open

settingVars == <<main, backup, mem, saves, safe, kept, torn, bare, refused>>
logVars == <<log, q, lines, said, gone>>
vars == <<settingVars, logVars, plan, up, notes, mishaps>>

(* "empty" stands for less than ten characters, "part" for any more that   *)
(* are no JSON document.                                                   *)
Bad(text) == [text |-> text, v |-> 0]
Whole(v) == [text |-> "whole", v |-> v]
IsWhole(c) == c.text = "whole"

(* A recorder as delivered: settings that were saved once. *)
Init ==
  /\ main = [f \in File |-> Whole(0)] /\ backup = [f \in File |-> Whole(0)]
  /\ mem = [f \in File |-> 0]
  /\ log = <<>> /\ q = [l \in Logger |-> <<>>] /\ lines = <<>>
  /\ plan = <<>> /\ up = TRUE /\ saves = 0 /\ notes = 0 /\ mishaps = 0
  /\ said = <<>> /\ gone = {}
  /\ safe = [f \in File |-> 0] /\ kept = [f \in File |-> {0}]
  /\ torn = [f \in File |-> FALSE] /\ bare = [f \in File |-> FALSE]
  /\ refused = [f \in File |-> {}]

-----------------------------------------------------------------------------
(* The handlers.                                                           *)

Do(op, f) == [op |-> op, file |-> f, by |-> menu, v |-> saves + 1]
Say(l, v) == <<[op |-> "message", file |-> "log", by |-> l, v |-> v]>>

Save(f) == <<Do("open", f), Do("write", f), Do("remove", f), Do("copy", f)>>
Default(f) == <<Do("clear", f), Do("rename", f), Do("default", f)>>

Begin(steps, files) ==
  /\ up /\ plan = <<>> /\ saves < MaxSaves
  /\ saves' = saves + 1
  /\ plan' = steps
  /\ kept' = [f \in File |-> IF f \in files THEN {safe[f], saves'} ELSE kept[f]]
  /\ UNCHANGED <<main, backup, safe, torn, bare, refused, logVars, up, notes, mishaps>>

(* Faulty: the message comes first. *)
SaveStepsLogged == Say(menu, saves + 1) \o Save("system") \o Save("channels")

SaveSteps == Save("system") \o Save("channels") \o Say(menu, saves + 1)

(* on_saveButton: what was edited is in use, and saved; whether it was is  *)
(* not looked at.                                                          *)
MenuSave ==
  /\ Begin(SaveSteps, File)
  /\ mem' = [f \in File |-> saves + 1]

(* saveParamToFile of the settings dialog: its message says only that the  *)
(* file did not open, and is left out.                                     *)
DialogSave ==
  /\ Begin(Save("channels"), {"channels"})
  /\ mem' = [mem EXCEPT !["channels"] = saves + 1]

(* on_bResetToDefault_clicked: the defaults are read as they are saved. *)
Reset ==
  /\ Begin(Default("channels") \o Default("system")
             \o <<Do("read", "channels"), Do("read", "system")>> \o Say(menu, 0), File)
  /\ UNCHANGED mem

(* Any other event that is logged. *)
Note(l) ==
  /\ up /\ plan = <<>> /\ notes < MaxNotes
  /\ notes' = notes + 1
  /\ plan' = Say(l, 0)
  /\ UNCHANGED <<settingVars, logVars, up, mishaps>>

-----------------------------------------------------------------------------
(* writeChannelsSettings, writeSystemOptionsToFile and the reset, a        *)
(* statement at a time.                                                    *)

Next1 == plan' = Tail(plan)

Works == UNCHANGED mishaps
Fails == mishaps < MaxMishaps /\ mishaps' = mishaps + 1

Put(file, f, c) == [file EXCEPT ![f] = c]

(* An end of a save: good when the file holds it. *)
Ended(f, v) ==
  /\ safe' = [safe EXCEPT ![f] = IF main[f] = Whole(v) THEN v ELSE @]
  /\ kept' = [kept EXCEPT ![f] = IF main[f] = Whole(v) THEN {v} ELSE @]
  /\ torn' = [torn EXCEPT ![f] = @ /\ main[f] # Whole(v)]
  /\ bare' = [bare EXCEPT ![f] = @ /\ main[f] # Whole(v)]

Open(f, v) ==
  \/ /\ main' = Put(main, f, Bad("empty"))   \* WriteOnly truncates
     /\ bare' = [bare EXCEPT ![f] = backup[f] # Whole(safe[f])]
     /\ Works /\ Next1
     /\ UNCHANGED <<backup, mem, safe, kept, torn, refused>>
  \/ /\ Fails
     /\ refused' = [refused EXCEPT ![f] = @ \cup {v}]
     /\ plan' = SubSeq(plan, 5, Len(plan))
     /\ UNCHANGED <<main, backup, mem, safe, kept, torn, bare>>

Write(f, v) ==
  /\ \/ Works /\ main' = Put(main, f, Whole(v)) /\ UNCHANGED torn
     \/ /\ Fails                          \* short, and nobody looks
        /\ \E text \in {"empty", "part"} : main' = Put(main, f, Bad(text))
        /\ torn' = [torn EXCEPT ![f] = TRUE]
  /\ Next1
  /\ UNCHANGED <<backup, mem, safe, kept, bare, refused>>

RemoveBackup(f) ==
  /\ backup' = Put(backup, f, Bad("none"))
  /\ Works /\ Next1
  /\ UNCHANGED <<main, mem, safe, kept, torn, bare, refused>>

(* There is no backup, so that copy has nothing to overwrite. *)
Copy(f, v) ==
  /\ \/ Works /\ backup' = Put(backup, f, main[f])
     \/ Fails /\ UNCHANGED backup
  /\ Ended(f, v)
  /\ Next1
  /\ UNCHANGED <<main, mem, refused>>

(* The backup goes before there is another. *)
Clear(f) ==
  /\ backup' = Put(backup, f, Bad("none"))
  /\ bare' = [bare EXCEPT ![f] = main[f] # Whole(safe[f])]
  /\ Works /\ Next1
  /\ UNCHANGED <<main, mem, safe, kept, torn, refused>>

Rename(f) ==
  /\ main' = Put(main, f, Bad("none")) /\ backup' = Put(backup, f, main[f])
  /\ Works /\ Next1
  /\ UNCHANGED <<mem, safe, kept, torn, bare, refused>>

CopyDefault(f, v) ==
  /\ \/ Works /\ main' = Put(main, f, Whole(v))
     \/ Fails /\ UNCHANGED main
  /\ Next1
  /\ UNCHANGED <<backup, mem, safe, kept, torn, bare, refused>>

(* Faulty: only a file that does not exist is bad. *)
RestoredExisting(f) ==
  LET used == IF main[f].text = "none" THEN backup[f] ELSE main[f]
  IN IF IsWhole(used) THEN used.v ELSE 0

(* readChannelsSettings, readSystemOptionsFromFile: what is no document    *)
(* reads as one without settings.                                          *)
Restored(f) ==
  LET used == IF main[f].text \in {"none", "empty"} THEN backup[f] ELSE main[f]
  IN IF IsWhole(used) THEN used.v ELSE 0

Read(f, v) ==
  /\ mem' = [mem EXCEPT ![f] = Restored(f)]
  /\ Ended(f, v)
  /\ Works /\ Next1
  /\ UNCHANGED <<main, backup, refused>>

SettingsStep ==
  /\ plan # <<>>
  /\ LET do == Head(plan)
         f == do.file
     IN \/ do.op = "open" /\ Open(f, do.v)
        \/ do.op = "write" /\ Write(f, do.v)
        \/ do.op = "remove" /\ RemoveBackup(f)
        \/ do.op = "copy" /\ Copy(f, do.v)
        \/ do.op = "clear" /\ Clear(f)
        \/ do.op = "rename" /\ Rename(f)
        \/ do.op = "default" /\ CopyDefault(f, do.v)
        \/ do.op = "read" /\ Read(f, do.v)
  /\ UNCHANGED <<saves, logVars, up, notes>>

-----------------------------------------------------------------------------
(* cLogger::addMess.                                                       *)

Then(ops) == plan' = ops \o Tail(plan)

Message(do) ==
  LET size == IF Len(log) >= MaxLog THEN <<[do EXCEPT !.op = "shorten"]>> ELSE <<>>
      m == [n |-> Len(said) + 1, by |-> do.by, v |-> do.v]
  IN /\ said' = Append(said, m)
     /\ q' = [q EXCEPT ![do.by] = Append(@, m)]
     /\ Works /\ Then(size \o <<[do EXCEPT !.op = "append"]>>)
     /\ UNCHANGED <<log, lines, gone, up>>

(* All lines are read and the file is emptied, or it does not open. *)
Shorten(do) ==
  \/ /\ lines' = SubSeq(log, Len(log) \div Share + 1, Len(log))
     /\ log' = <<>>
     /\ Works /\ Then(<<[do EXCEPT !.op = "rewrite"]>>)
     /\ UNCHANGED <<q, said, gone, up>>
  \/ Fails /\ Next1 /\ UNCHANGED <<logVars, up>>

Rewrite ==
  /\ log' = lines /\ lines' = <<>>
  /\ Works /\ Next1
  /\ UNCHANGED <<q, said, gone, up>>

(* Faulty: a line stays in the queue once it was written. *)
AppendQueueKept(l) ==
  \/ /\ Len(q[l]) <= MaxQueue
     /\ log' = log \o q[l] /\ q' = [q EXCEPT ![l] = SubSeq(@, Len(@), Len(@))]
     /\ Works /\ Next1
     /\ UNCHANGED <<lines, said, gone, up>>
  \/ Fails /\ Next1 /\ UNCHANGED <<logVars, up>>

(* All that waits is written; too much of it, and the program is aborted.  *)
(* If the file does not open, it waits for the next message of the object. *)
AppendQueue(l) ==
  \/ /\ Len(q[l]) <= MaxQueue
     /\ log' = log \o q[l] /\ q' = [q EXCEPT ![l] = <<>>]
     /\ Works /\ Next1
     /\ UNCHANGED <<lines, said, gone, up>>
  \/ /\ Len(q[l]) > MaxQueue
     /\ Works /\ up' = FALSE /\ plan' = <<>>
     /\ q' = [k \in Logger |-> <<>>] /\ gone' = gone \cup UNION {Range(q[k]) : k \in Logger}
     /\ UNCHANGED <<log, lines, said>>
  \/ Fails /\ Next1 /\ UNCHANGED <<logVars, up>>

LogStep ==
  /\ plan # <<>>
  /\ LET do == Head(plan)
     IN \/ do.op = "message" /\ Message(do)
        \/ do.op = "shorten" /\ Shorten(do)
        \/ do.op = "rewrite" /\ Rewrite
        \/ do.op = "append" /\ AppendQueue(do.by)
  /\ UNCHANGED <<settingVars, notes>>

-----------------------------------------------------------------------------
(* Power.                                                                  *)

(* A text that was being written ends anywhere. *)
CutSettings ==
  IF plan # <<>> /\ Head(plan).op = "write"
  THEN LET f == Head(plan).file
       IN \E c \in {Bad("empty"), Bad("part"), Whole(Head(plan).v)} :
            /\ main' = Put(main, f, c)
            /\ torn' = [torn EXCEPT ![f] = @ \/ c = Bad("part")]
  ELSE UNCHANGED <<main, torn>>

CutLog ==
  LET op == IF plan = <<>> THEN "none" ELSE Head(plan).op
      writing == IF op = "rewrite" THEN lines
                 ELSE IF op = "append" THEN q[Head(plan).by] ELSE <<>>
      waiting == Range(lines) \cup UNION {Range(q[l]) : l \in Logger}
  IN \E s \in Prefixes(writing) :
       /\ log' = log \o s
       /\ gone' = gone \cup (waiting \ Range(s))

PowerLoss ==
  /\ up /\ Fails
  /\ CutSettings /\ CutLog
  /\ up' = FALSE /\ plan' = <<>>
  /\ q' = [l \in Logger |-> <<>>] /\ lines' = <<>>
  /\ UNCHANGED <<backup, mem, saves, said, safe, kept, bare, refused, notes>>

(* The constructor of MainWindow reads the settings and logs its start. *)
Start ==
  /\ ~up
  /\ up' = TRUE
  /\ mem' = [f \in File |-> Restored(f)] /\ safe' = mem'
  /\ \E l \in Logger : plan' = Say(l, 0)
  /\ UNCHANGED <<main, backup, saves, kept, torn, bare, refused, logVars, notes, mishaps>>

Next ==
  \/ MenuSave \/ DialogSave \/ Reset \/ \E l \in Logger : Note(l)
  \/ SettingsStep \/ LogStep \/ PowerLoss \/ Start

Spec == Init /\ [][Next]_vars

-----------------------------------------------------------------------------
(* Whenever power fails, the settings restored are those of the last save  *)
(* that was ended or of the one under way: there is a backup whenever the  *)
(* file is not good.  Unless the text was cut off, which readers take for  *)
(* good, or the save began with an old backup or with none: the copy of    *)
(* the save before failed, or power did before it, or a reset found a file *)
(* that was not good (writeChannelsSettings, readChannelsSettings,         *)
(* on_bResetToDefault_clicked).                                            *)
SettingsSurvive ==
  \A f \in File : ~torn[f] /\ ~bare[f] => Restored(f) \in kept[f]

(* A save the log reports has happened, for both files, and no power       *)
(* failure undoes it, unless a file did not open, and but for the          *)
(* exceptions above (on_saveButton, addMess).                              *)
SavedAsLogged ==
  \A m \in Range(log), f \in File :
    m.v \notin refused[f] /\ ~torn[f] /\ ~bare[f] => Restored(f) >= m.v

(* Of the messages of each logger, the file and what waits behind it hold  *)
(* the latest, in order and each once: nothing but the shortening drops    *)
(* one, from the front, and the power those it met on their way (addMess). *)
LogKept ==
  \A l \in Logger :
    LET held == log \o lines \o q[l]
        Own(S) == {m \in S : m.by = l}
    IN /\ \A i, j \in 1 .. Len(held) :
            i < j /\ held[i].by = l /\ held[j].by = l => held[i].n < held[j].n
       /\ Own(Range(held)) \subseteq Range(said) \ gone
       /\ \A m \in Own(Range(held)), k \in Own(Range(said) \ gone) :
            m.n < k.n => k \in Range(held)
=============================================================================
