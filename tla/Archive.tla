------------------------------- MODULE Archive -------------------------------
(***************************************************************************)
(* The archive of the measurements (archivator.cpp, archworker.cpp): once  *)
(* a second cArchivator adds a tick to the file of the current day, which  *)
(* is copied under the date of its first tick and emptied when the day has *)
(* changed.  The archive page (settings.cpp) starts a thread per load that *)
(* reads the files of the days asked for, while ticks are added, the day   *)
(* changes, and power may fail between any two steps on the files.         *)
(*                                                                         *)
(* A tick is its number and the day its time is in; the values of the      *)
(* channels, the averages over long periods and the banks of addTick,      *)
(* which nothing reads, are left out.                                      *)
(***************************************************************************)
EXTENDS Naturals, Sequences, Functions

CONSTANTS
  MaxDay,      \* bound on the days
  Back,        \* how many days back a period that can be chosen begins
  MaxTicks,    \* bound on the ticks added
  MaxLoads,    \* bound on the loads asked for
  MaxCrashes   \* bound on the restarts of the program

ASSUME ArchiveAssumption ==
  /\ MaxDay \in Nat \ {0} /\ Back \subseteq Nat /\ MaxTicks \in Nat /\ MaxLoads \in Nat
  /\ MaxCrashes \in Nat

Day == 1 .. MaxDay
Tick == [day : Day, n : 1 .. MaxTicks]

VARIABLES
  clock,        \* the current day
  sek,          \* the file of the current day
  dated,        \* the files named by a day; 0 is the first of 2000
  pc,           \* addTickSek: "idle", "empty" (copied or not), "append"
  up, arch,     \* the program runs, and its object cArchivator exists
  open,         \* the archive page
  loads,        \* the reading threads: what each is at
  arrTicks,     \* what the last of them to finish has delivered
  shown,        \* the ticks on the graph, by their places in arrTicks
  span,         \* the days asked for last
  ticks, asked, crashes,  \* counted for the bounds
  taken,        \* ghost: the ticks added, in order
  spoilt,       \* ghost: the ticks whose copy failed
  since, clear  \* ghosts: the ticks when asked; whether the file was of that
                \* day, and no other load or change of the day has come since

fileVars == <<sek, dated, taken, spoilt, ticks>>
pageVars == <<open, loads, arrTicks, shown, span, asked, since, clear>>
vars == <<clock, fileVars, pc, up, arch, pageVars, crashes>>

Init ==
  /\ clock = 1 /\ sek = <<>> /\ dated = [d \in 0 .. MaxDay |-> <<>>]
  /\ pc = "idle" /\ up = TRUE /\ arch = TRUE
  /\ open = FALSE /\ loads = {} /\ arrTicks = <<>> /\ shown = <<>>
  /\ span = {} /\ since = 0 /\ clear = FALSE
  /\ ticks = 0 /\ asked = 0 /\ crashes = 0
  /\ taken = <<>> /\ spoilt = {}

-----------------------------------------------------------------------------
(* cArchivator::addTickSek, on the GUI thread.                             *)

(* The day of the first tick; an empty file reads as time 0. *)
FirstDay(file) == IF file = <<>> THEN 0 ELSE file[1].day

(* Faulty: the copy is named by the current day. *)
CheckDayNow ==
  /\ up /\ arch /\ pc = "idle" /\ ticks < MaxTicks
  /\ IF FirstDay(sek) = clock
     THEN pc' = "append" /\ UNCHANGED <<dated, spoilt, clear>>
     ELSE /\ pc' = "empty"
          /\ dated' = IF dated[clock] = <<>> THEN [dated EXCEPT ![clock] = sek] ELSE dated
          /\ UNCHANGED <<spoilt, clear>>
  /\ UNCHANGED <<clock, sek, taken, ticks, up, arch, open, loads, arrTicks, shown, span,
                 asked, since, crashes>>

(* The day has changed: copy the file under its date.  QFile::copy refuses *)
(* to overwrite, or may fail; its result is ignored.  (So a day that comes *)
(* again, when the clock is set back, is lost: here the clock is not.)     *)
CheckDay ==
  /\ up /\ arch /\ pc = "idle" /\ ticks < MaxTicks
  /\ LET d == FirstDay(sek)
     IN IF d = clock
        THEN pc' = "append" /\ UNCHANGED <<dated, spoilt, clear>>
        ELSE /\ pc' = "empty"
             /\ \/ /\ dated' = IF dated[d] = <<>> THEN [dated EXCEPT ![d] = sek] ELSE dated
                   /\ UNCHANGED spoilt
                \/ /\ spoilt' = spoilt \cup Range(sek)
                   /\ UNCHANGED dated
             /\ clear' = FALSE
  /\ UNCHANGED <<clock, sek, taken, ticks, up, arch, open, loads, arrTicks, shown, span,
                 asked, since, crashes>>

Empty ==
  /\ pc = "empty"
  /\ sek' = <<>>
  /\ pc' = "append"
  /\ UNCHANGED <<clock, dated, taken, spoilt, ticks, up, arch, pageVars, crashes>>

(* Faulty: the file is opened for writing and not for appending. *)
AppendTickOver ==
  /\ pc = "append"
  /\ ticks' = ticks + 1
  /\ LET t == [day |-> clock, n |-> ticks']
     IN sek' = <<t>> /\ taken' = Append(taken, t)
  /\ pc' = "idle"
  /\ UNCHANGED <<clock, dated, spoilt, up, arch, pageVars, crashes>>

AppendTick ==
  /\ pc = "append"
  /\ ticks' = ticks + 1
  /\ LET t == [day |-> clock, n |-> ticks']
     IN sek' = Append(sek, t) /\ taken' = Append(taken, t)
  /\ pc' = "idle"
  /\ UNCHANGED <<clock, dated, spoilt, up, arch, pageVars, crashes>>

-----------------------------------------------------------------------------
(* The archive page, on the GUI thread.                                    *)

(* cArchivator::load of the days from p days ago: the buffer is reset and  *)
(* another thread started, whether or not one is running.                  *)
load(p) ==
  /\ asked < MaxLoads
  /\ asked' = asked + 1
  /\ span' = {d \in Day : d <= clock /\ clock <= d + p}
  /\ arrTicks' = <<>>
  /\ loads' = loads \cup {[id |-> asked', at |-> "start", back |-> p, day |-> 0, last |-> 0,
                           name |-> 0, vec |-> <<>>]}
  /\ since' = ticks
  /\ clear' = (loads = {} /\ FirstDay(sek) \in {0, clock})

(* on_ArchiveButton_clicked, and a period chosen on the page. *)
Open(p) ==
  /\ up /\ pc = "idle" /\ arch /\ ~open
  /\ open' = TRUE /\ shown' = <<>>
  /\ load(p)
  /\ UNCHANGED <<clock, fileVars, pc, up, arch, crashes>>

Choose(p) ==
  /\ up /\ pc = "idle" /\ open
  /\ load(p)
  /\ UNCHANGED <<clock, fileVars, pc, up, arch, open, shown, crashes>>

(* ~dSettings deletes the object cArchivator it was given, and with it what *)
(* the threads would have been connected to.                               *)
Close ==
  /\ up /\ pc = "idle" /\ open
  /\ open' = FALSE /\ arch' = FALSE
  /\ loads' = {} /\ arrTicks' = <<>> /\ shown' = <<>>
  /\ UNCHANGED <<clock, fileVars, pc, up, span, asked, since, clear, crashes>>

(* The page calls the deleted object, which is undefined: here the program *)
(* ends, or nothing comes of it.                                           *)
OpenDeleted ==
  /\ up /\ pc = "idle" /\ ~open /\ ~arch
  /\ up' = FALSE
  /\ UNCHANGED <<clock, fileVars, pc, arch, pageVars, crashes>>

(* drowGraf, for loadFinished of one of the loads: getVector takes the      *)
(* ticks of the period asked for last, each as it comes to the next one:   *)
(* the last it does not take.                                              *)
drowGraf(l) ==
  /\ up /\ pc = "idle" /\ open /\ l.at = "finished"
  /\ LET inside == {i \in DOMAIN arrTicks : arrTicks[i].day \in span}
     IN shown' = Restrict(arrTicks, {i \in inside : \E j \in inside : i < j})
  /\ loads' = loads \ {l}
  /\ UNCHANGED <<clock, fileVars, pc, up, arch, open, arrTicks, span, asked, since, clear,
                 crashes>>

-----------------------------------------------------------------------------
(* cArchWorker::run, on a thread of its own.                               *)

To(l, m) == loads' = (loads \ {l}) \cup {m}

WorkerStart(l) ==
  /\ l.at = "start"
  /\ To(l, [l EXCEPT !.at = "name", !.last = clock,
                     !.day = IF clock > l.back THEN clock - l.back ELSE 1])
  /\ UNCHANGED arrTicks

(* The file of the day that is today now has no date; 0 stands for it. *)
WorkerName(l) ==
  /\ l.at = "name" /\ l.day <= l.last
  /\ To(l, [l EXCEPT !.at = "read", !.name = IF l.day = clock THEN 0 ELSE l.day])
  /\ UNCHANGED arrTicks

WorkerRead(l) ==
  /\ l.at = "read"
  /\ To(l, [l EXCEPT !.at = "name", !.day = @ + 1,
                     !.vec = @ \o (IF l.name = 0 THEN sek ELSE dated[l.name])])
  /\ UNCHANGED arrTicks

(* sendVectorsTicks and finished, which are called directly. *)
WorkerFinish(l) ==
  /\ l.at = "name" /\ l.day > l.last
  /\ To(l, [l EXCEPT !.at = "finished"])
  /\ arrTicks' = l.vec

Worker(l) ==
  /\ WorkerStart(l) \/ WorkerName(l) \/ WorkerRead(l) \/ WorkerFinish(l)
  /\ UNCHANGED <<clock, fileVars, pc, up, arch, open, shown, span, asked, since, clear,
                 crashes>>

-----------------------------------------------------------------------------
(* The clock and the power supply.                                         *)

NewDay ==
  /\ clock < MaxDay
  /\ clock' = clock + 1
  /\ clear' = FALSE
  /\ UNCHANGED <<fileVars, pc, up, arch, open, loads, arrTicks, shown, span, asked, since,
                 crashes>>

PowerLoss ==
  /\ up /\ crashes < MaxCrashes
  /\ crashes' = crashes + 1
  /\ up' = FALSE /\ pc' = "idle"
  /\ open' = FALSE /\ loads' = {} /\ arrTicks' = <<>> /\ shown' = <<>>
  /\ UNCHANGED <<clock, fileVars, arch, span, asked, since, clear>>

Start ==
  /\ ~up
  /\ up' = TRUE /\ arch' = TRUE
  /\ UNCHANGED <<clock, fileVars, pc, pageVars, crashes>>

addTickSek == CheckDay \/ Empty \/ AppendTick

Next ==
  \/ addTickSek
  \/ \E p \in Back : Open(p) \/ Choose(p)
  \/ Close \/ OpenDeleted
  \/ \E l \in loads : drowGraf(l) \/ Worker(l)
  \/ NewDay \/ PowerLoss \/ Start

Spec == Init /\ [][Next]_vars

-----------------------------------------------------------------------------
Load == [id : 1 .. MaxLoads, at : {"start", "name", "read", "finished"}, back : Back,
         day : 0 .. MaxDay + 1, last : 0 .. MaxDay, name : 0 .. MaxDay, vec : Seq(Tick)]

(* Types of the variables. *)
TypeOK ==
  /\ clock \in Day /\ sek \in Seq(Tick) /\ dated \in [0 .. MaxDay -> Seq(Tick)]
  /\ pc \in {"idle", "empty", "append"} /\ up \in BOOLEAN /\ arch \in BOOLEAN
  /\ open \in BOOLEAN /\ loads \subseteq Load /\ span \subseteq Day
  /\ arrTicks \in Seq(Tick) /\ DOMAIN shown \subseteq Nat /\ Range(shown) \subseteq Tick
  /\ ticks \in 0 .. MaxTicks /\ asked \in 0 .. MaxLoads
  /\ crashes \in 0 .. MaxCrashes
  /\ taken \in Seq(Tick) /\ spoilt \subseteq Tick /\ since \in 0 .. MaxTicks /\ clear \in BOOLEAN

(* No tick is lost when the file of the day is copied and emptied, with    *)
(* power failing in between or not: only those of a copy that failed are   *)
(* (addTickSek).                                                           *)
TicksKept ==
  Range(taken) \ spoilt
    \subseteq Range(sek) \cup UNION {Range(dated[d]) : d \in Day}

(* A tick added as the day changed, behind those of the day before. *)
Misfiled(t) ==
  \E file \in {sek} \cup {dated[d] : d \in Day} : t \in Range(file) /\ file[1].day # t.day

(* What the period asked for has in the files, and had when asked. *)
Sought == {t \in Range(taken) \ spoilt : t.day \in span /\ t.n <= since /\ ~Misfiled(t)}

(* Once drawn, the graph shows the ticks of the period asked for, each one *)
(* once and in order, none missing but the last: the file read for a day   *)
(* is the one its ticks are in, also after restarts.  Unless another load  *)
(* or a change of the day came between, or the file was still that of the  *)
(* day before (run, load, getVector).                                      *)
GraphComplete ==
  open /\ loads = {} /\ clear =>
    /\ \A i, j \in DOMAIN shown : i < j => shown[i].n < shown[j].n
    /\ \A t, u \in Sought : t.n < u.n => t \in Range(shown)

=============================================================================
