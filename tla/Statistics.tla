------------------------------ MODULE Statistics ------------------------------
(***************************************************************************)
(* The importer of the tracker's figures (tracker/statistics_importer.rs), *)
(* its cronjob with the heartbeat and the health check                     *)
(* (console/cronjobs/tracker_statistics_importer.rs), and imports of       *)
(* single torrents on behalf of readers, which get in its way.             *)
(*                                                                         *)
(* Time is kept in timers that count up or down, so that behaviours have   *)
(* no end: how old the last heartbeat is, when the next tick is due, and   *)
(* how long the importer has been waiting for the tracker.                 *)
(***************************************************************************)
EXTENDS Integers, FiniteSets

CONSTANTS
  Hashes,
  Figures,     \* what the tracker may say of a torrent; 0 is none
  Interval,    \* tracker_statistics_importer.torrent_info_update_interval
  Margin,      \* ten seconds
  Timeout,     \* five seconds
  MaxLate,     \* bound: how late a tick may be taken
  MaxId,       \* bound of the torrents' ids
  Arrivals     \* bound: the torrents that may be uploaded under each id

ASSUME StatisticsAssumption ==
  /\ 0 \in Figures
  /\ Interval \in Nat \ {0}    \* tokio::time::interval panics for zero
  /\ Margin \in Nat /\ Timeout \in Nat
  /\ MaxLate \in Nat /\ MaxId \in Nat
  /\ Arrivals \in [1 .. MaxId -> SUBSET Hashes]

VARIABLES
  torrents,    \* the listed torrents
  nextId,
  stats,       \* seeders of each id in torrust_torrent_tracker_stats, or Unknown
  swarm,       \* the tracker's figures
  up,          \* whether the tracker answers
  untilTick,   \* until the next tick; negative when it is overdue
  beatAge,     \* since the last heartbeat
  missed,      \* history: heartbeats that have failed since then, to MaxMissed
  waited,      \* since the cronjob asked the tracker
  pc,          \* where the cronjob and the reader's handler are
  todo,        \* the torrents of the cronjob's list that are still to do
  torrent,     \* the torrent that each is importing
  figure       \* what each has heard of it

tables == <<torrents, nextId, stats>>
tracker == <<swarm, up>>
heart == <<beatAge, missed>>
clocks == <<untilTick, heart, waited>>
locals == <<torrent, figure>>
vars == <<tables, tracker, clocks, pc, todo, locals>>

Torrent == [torrent_id : 1 .. MaxId, info_hash : Hashes]
NoTorrent == [torrent_id |-> 0]
Unknown == -1
Importers == {"cronjob", "reader"}

\* Bound of what is counted, not of what happens: with so many heartbeats missing
\* the health check may fail at any time, however short the interval is.
MaxMissed == Margin + 2

TypeOK ==
  /\ torrents \in SUBSET Torrent
  /\ nextId \in 1 .. MaxId + 1
  /\ stats \in [1 .. MaxId -> Figures \cup {Unknown}]
  /\ swarm \in [Hashes -> Figures]
  /\ up \in BOOLEAN
  /\ untilTick \in -MaxLate .. Interval
  /\ beatAge \in 0 .. Interval + Margin + 1
  /\ missed \in 0 .. MaxMissed
  /\ waited \in 0 .. Timeout
  /\ pc \in [Importers -> {"wait", "beat", "beaten", "list", "next", "asked", "heard"}]
  /\ todo \in SUBSET Torrent
  /\ todo # {} => pc["cronjob"] \in {"next", "asked", "heard"}
  /\ torrent \in [Importers -> Torrent \cup {NoTorrent}]
  /\ figure \in [Importers -> Figures]

\* The API and the cronjob start together; the first tick is immediate.
Init ==
  /\ torrents = {}
  /\ nextId = 1
  /\ stats = [id \in 1 .. MaxId |-> Unknown]
  /\ swarm = [h \in Hashes |-> 0]
  /\ up = TRUE
  /\ untilTick = Interval
  /\ beatAge = 0
  /\ missed = 0
  /\ waited = 0
  /\ pc = [i \in Importers |-> "wait"]
  /\ todo = {}
  /\ torrent = [i \in Importers |-> NoTorrent]
  /\ figure = [i \in Importers |-> 0]

GoTo(i, step) == pc' = [pc EXCEPT ![i] = step]

-----------------------------------------------------------------------------
(* The cronjob *)

\* Mutant: the heartbeat is sent when the import is done.
Loop_BeatLast == [tick |-> "list", beat |-> "wait", done |-> "beat"]

\* What the loop does after a tick, after the heartbeat and after the import.
Loop == [tick |-> "beat", beat |-> "list", done |-> "wait"]

\* MissedTickBehavior::Burst, the default: a late tick does not move the next.
NextDue == untilTick + Interval

TakeTick ==
  /\ pc["cronjob"] = "wait"
  /\ untilTick <= 0
  /\ untilTick' = NextDue
  /\ GoTo("cronjob", Loop.tick)
  /\ UNCHANGED <<tables, tracker, heart, waited, todo, locals>>

\* heartbeat_handler, in the API
ReceiveHeartbeat ==
  /\ pc["cronjob"] = "beat"
  /\ beatAge' = 0
  /\ missed' = 0
  /\ GoTo("cronjob", "beaten")
  /\ UNCHANGED <<tables, tracker, untilTick, waited, todo, locals>>

\* send_heartbeat ends: with the handler's answer, or with an error on its way back.
EndHeartbeat ==
  /\ pc["cronjob"] = "beaten"
  /\ GoTo("cronjob", Loop.beat)
  /\ UNCHANGED <<tables, tracker, clocks, todo, locals>>

\* The POST does not get through: the error is logged, and the import follows.
\* The client has no timeout: a POST that hangs is one that none of the three
\* steps is taken for, while time passes.
LoseHeartbeat ==
  /\ pc["cronjob"] = "beat"
  /\ missed' = IF missed < MaxMissed THEN missed + 1 ELSE missed
  /\ GoTo("cronjob", Loop.beat)
  /\ UNCHANGED <<tables, tracker, untilTick, beatAge, waited, todo, locals>>

\* import_all_torrents_statistics: the list is read once.
ListTorrents ==
  /\ pc["cronjob"] = "list"
  /\ todo' = torrents
  /\ GoTo("cronjob", "next")
  /\ UNCHANGED <<tables, tracker, clocks, locals>>

\* The error of the list is dropped.
FailToList ==
  /\ pc["cronjob"] = "list"
  /\ GoTo("cronjob", Loop.done)
  /\ UNCHANGED <<tables, tracker, clocks, todo, locals>>

AskNext ==
  /\ pc["cronjob"] = "next"
  /\ \E t \in todo :
       /\ torrent' = [torrent EXCEPT !["cronjob"] = t]
       /\ todo' = todo \ {t}
  /\ GoTo("cronjob", "asked")
  /\ UNCHANGED <<tables, tracker, clocks, figure>>

FinishImport ==
  /\ pc["cronjob"] = "next"
  /\ todo = {}
  /\ GoTo("cronjob", Loop.done)
  /\ UNCHANGED <<tables, tracker, clocks, todo, locals>>

\* A reader asks for the details of a torrent, or an uploader has added it.
AskForReader ==
  /\ pc["reader"] = "wait"
  /\ \E t \in torrents : torrent' = [torrent EXCEPT !["reader"] = t]
  /\ GoTo("reader", "asked")
  /\ UNCHANGED <<tables, tracker, clocks, todo, figure>>

-----------------------------------------------------------------------------
(* import_torrent_statistics, for both *)

EndOfWait(i) ==
  /\ waited' = IF i = "cronjob" THEN 0 ELSE waited
  /\ GoTo(i, "heard")
  /\ UNCHANGED <<tables, tracker, untilTick, heart, todo, torrent>>

Hear(i) ==
  /\ pc[i] = "asked"
  /\ up
  /\ figure' = [figure EXCEPT ![i] = swarm[torrent[i].info_hash]]
  /\ EndOfWait(i)

\* Mutant: an error writes nothing.
HearNothing_Skip(i) ==
  /\ pc[i] = "asked"
  /\ ~up
  /\ waited' = IF i = "cronjob" THEN 0 ELSE waited
  /\ GoTo(i, IF i = "cronjob" THEN "next" ELSE "wait")
  /\ torrent' = [torrent EXCEPT ![i] = NoTorrent]
  /\ UNCHANGED <<tables, tracker, untilTick, heart, todo, figure>>

\* Mutant: there is no timeout.
HearNothing_Wait(i) ==
  /\ pc[i] = "asked"
  /\ up /\ ~up
  /\ figure' = [figure EXCEPT ![i] = 0]
  /\ EndOfWait(i)

\* An error, or silence until the timeout: zero is written.
HearNothing(i) ==
  /\ pc[i] = "asked"
  /\ ~up
  /\ figure' = [figure EXCEPT ![i] = 0]
  /\ EndOfWait(i)

\* The cronjob goes on to the next torrent, whatever the result was.
AfterWrite(i) == IF i = "reader" THEN "wait" ELSE "next"

EndOfWrite(i) ==
  /\ pc[i] = "heard"
  /\ GoTo(i, AfterWrite(i))
  /\ torrent' = [torrent EXCEPT ![i] = NoTorrent]
  /\ figure' = [figure EXCEPT ![i] = 0]
  /\ UNCHANGED <<torrents, nextId, tracker, clocks, todo>>

\* REPLACE INTO; the row refers to the torrent.
WriteFigure(i) ==
  /\ EndOfWrite(i)
  /\ stats' = IF torrent[i] \in torrents
              THEN [stats EXCEPT ![torrent[i].torrent_id] = figure[i]]
              ELSE stats

\* The error of the database is dropped.
FailToWrite(i) == EndOfWrite(i) /\ UNCHANGED stats

-----------------------------------------------------------------------------
(* The world *)

Upload(hash) ==
  /\ \A t \in torrents : t.info_hash # hash
  /\ nextId <= MaxId /\ hash \in Arrivals[nextId]
  /\ torrents' = torrents \cup {[torrent_id |-> nextId, info_hash |-> hash]}
  /\ nextId' = nextId + 1
  /\ UNCHANGED <<stats, tracker, clocks, pc, todo, locals>>

\* ON DELETE CASCADE
Delete(t) ==
  /\ torrents' = torrents \ {t}
  /\ stats' = [stats EXCEPT ![t.torrent_id] = Unknown]
  /\ UNCHANGED <<nextId, tracker, clocks, pc, todo, locals>>

\* Peers come and go...
SwarmChanges ==
  /\ up
  /\ \E h \in Hashes : \E f \in Figures \ {swarm[h]} : swarm' = [swarm EXCEPT ![h] = f]
  /\ UNCHANGED <<tables, up, clocks, pc, todo, locals>>

\* ... and so does the tracker.  While it is down nobody sees its figures: zero,
\* and its peers come back one by one.
TrackerChanges ==
  /\ up' = ~up
  /\ swarm' = [h \in Hashes |-> 0]
  /\ UNCHANGED <<tables, clocks, pc, todo, locals>>

\* A second passes, unless the cronjob's call is about to time out.
Tick ==
  /\ untilTick > -MaxLate
  /\ pc["cronjob"] = "asked" => waited < Timeout
  /\ untilTick' = untilTick - 1
  /\ beatAge' = IF beatAge > Interval + Margin THEN beatAge ELSE beatAge + 1
  /\ waited' = IF pc["cronjob"] = "asked" THEN waited + 1 ELSE waited
  /\ UNCHANGED <<tables, tracker, missed, pc, todo, locals>>

CronStep ==
  \/ TakeTick \/ EndHeartbeat \/ ListTorrents \/ AskNext \/ FinishImport
  \/ Hear("cronjob") \/ HearNothing("cronjob") \/ WriteFigure("cronjob")

ReaderStep == Hear("reader") \/ HearNothing("reader") \/ WriteFigure("reader")

DatabaseFails == FailToList \/ \E i \in Importers : FailToWrite(i)

Next ==
  \/ CronStep \/ ReceiveHeartbeat \/ LoseHeartbeat
  \/ ReaderStep \/ AskForReader \/ DatabaseFails
  \/ \E h \in Hashes : Upload(h)
  \/ \E t \in torrents : Delete(t)
  \/ SwarmChanges \/ TrackerChanges \/ Tick

Spec == Init /\ [][Next]_vars

\* The runtime goes on polling the cronjob and time passes; of readers nothing is
\* assumed.  Strong fairness is
\* asked of the steps that an error may take the place of, and of no other: the
\* heartbeats do not all fail from some time on (LoseHeartbeat), the database does
\* not refuse the list (FailToList), or the figures of one torrent (FailToWrite),
\* every time.  It also says that no POST hangs for ever: the client has no timeout
\* that rules it out, but the API it calls is a task of the same process.
FairSpec ==
  /\ Spec
  /\ WF_vars(CronStep) /\ WF_vars(Tick)
  /\ SF_vars(ReceiveHeartbeat)
  /\ SF_vars(ListTorrents)
  /\ \A id \in 1 .. MaxId :
       SF_vars(WriteFigure("cronjob") /\ torrent["cronjob"].torrent_id = id)

-----------------------------------------------------------------------------
(* Properties *)

\* health_check_handler
Healthy == beatAge <= Interval + Margin

\* The ticks that were taken and have no heartbeat: the POST failed, or is under way.
Unheard == missed + (IF pc["cronjob"] = "beat" THEN 1 ELSE 0)

(***************************************************************************)
(* The health check of the container fails only when the importer is late  *)
(* by more than the margin: when the next tick is overdue that long - an   *)
(* import has kept the loop for more than an interval and the margin - or  *)
(* would be if it were due as many intervals earlier as there are ticks    *)
(* without a heartbeat, because their POSTs failed or still hang. Imports  *)
(* of different lengths that follow one another never add up to that, and  *)
(* an interval within the margin makes good for a heartbeat that failed.   *)
(***************************************************************************)
UnhealthyMeansOverdue ==
  ~Healthy => untilTick - Interval * Unheard < -Margin

(***************************************************************************)
(* Heartbeats are received again and again: neither a tracker that is      *)
(* down, nor one that comes and goes, nor the errors of the database or    *)
(* of earlier heartbeats stop the cronjob.                                 *)
(***************************************************************************)
HeartbeatsGoOn == []<>(beatAge = 0)

\* What an import ends in for a torrent: an error counts as zero.
Told(t) == IF up THEN swarm[t.info_hash] ELSE 0

(***************************************************************************)
(* When the torrents and the tracker's answers settle so do the figures of *)
(* each torrent, and they are those the tracker tells, or zeros when it is *)
(* down: an import that another has overtaken, an error that was dropped   *)
(* or a torrent whose import fails does not leave others wrong for good.   *)
(***************************************************************************)
FiguresSettle ==
  \A id \in 1 .. MaxId, f \in Figures :
    <>[](\E t \in torrents : t.torrent_id = id /\ Told(t) = f)
      => <>[](stats[id] = f)

=============================================================================
