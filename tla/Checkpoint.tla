------------------------------ MODULE Checkpoint ------------------------------
(***************************************************************************)
(* checkpoint.py and the session that calls it.  A runbook skill (triage,  *)
(* patch) works through numbered phases; after each it saves the phase's   *)
(* output, in the middle of the expensive one it saves a shard per         *)
(* candidate, and at the end it marks the run complete.  A new session     *)
(* reads progress.json and either resumes or resets the state directory.   *)
(*                                                                         *)
(* A save or a shard is two atomic writes, the payload and then            *)
(* progress.json, and a reset deletes file by file.  The session may be    *)
(* killed before any of them; what it knew is then gone, what is on disk   *)
(* stays.  A file is abstracted to the run that wrote it, which is what    *)
(* decides whether a resumed run may use it.                               *)
(*                                                                         *)
(* The specification is StoreSpec: its proofs share a module with those of *)
(* Routing, and the names of the two are kept apart.                       *)
(***************************************************************************)
EXTENDS Naturals, FiniteSets

CONSTANTS
  LastPhase,    \* the phase whose end completes the run
  ShardPhase,   \* the phase that is checkpointed per candidate
  Candidates,   \* shard ids of that phase
  MaxRuns,      \* bound on fresh starts
  FreshFlag     \* whether a user may pass --fresh while a run is under way

ASSUME StoreAssumption ==
  /\ LastPhase \in Nat
  /\ ShardPhase \in 1 .. LastPhase - 1
  /\ MaxRuns \in Nat \ {0}
  /\ FreshFlag \in BOOLEAN

Phases == 0 .. LastPhase
Saves  == 0 .. LastPhase - 1   \* the phases that have a payload
None   == MaxRuns + 1      \* no such phase, no such run

VARIABLES
  phaseFile,   \* [Saves -> the run that wrote phaseN.json, or None]
  shardFile,   \* [Candidates -> the run that wrote shard_<id>.json, or None]
  progress,    \* progress.json
  session,     \* what the live session knows
  runs         \* how many runs were started

storeVars == <<phaseFile, shardFile, progress, session, runs>>

Absent == [status |-> "absent", phase_done |-> 0, shards_done |-> {}, by |-> None]

NoSession == [step |-> "dead", phase |-> 0, shards |-> {}, by |-> None, busy |-> None]

Progress ==
  [status: {"absent", "running", "complete"}, phase_done: Phases,
   shards_done: SUBSET Candidates, by: 1 .. None]

Session ==
  [step: {"dead", "resuming", "resetting", "working", "shard", "save"}, phase: Phases,
   shards: SUBSET Candidates, by: 1 .. None, busy: Candidates \cup {None}]

-----------------------------------------------------------------------------
(* Start of a session: load, then resume or reset.                         *)

Working(p, s, r) == [step |-> "working", phase |-> p, shards |-> s, by |-> r, busy |-> None]

Load ==
  /\ session.step = "dead"
  /\ \/ /\ progress.status = "running"
        /\ session' = [Working(progress.phase_done + 1, progress.shards_done, progress.by)
                         EXCEPT !.step = "resuming"]
     \/ /\ progress.status \in {"absent", "complete"} \/ FreshFlag
        /\ runs < MaxRuns
        /\ session' = [NoSession EXCEPT !.step = "resetting"]
  /\ UNCHANGED <<phaseFile, shardFile, progress, runs>>

\* The resumed session reads every phase file up to phase_done and the
\* shards listed, and dies on a missing one.
FilesOf(p, s) ==
  {phaseFile[n] : n \in 0 .. p} \cup {shardFile[c] : c \in s}

Resume ==
  /\ session.step = "resuming"
  /\ IF None \in FilesOf(session.phase - 1, session.shards)
       THEN session' = NoSession
       ELSE session' = [session EXCEPT !.step = "working"]
  /\ UNCHANGED <<phaseFile, shardFile, progress, runs>>

\* cmd_reset: shutil.rmtree, one file at a time in whatever order the
\* directory lists them, then an empty directory.
DirEmpty ==
  /\ \A n \in Saves : phaseFile[n] = None
  /\ \A c \in Candidates : shardFile[c] = None
  /\ progress = Absent

RemoveFile ==
  /\ session.step = "resetting"
  /\ \/ \E n \in Saves : /\ phaseFile[n] # None
                          /\ phaseFile' = [phaseFile EXCEPT ![n] = None]
                          /\ UNCHANGED <<shardFile, progress>>
     \/ \E c \in Candidates : /\ shardFile[c] # None
                              /\ shardFile' = [shardFile EXCEPT ![c] = None]
                              /\ UNCHANGED <<phaseFile, progress>>
     \/ /\ progress # Absent
        /\ progress' = Absent
        /\ UNCHANGED <<phaseFile, shardFile>>
  /\ UNCHANGED <<session, runs>>

StartRun ==
  /\ session.step = "resetting"
  /\ DirEmpty
  /\ runs' = runs + 1
  /\ session' = Working(0, {}, runs + 1)
  /\ UNCHANGED <<phaseFile, shardFile, progress>>

-----------------------------------------------------------------------------
(* The work.                                                               *)

\* Mutant: the shards already recorded are dropped from the list.
ShardListFresh(c) == {c}

\* cmd_shard keeps what progress.json lists and adds the shard.
ShardList(c) == progress.shards_done \cup {c}

\* A candidate is verified and its shard file written ...
ShardPayload ==
  /\ session.step = "working"
  /\ session.phase = ShardPhase
  /\ \E c \in Candidates \ session.shards :
       /\ shardFile' = [shardFile EXCEPT ![c] = session.by]
       /\ session' = [session EXCEPT !.step = "shard", !.busy = c]
  /\ UNCHANGED <<phaseFile, progress, runs>>

\* ... and then listed in progress.json.
ShardProgress ==
  /\ session.step = "shard"
  /\ progress' = [progress EXCEPT !.shards_done = ShardList(session.busy)]
  /\ session' = [session EXCEPT !.step = "working", !.busy = None,
                                !.shards = session.shards \cup {session.busy}]
  /\ UNCHANGED <<phaseFile, shardFile, runs>>

\* A phase's output is written when its work is done; in the sharded phase
\* that is when every candidate has its shard.
PhasePayload ==
  /\ session.step = "working"
  /\ session.phase < LastPhase
  /\ session.phase = ShardPhase => session.shards = Candidates
  /\ phaseFile' = [phaseFile EXCEPT ![session.phase] = session.by]
  /\ session' = [session EXCEPT !.step = "save"]
  /\ UNCHANGED <<shardFile, progress, runs>>

\* Mutant: records the phase before the one that was saved.
SavedBehind(n, r) ==
  [status |-> "running", phase_done |-> IF n = 0 THEN 0 ELSE n - 1,
   shards_done |-> {}, by |-> r]

\* Mutant: records the phase after the one that was saved.
SavedAhead(n, r) ==
  [status |-> "running", phase_done |-> n + 1, shards_done |-> {}, by |-> r]

\* cmd_save: status running, phase n, no shards.
Saved(n, r) ==
  [status |-> "running", phase_done |-> n, shards_done |-> {}, by |-> r]

PhaseProgress ==
  /\ session.step = "save"
  /\ progress' = Saved(session.phase, session.by)
  /\ session' = Working(session.phase + 1, {}, session.by)
  /\ UNCHANGED <<phaseFile, shardFile, runs>>

\* cmd_done: the last phase has no payload, only the status.
Done ==
  /\ session.step = "working"
  /\ session.phase = LastPhase
  /\ progress' = [Saved(LastPhase, session.by) EXCEPT !.status = "complete"]
  /\ session' = NoSession
  /\ UNCHANGED <<phaseFile, shardFile, runs>>

Kill ==
  /\ session.step # "dead"
  /\ session' = NoSession
  /\ UNCHANGED <<phaseFile, shardFile, progress, runs>>

StoreInit ==
  /\ phaseFile = [n \in Saves |-> None]
  /\ shardFile = [c \in Candidates |-> None]
  /\ progress = Absent
  /\ session = NoSession
  /\ runs = 0

StoreNext ==
  \/ Load \/ Resume \/ RemoveFile \/ StartRun
  \/ ShardPayload \/ ShardProgress \/ PhasePayload \/ PhaseProgress \/ Done
  \/ Kill

StoreSpec == StoreInit /\ [][StoreNext]_storeVars

\* The user re-runs the skill, and no step is cut off every time it is tried.
StoreFairness ==
  /\ SF_storeVars(Load) /\ SF_storeVars(Resume) /\ SF_storeVars(RemoveFile) /\ SF_storeVars(StartRun)
  /\ SF_storeVars(ShardPayload) /\ SF_storeVars(ShardProgress)
  /\ SF_storeVars(PhasePayload) /\ SF_storeVars(PhaseProgress) /\ SF_storeVars(Done)

FairStoreSpec == StoreSpec /\ StoreFairness

-----------------------------------------------------------------------------
StoreTypeOK ==
  /\ phaseFile \in [Saves -> 1 .. None]
  /\ shardFile \in [Candidates -> 1 .. None]
  /\ progress \in Progress
  /\ session \in Session
  /\ runs \in 0 .. MaxRuns

\* What a resumed session will read is there and of one and the same run: the
\* payload is on disk before progress.json speaks of it, and a file left by an
\* earlier run is never listed.
ResumeIsComplete ==
  progress.status = "running" /\ session.step # "resetting" =>
    FilesOf(progress.phase_done, progress.shards_done) = {progress.by}

\* However often the session is killed and resumed, the recorded position of a
\* run only moves forward: no phase and no candidate is paid for twice once it
\* is recorded.
PositionMovesForward ==
  [][progress.by = progress'.by =>
       \/ progress'.phase_done > progress.phase_done
       \/ /\ progress'.phase_done = progress.phase_done
          /\ progress.shards_done \subseteq progress'.shards_done]_progress

\* A run that is under way is completed, through any number of kills.
RunCompletes == progress.status = "running" ~> progress.status = "complete"
=============================================================================
