---------------------------- MODULE LeasedTables ----------------------------
(***************************************************************************)
(* The tables of BatchTables under the machine of BatchPipeline: on AWS    *)
(* the stages of the chain are states of executions that compete for the   *)
(* lease, and a Spark application lives as long as its Glue run.           *)
(*                                                                         *)
(* The machine decides who begins and which run is admitted; the guards    *)
(* BatchTables has for that are not repeated here.  That they hold is what *)
(* TablesFollowTheLease says.                                              *)
(***************************************************************************)
EXTENDS BatchPipeline, Sequences

CONSTANTS Candle, Price, Fast, Slow, Wilder, MaxDouble, MaxPower, NoRun \* as in BatchTables

VARIABLES bronze, table, run, raced, found \* as in BatchTables

tableVars == <<bronze, table, run, raced, found>>

stage == [e \in Execution |-> StageOf(state[e])]

Tables == INSTANCE BatchTables WITH platform <- "aws"

ASSUME LeasedAssumption == NoRun \notin Tables!Run

-----------------------------------------------------------------------------

\* The tables see nothing of an execution that starts, is refused or ends.
Unseen(e) ==
  /\ \/ StartExecution(e) \/ AcquireRefused(e) \/ AcquireFails(e) \/ AcquireReplyLost(e)
     \/ StartFails(e) \/ ReleaseLock(e) \/ ReleaseFails(e)
  /\ UNCHANGED tableVars

EnterChain(e) ==
  /\ AcquireLock(e)
  /\ found' = [found EXCEPT ![e] = bronze]
  /\ raced' = IF Tables!LeftBehind = {} THEN raced ELSE raced \cup {e} \cup Tables!LeftBehind
  /\ UNCHANGED <<bronze, table, run>>

\* glue:startJobRun.sync starts a Spark application.
GlueStarts(e) ==
  /\ state[e] \in GlueJob /\ StartJob(e)
  /\ run' = [run EXCEPT ![e] = Tables!Started(stage[e], 1)]
  /\ UNCHANGED <<bronze, table, raced, found>>

ApplicationEnds(e) ==
  /\ run' = [run EXCEPT ![e] = NoRun]
  /\ UNCHANGED <<bronze, table, raced, found>>

GlueSucceeds(e) ==
  /\ state[e] \in GlueJob /\ JobSucceeds(e)
  /\ run[e].next > Len(Tables!Targets(run[e].job))
  /\ ApplicationEnds(e)

GlueFails(e) == state[e] \in GlueJob /\ JobFails(e) /\ ApplicationEnds(e)

\* The application goes on without anybody who waits for it...
GlueIsLost(e) == state[e] \in GlueJob /\ LoseTrack(e) /\ UNCHANGED tableVars

\* ... and ends in its own time.
LostGlueEnds(e) == run[e] # NoRun /\ OrphanEnds(e) /\ ApplicationEnds(e)

\* The projection Lambda writes none of the tables.
Projects(e) ==
  /\ \/ state[e] = "RunLatestProjection"
          /\ (StartJob(e) \/ JobSucceeds(e) \/ JobFails(e) \/ LoseTrack(e))
     \/ run[e] = NoRun /\ OrphanEnds(e)
  /\ UNCHANGED tableVars

\* What an application does, and Bronze, the machine does not see.
Computes(e) ==
  /\ UNCHANGED vars
  /\ Tables!Load(e) \/ Tables!Overwrite(e) \/ Tables!WriteSome(e) \/ Tables!CommitWrite(e)

LeasedInit ==
  /\ Init
  /\ bronze = {}
  /\ table = [d \in Tables!Dataset |-> {}]
  /\ run = [e \in Execution |-> NoRun]
  /\ raced = {}
  /\ found = [e \in Execution |-> {}]

LeasedStep(e) ==
  \/ Unseen(e) \/ EnterChain(e) \/ GlueStarts(e) \/ GlueSucceeds(e) \/ GlueFails(e)
  \/ GlueIsLost(e) \/ LostGlueEnds(e) \/ Projects(e) \/ Computes(e)

LeasedNext ==
  \/ \E e \in Execution : LeasedStep(e)
  \/ \E c \in Candle : UNCHANGED vars /\ Tables!Arrive(c)
  \/ (ExpireItem \/ Tick) /\ UNCHANGED tableVars

LeasedSpec == LeasedInit /\ [][LeasedNext]_<<vars, tableVars>>

-----------------------------------------------------------------------------
(* Properties *)

\* Under a lease that covers the work, the Glue jobs that the machine starts
\* rewrite the tables as BatchTables has it, also when it loses track of some:
\* what is proved of the tables there holds of the machine of main.tf.
TablesFollowTheLease == Tables!Spec

\* No two Glue runs are in progress together, of one job or of two, but for this: an
\* execution has entered the chain while another one's run went on without it.
\* Those two have raced, and their runs are of different jobs; nobody else overlaps,
\* and no execution overlaps itself.
GlueRunsExclude ==
  \A r, s \in runs : r[1] \in GlueJob /\ s[1] \in GlueJob =>
    r = s \/ (r[1] # s[1] /\ r[2] # s[2] /\ {r[2], s[2]} \subseteq raced)
=============================================================================
