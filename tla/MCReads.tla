------------------------------- MODULE MCReads -------------------------------
(***************************************************************************)
(* The ways of reading a table, one at a time: a log scan, lookups, a batch  *)
(* scan, the tokens for remote storage and a read of remote files.  The      *)
(* other parts rest in an initial state.                                    *)
(***************************************************************************)
EXTENDS MCLogScanner, Lookuper, BatchScanner, SecurityTokens, RemoteFiles

-----------------------------------------------------------------------------
(* The lookups: two calls with a key in common. *)

TwoCalls == [c1 |-> <<"a", "b", "d">>, c2 |-> <<"a">>]
TwoGroups == [a |-> 1, b |-> 1, d |-> 2]

-----------------------------------------------------------------------------
(* The remote files: reads of a log in and out of order, with a gap, from the
   end of the first segment, of an object that was changed and of one that is
   too large; of the files of a snapshot; and of no object at all. *)

Object(n, start, size, stored) ==
    [id |-> n, start |-> start, end |-> start + 2, size |-> size, stored |-> stored]

SmallInfos ==
    {[mode |-> "log", first |-> 1, objects |-> <<Object("c", 4, 1, 1), Object("a", 0, 2, 2), Object("b", 2, 2, 2)>>],
     [mode |-> "log", first |-> 0, objects |-> <<Object("a", 0, 1, 1), Object("b", 3, 1, 1)>>],
     [mode |-> "log", first |-> 2, objects |-> <<Object("a", 0, 2, 2), Object("b", 2, 1, 1)>>],
     [mode |-> "log", first |-> 0, objects |-> <<Object("a", 0, 1, 1), Object("b", 2, 1, 2)>>],
     [mode |-> "log", first |-> 0, objects |-> <<>>],
     [mode |-> "snapshot", first |-> 0, objects |-> <<>>],
     [mode |-> "snapshot", first |-> 0, objects |-> <<Object("a", 0, 1, 1), Object("b", 0, 4, 4)>>],
     [mode |-> "snapshot", first |-> 0, objects |-> <<Object("b", 0, 2, 2), Object("a", 0, 1, 1), Object("c", 0, 1, 1)>>],
     [mode |-> "snapshot", first |-> 0, objects |-> <<Object("a", 0, 4, 4), Object("b", 0, 3, 3)>>]}

-----------------------------------------------------------------------------
(* One part at a time. *)

VARIABLE which    \* the part that is in use

readVars == <<which, vars, lookupVars, scanVars, tokenVars, fileVars>>

ReadsInit ==
  /\ which \in {"log", "lookup", "scan", "tokens", "files"}
  /\ Init /\ LookupInit /\ ScanInit /\ TokenInit /\ FilesInit
  /\ which # "scan" => kind = "limit" /\ total = 0
  /\ which # "files" => adapter = "local" /\ info = CHOOSE i \in Infos : i.first = 1

LogReads == which = "log" /\ Next /\ UNCHANGED <<which, lookupVars, scanVars, tokenVars, fileVars>>
LookupReads == which = "lookup" /\ LookupNext /\ UNCHANGED <<which, vars, scanVars, tokenVars, fileVars>>
ScanReads == which = "scan" /\ ScanNext /\ UNCHANGED <<which, vars, lookupVars, tokenVars, fileVars>>
TokenReads == which = "tokens" /\ TokenNext /\ UNCHANGED <<which, vars, lookupVars, scanVars, fileVars>>
FileReads == which = "files" /\ FilesNext /\ UNCHANGED <<which, vars, lookupVars, scanVars, tokenVars>>

\* The fairness of every part, for the part in use.
ReadsFairness ==
  /\ WF_vars(which = "log" /\ (BeginPoll \/ NextBucket))
  /\ WF_vars(which = "log" /\ poll.canceled /\ (BucketEmpty \/ BucketInterrupted))
  /\ \A c \in Lookups : WF_lookupVars(which = "lookup" /\ LookupStep(c))
  /\ WF_lookupVars(which = "lookup" /\ SchedulerStep)
  /\ WF_lookupVars(which = "lookup" /\ WorkerTakes)
  /\ WF_lookupVars(which = "lookup" /\ \E j \in busy : WorkerStep(j))
  /\ WF_scanVars(which = "scan" /\ ScannerStep)
  /\ WF_tokenVars(which = "tokens" /\ ManagerStep)
  /\ WF_fileVars(which = "files" /\ ReadStep)
  /\ WF_fileVars(which = "files" /\ \E j \in Jobs : BackoffEnds(j))

ReadsSpec ==
  /\ ReadsInit
  /\ [][LogReads \/ LookupReads \/ ScanReads \/ TokenReads \/ FileReads]_readVars
  /\ ReadsFairness

\* ScanCompletes, for a log scan that is in use.
LogScanCompletes == which = "log" => ScanCompletes

\* LookupsEnd, for a lookuper that is in use.
LookupCallsEnd == which = "lookup" => LookupsEnd
=============================================================================
