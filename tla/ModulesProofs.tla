----------------------------- MODULE ModulesProofs -----------------------------
(***************************************************************************)
(* What FileIO and RestServer promise over the life of the library: files  *)
(* keep what was answered, for any files and numbers of messages and of    *)
(* loads, and no thread of the REST server outlives an end.                *)
(***************************************************************************)
EXTENDS Modules, TLAPS

USE BoundAssumption

Streams == {"null", "closed", "open", "broken"}

\* Each file's history is a sequence; an open stream has missed nothing, and
\* whatever is in the file was answered.
FileInv ==
    /\ sent \in Nat
    /\ stream \in [File -> Streams]
    /\ disk \in [File -> Seq(Nat)] /\ base \in [File -> Seq(Nat)]
    /\ told \in [File -> Seq(Nat)]
    /\ Kept

\* No thread runs when there is no library, nor from an end of the REST server
\* to its next start.
ThreadInv ==
    (library = "loaded" /\ ended) \/ library \in {"absent", "dead"} =>
        thread \in {"none", "deleted"}

------------------------------------------------------------------------------
(* Facts about sequences.                                                   *)

LEMMA PrefixSelf ==
    ASSUME NEW s \in Seq(Nat), NEW t \in Seq(Nat)
    PROVE  /\ F!IsPrefix(s, s) /\ F!IsPrefix(s, s \o t)
           /\ s \o << >> = s
           /\ F!IsPrefix(s, s \o << >>)
  <1>1. SubSeq(s \o t, 1, Len(s)) = SubSeq(s, 1, Len(s))
    OBVIOUS
  <1>2. s \o << >> = s
    OBVIOUS
  <1> QED
    BY <1>1, <1>2 DEF F!IsPrefix

LEMMA PrefixGrows ==
    ASSUME NEW s \in Seq(Nat), NEW t \in Seq(Nat), NEW n \in Nat, F!IsPrefix(s, t)
    PROVE  F!IsPrefix(s, Append(t, n))
  <1>1. SubSeq(Append(t, n), 1, Len(s)) = SubSeq(t, 1, Len(s))
    BY DEF F!IsPrefix
  <1> QED
    BY <1>1 DEF F!IsPrefix

LEMMA AppendConcat ==
    ASSUME NEW s \in Seq(Nat), NEW t \in Seq(Nat), NEW n \in Nat
    PROVE  s \o Append(t, n) = Append(s \o t, n)
  OBVIOUS

------------------------------------------------------------------------------
(* The files.                                                               *)

\* What FileInv says of one file.
FileOK(f, s, d, b, t) ==
    /\ s \in Streams /\ d \in Seq(Nat) /\ b \in Seq(Nat) /\ t \in Seq(Nat)
    /\ F!IsPrefix(b, d) /\ F!IsPrefix(d, b \o t)
    /\ s = "open" => d = b \o t

LEMMA FileInvMeans ==
    FileInv <=>
        /\ sent \in Nat /\ disk = [f \in File |-> disk[f]]
        /\ base = [f \in File |-> base[f]] /\ told = [f \in File |-> told[f]]
        /\ stream = [f \in File |-> stream[f]]
        /\ \A f \in File : FileOK(f, stream[f], disk[f], base[f], told[f])
  BY DEF FileInv, FileOK, Kept, F!Kept

\* A call changes the state of one file.
LEMMA OneFile ==
    ASSUME FileInv, NEW f \in File, NEW s, NEW d, NEW b, NEW t,
           FileOK(f, s, d, b, t), sent' \in Nat,
           stream' = [stream EXCEPT ![f] = s], disk' = [disk EXCEPT ![f] = d],
           base' = [base EXCEPT ![f] = b], told' = [told EXCEPT ![f] = t]
    PROVE  FileInv'
  <1>1. \A g \in File : FileOK(g, stream'[g], disk'[g], base'[g], told'[g])
    <2> TAKE g \in File
    <2>1. CASE g = f
      BY <2>1 DEF FileInv
    <2>2. CASE g # f
      BY <2>2, FileInvMeans DEF FileInv
    <2> QED
      BY <2>1, <2>2
  <1> QED
    BY <1>1 DEF FileInv, FileOK, Kept, F!Kept

\* write and append on an open stream.
LEMMA StepPutOpened ==
    ASSUME FileInv, NEW f \in File, F!PutOpened(f) PROVE FileInv'
  <1> DEFINE n == sent'
             d == disk[f]
             b == base[f]
             t == told[f]
  <1>0. /\ n \in Nat /\ n = sent + 1 /\ FileOK(f, stream[f], d, b, t)
        /\ told' = [told EXCEPT ![f] = Append(t, n)]
        /\ base' = [base EXCEPT ![f] = b]
    BY FileInvMeans DEF F!PutOpened, F!Put, FileInv
  <1>1. /\ d \in Seq(Nat) /\ b \in Seq(Nat) /\ t \in Seq(Nat)
        /\ Append(t, n) \in Seq(Nat) /\ Append(d, n) \in Seq(Nat)
        /\ b \o t \in Seq(Nat)
        /\ F!IsPrefix(b, d) /\ F!IsPrefix(d, b \o t)
        /\ b \o Append(t, n) = Append(b \o t, n)
    <2>1. /\ d \in Seq(Nat) /\ b \in Seq(Nat) /\ t \in Seq(Nat)
          /\ F!IsPrefix(b, d) /\ F!IsPrefix(d, b \o t)
      BY <1>0 DEF FileOK
    <2>2. b \o Append(t, n) = Append(b \o t, n)
      BY <1>0, <2>1, AppendConcat
    <2>3. Append(t, n) \in Seq(Nat) /\ Append(d, n) \in Seq(Nat) /\ b \o t \in Seq(Nat)
      BY <1>0, <2>1
    <2> QED
      BY <2>1, <2>2, <2>3
  <1>2. CASE /\ stream[f] = "open"
             /\ disk' = [disk EXCEPT ![f] = Append(d, n)]
             /\ stream' = [stream EXCEPT ![f] = "open"]
    <2>1. d = b \o t
      BY <1>0, <1>2 DEF FileOK
    <2>2. Append(d, n) = b \o Append(t, n) /\ F!IsPrefix(b, Append(d, n))
      BY <1>0, <1>1, <2>1, PrefixGrows
    <2>3. FileOK(f, "open", Append(d, n), b, Append(t, n))
      BY <1>0, <1>1, <2>2, PrefixSelf DEF FileOK, Streams
    <2> QED
      BY <1>0, <1>2, <2>3, OneFile
  <1>3. ASSUME disk' = [disk EXCEPT ![f] = d],
               stream' = [stream EXCEPT ![f] = "broken"]
        PROVE  FileInv'
    <2>1. F!IsPrefix(d, b \o Append(t, n))
      BY <1>0, <1>1, PrefixGrows
    <2>2. FileOK(f, "broken", d, b, Append(t, n))
      BY <1>1, <2>1 DEF FileOK, Streams
    <2> QED
      BY <1>0, <1>3, <2>2, OneFile
  <1>4. CASE stream[f] = "broken" /\ UNCHANGED << stream, disk >>
    <2>1. /\ disk' = [disk EXCEPT ![f] = d]
          /\ stream' = [stream EXCEPT ![f] = "broken"]
      BY <1>4 DEF FileInv
    <2> QED
      BY <1>3, <2>1
  <1> QED
    BY <1>2, <1>3, <1>4 DEF F!PutOpened, F!Put

\* The first call of a stream, on a file of which it keeps old.
LEMMA StepOpen ==
    ASSUME FileInv, NEW f \in File, NEW old \in Seq(Nat), F!Open(f, old)
    PROVE  FileInv'
  <1> DEFINE n == sent'
  <1>0. n \in Nat /\ Append(old, n) \in Seq(Nat) /\ << n >> \in Seq(Nat)
    BY DEF FileInv, F!Open, F!Put
  <1>1. /\ Append(old, n) = old \o << n >>
        /\ F!IsPrefix(old, old \o << n >>) /\ F!IsPrefix(old, old)
        /\ F!IsPrefix(old \o << n >>, old \o << n >>)
    <2>1. Append(old, n) = old \o << n >>
      BY <1>0
    <2> QED
      BY <1>0, <2>1, PrefixSelf
  <1>2. ASSUME NEW s, NEW d, FileOK(f, s, d, old, << n >>),
               disk' = [disk EXCEPT ![f] = d], stream' = [stream EXCEPT ![f] = s],
               base' = [base EXCEPT ![f] = old], told' = [told EXCEPT ![f] = << n >>]
        PROVE  FileInv'
    BY <1>0, <1>2, OneFile
  <1>3. CASE /\ F!Put(f, old) /\ base' = [base EXCEPT ![f] = old]
             /\ told' = [told EXCEPT ![f] = << n >>]
    <2>1. /\ FileOK(f, "open", Append(old, n), old, << n >>)
          /\ FileOK(f, "broken", old, old, << n >>)
      BY <1>0, <1>1 DEF FileOK, Streams
    <2> QED
      BY <1>2, <1>3, <2>1 DEF F!Put
  <1>4. CASE UNCHANGED << stream, disk, base, told >>
    BY <1>0, <1>4 DEF FileInv, Kept, F!Kept
  <1> QED
    BY <1>3, <1>4 DEF F!Open

\* The streams are closed and deleted, or made anew.
LEMMA StepStreams ==
    ASSUME FileInv, F!Terminate \/ F!Load PROVE FileInv'
  BY DEF FileInv, Streams, Kept, F!Kept, F!Terminate, F!Load

LEMMA NextFileInv == FileInv /\ [Next]_vars => FileInv'
  <1> SUFFICES ASSUME FileInv, [Next]_vars PROVE FileInv'
    OBVIOUS
  <1>1. CASE FileCall
    <2>1. ASSUME NEW f \in File, F!WriteFile(f) \/ F!AppendFile(f) PROVE FileInv'
      <3>1. << >> \in Seq(Nat) /\ disk[f] \in Seq(Nat)
        BY DEF FileInv
      <3> QED
        BY <2>1, <3>1, StepOpen, StepPutOpened DEF F!WriteFile, F!AppendFile
    <2>2. ASSUME NEW f \in Readable, F!ReadFile(f) PROVE FileInv'
      BY <2>2 DEF F!ReadFile, FileInv, Kept, F!Kept
    <2> QED
      BY <1>1, <2>1, <2>2 DEF FileCall
  <1>2. CASE Load \/ Die \/ Termall \/ Unload
    BY <1>2, StepStreams DEF Load, Die, Termall, Unload, Terminate
  <1>3. CASE \/ RestCall \/ Join \/ ServerStep \/ Request \/ UNCHANGED vars
    BY <1>3 DEF RestCall, Join, ServerStep, Request, vars, fileVars, FileInv,
                Kept, F!Kept
  <1> QED
    BY <1>1, <1>2, <1>3 DEF Next

LEMMA InitFileInv == Init => FileInv
  <1> SUFFICES ASSUME Init PROVE FileInv
    OBVIOUS
  <1>1. << 0 >> \in Seq(Nat) /\ << >> \in Seq(Nat)
    OBVIOUS
  <1>2. F!IsPrefix(<< 0 >>, << 0 >>) /\ F!IsPrefix(<< 0 >>, << 0 >> \o << >>)
    BY <1>1, PrefixSelf
  <1> QED
    BY <1>1, <1>2 DEF Init, F!Init, FileInv, Streams, Kept, F!Kept

------------------------------------------------------------------------------
(* The thread of the REST server.                                           *)

LEMMA InitThreadInv == Init => ThreadInv
  BY DEF Init, S!Init, ThreadInv

LEMMA NextThreadInv == ThreadInv /\ [Next]_vars => ThreadInv'
  <1> SUFFICES ASSUME ThreadInv, [Next]_vars PROVE ThreadInv'
    OBVIOUS
  <1> USE DEF ThreadInv
  <1>1. CASE Load \/ Die
    BY <1>1 DEF Load, Die, S!Load
  <1>2. CASE FileCall \/ UNCHANGED vars
    BY <1>2 DEF FileCall, vars, restVars
  <1>3. CASE RestCall
    BY <1>3 DEF RestCall, S!Register, S!Spawn
  <1>4. CASE Termall \/ Unload
    BY <1>4 DEF Termall, Unload, Terminate, S!Stop, S!NothingToEnd, S!EndAgain, S!vars
  <1>5. CASE Join
    BY <1>5 DEF Join, S!Join
  <1>6. CASE ServerStep \/ Request
    BY <1>6 DEF ServerStep, Request, S!Listen, S!Respond, S!RunEnds, S!Request,
                S!Moves
  <1> QED
    BY <1>1, <1>2, <1>3, <1>4, <1>5, <1>6 DEF Next

------------------------------------------------------------------------------
\* Files hold what they held when their streams were opened and then the
\* messages answered since (fileio.cpp:309-335), up to the first that the disk
\* failed to take, however often the library is ended, dies and is loaded.
THEOREM FilesKept == Spec => []Kept
  <1>1. FileInv => Kept
    BY DEF FileInv
  <1> QED
    BY InitFileInv, NextFileInv, <1>1, PTL DEF Spec

\* After termall or the unloading came back no thread of the REST server is
\* left (restserver.cpp:42-57), wherever it was when it was stopped.
THEOREM NoThreadLeft == Spec => []Quiet
  <1>1. ThreadInv => Quiet
    BY DEF ThreadInv, Quiet
  <1> QED
    BY InitThreadInv, NextThreadInv, <1>1, PTL DEF Spec

------------------------------------------------------------------------------
(* The end of the REST server.                                              *)

\* Whoever waits for the server's thread has stopped it, and it is on its way.
EndInv ==
    /\ thread \in {"none", "starting", "running", "callback", "ended", "deleted"}
    /\ Ending <=> rpc = "join"
    /\ Ending => stopped /\ thread \in {"starting", "running", "callback", "ended"}

\* Nothing starts or frees the server while the game waits for it.
LEMMA EndStep == EndInv /\ [Next]_vars => EndInv'
  <1> SUFFICES ASSUME EndInv, [Next]_vars PROVE EndInv'
    OBVIOUS
  <1> USE DEF EndInv, Ending
  <1>1. CASE Load \/ Die
    BY <1>1 DEF Load, Die, S!Load
  <1>2. CASE FileCall \/ RestCall
    BY <1>2 DEF FileCall, RestCall, restVars, S!Register, S!Spawn
  <1>3. CASE Termall \/ Unload
    BY <1>3 DEF Termall, Unload, Terminate, S!Stop, S!NothingToEnd, S!EndAgain, S!vars
  <1>4. CASE Join
    BY <1>4 DEF Join, S!Join
  <1>5. CASE ServerStep \/ Request
    BY <1>5 DEF ServerStep, Request, S!Listen, S!Respond, S!RunEnds, S!Request, S!Moves
  <1>6. CASE UNCHANGED vars
    BY <1>6 DEF vars, restVars
  <1> QED
    BY <1>1, <1>2, <1>3, <1>4, <1>5, <1>6 DEF Next

\* It holds from the first load on.
LEMMA EndInductive == Spec => []EndInv
  <1>1. Init => EndInv
    BY DEF Init, S!Init, EndInv, Ending
  <1> QED
    BY <1>1, EndStep, PTL DEF Spec

\* What the wait of terminateHandler depends on can always happen
\* (restserver.cpp:49-54): the thread has ended, or it can go on to its end.
THEOREM EndingGoesOn ==
    Spec => [](Ending => \/ rpc = "join" /\ thread = "ended"
                         \/ thread \in {"starting", "callback"}
                         \/ thread = "running" /\ stopped)
  <1>1. EndInv => (Ending => \/ rpc = "join" /\ thread = "ended"
                             \/ thread \in {"starting", "callback"}
                             \/ thread = "running" /\ stopped)
    BY DEF EndInv
  <1> QED
    BY <1>1, EndInductive, PTL

\* The places from which the thread of a stopped server still has to go.
ServerLeft == [starting |-> 2, callback |-> 2, running |-> 1, ended |-> 0,
               none |-> 0, deleted |-> 0]

\* And every step while the game waits brings the thread nearer to its end
\* (restserver.cpp:49-54, serverFunction): no request gets into a stopped server.
\* With EndingGoesOn this is what Returns has of safety.
THEOREM EndingIsFinite ==
    Spec => [][Ending /\ Ending' => ServerLeft[thread'] < ServerLeft[thread]]_vars
  <1>1. ASSUME EndInv, Next, Ending, Ending'
        PROVE  ServerLeft[thread'] < ServerLeft[thread]
    <2>0. stopped /\ library # "loaded" /\ library' \in {"terminating", "unloading"}
      BY <1>1 DEF EndInv, Ending
    <2>1. CASE Load \/ Die \/ FileCall \/ RestCall \/ Termall \/ Unload \/ Join
      BY <1>1, <2>0, <2>1 DEF Ending, Load, Die, FileCall, RestCall, Termall, Unload,
         Terminate, Join
    <2>2. CASE ServerStep
      BY <2>2 DEF ServerStep, S!Listen, S!Respond, S!RunEnds, S!Moves, ServerLeft
    <2>3. CASE Request
      BY <2>0, <2>3 DEF Request, S!Request
    <2> QED
      BY <1>1, <2>1, <2>2, <2>3 DEF Next
  <1> QED
    BY <1>1, EndInductive, PTL DEF Spec
==============================================================================
