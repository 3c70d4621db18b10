-------------------------------- MODULE FileIO --------------------------------
(***************************************************************************)
(* The files of fileio.cpp.  The game thread alone calls it.  The config   *)
(* lists the files that may be read, some of them once, and the ones that  *)
(* may be written; each of the latter has one stream for as long as the    *)
(* library is loaded.  The call that finds the stream closed opens it, and *)
(* by that decides whether the file is cut or continued: after it write    *)
(* and append do the same.  No result of a stream is looked at: a call     *)
(* answers with the file's name whatever became of its message.            *)
(*                                                                         *)
(* A message is abstracted to the number of the call that brought it; one  *)
(* that a full disk cut short counts as not written.                       *)
(***************************************************************************)
EXTENDS Naturals, Sequences, SequencesExt

CONSTANTS
    File,        \* the files of fileio.write
    Readable,    \* the files of fileio.read and fileio.readonce
    ReadOnce,    \* the files of fileio.readonce
    MaxMessages  \* bound: the messages of all calls

VARIABLES
    readlist,   \* the files that may still be read
    stream,     \* writelist: each file's stream; a broken one has its badbit
    disk,       \* the messages in each file
    sent,       \* the messages so far
    \* history: what a file held when its stream was opened, and the messages
    \* answered since
    base, told

vars == << readlist, stream, disk, sent, base, told >>

\* Before the library is loaded the files may hold something.
Init ==
    /\ readlist = {}
    /\ stream = [f \in File |-> "null"]
    /\ disk = [f \in File |-> << 0 >>]
    /\ sent = 0
    /\ base = disk
    /\ told = [f \in File |-> << >>]

\* fileio(): a new library has all the files, and no stream is open.
Load ==
    /\ readlist' = Readable
    /\ stream' = [f \in File |-> "closed"]
    /\ UNCHANGED << disk, sent, base, told >>

\* The answer is the name of the file, not what was read from it; a file
\* that may not be read throws.
ReadFile(f) ==
    /\ f \in readlist
    /\ readlist' = readlist \ (ReadOnce \cap {f})
    /\ UNCHANGED << stream, disk, sent, base, told >>

\* The message goes into the open stream, and with flush() into the file,
\* unless the disk does not take it: then the stream takes no more.
Put(f, old) ==
    /\ sent < MaxMessages
    /\ sent' = sent + 1
    /\ \/ /\ disk' = [disk EXCEPT ![f] = Append(old, sent')]
          /\ stream' = [stream EXCEPT ![f] = "open"]
       \/ /\ disk' = [disk EXCEPT ![f] = old]
          /\ stream' = [stream EXCEPT ![f] = "broken"]

\* Faulty variant of PutOpened: a bad stream takes the next message again.
PutOpenedAnyway(f) ==
    /\ stream[f] \in {"open", "broken"}
    /\ Put(f, disk[f])
    /\ told' = [told EXCEPT ![f] = Append(@, sent')]
    /\ UNCHANGED << readlist, base >>

\* write and append, on a stream that is open.
PutOpened(f) ==
    /\ \/ stream[f] = "open" /\ Put(f, disk[f])
       \/ /\ stream[f] = "broken" /\ sent < MaxMessages /\ sent' = sent + 1
          /\ UNCHANGED << stream, disk >>
    /\ told' = [told EXCEPT ![f] = Append(@, sent')]
    /\ UNCHANGED << readlist, base >>

\* The first call for the file, of those whose open succeeded.  If it fails
\* the message is dropped, and the next call tries again.
Open(f, old) ==
    /\ stream[f] = "closed"
    /\ \/ /\ Put(f, old)
          /\ base' = [base EXCEPT ![f] = old]
          /\ told' = [told EXCEPT ![f] = << sent' >>]
       \/ /\ sent < MaxMessages /\ sent' = sent + 1
          /\ UNCHANGED << stream, disk, base, told >>
    /\ UNCHANGED readlist

WriteFile(f) == Open(f, << >>) \/ PutOpened(f)
AppendFile(f) == Open(f, disk[f]) \/ PutOpened(f)

\* terminateHandler: the streams are closed and deleted.  A later call goes
\* through a null pointer, which ends the process.
Terminate ==
    /\ stream' = [f \in File |-> "null"]
    /\ UNCHANGED << readlist, disk, sent, base, told >>

------------------------------------------------------------------------------
\* A file holds what it held when its stream was opened, nothing if a write
\* opened it, and then the messages answered since, in their order and
\* without a gap (fileio.cpp:309-316, 328-335): all of them, unless the disk
\* failed to take one; then all before that one, and none after it.  This
\* outlives the stream and the process, until the next open.
Kept ==
    \A f \in File :
        /\ IsPrefix(base[f], disk[f])
        /\ IsPrefix(disk[f], base[f] \o told[f])
        /\ stream[f] = "open" => disk[f] = base[f] \o told[f]
==============================================================================
