---------------------------- MODULE FileTransfer ----------------------------
(***************************************************************************)
(* The files of a drive and the commands with which a computer on the      *)
(* serial port (or TCP) writes, copies and deletes them.  A command blocks *)
(* the main loop until it has answered; it is cut in two where the drive   *)
(* holds an intermediate state that a power cut leaves behind.             *)
(*                                                                         *)
(* A file's content is told apart as far as the firmware update needs: a   *)
(* whole image for this board (Images), the whole image of another board   *)
(* ("foreign"), what is left of either when some of it is missing or       *)
(* damaged ("part"), or no file ("none").  What the computer is answered,  *)
(* copying a file onto itself and creating the directories of the path are *)
(* left out.                                                               *)
(***************************************************************************)
EXTENDS Naturals

CONSTANTS Names,     \* the files
          Images,    \* the whole images for this board
          Drives,    \* what the drive may hold at first
          MaxRemote  \* bound on the computer's commands

Whole    == Images \cup {"foreign"}
Contents == Whole \cup {"part", "none"}

ASSUME TransferAssumption ==
  MaxRemote \in Nat /\ Drives \subseteq [Names -> Contents]

\* What a directory shows of a content.  All whole images are of one size.
SizeOf(content) == CASE content = "none" -> 0
                     [] content = "part" -> 1
                     [] OTHER -> 2

Commands == {"none", "post", "copy"}

VARIABLES
  files,   \* the drive
  remote,  \* the command being carried out: what it writes where
  asked    \* the commands it has sent

transferVars == <<files, remote, asked>>

Request == [cmd : Commands, name : Names, content : Contents]

NoRequest == [cmd |-> "none", name |-> CHOOSE n \in Names : TRUE,
              content |-> "none"]

TransferTypeOK ==
  /\ files \in [Names -> Contents]
  /\ remote \in Request
  /\ asked \in 0 .. MaxRemote

TransferInit ==
  /\ files \in Drives
  /\ remote = NoRequest /\ asked = 0

\* A command that is over at its first look at the drive.
Refuse == UNCHANGED <<files, remote>>

CanAsk == remote.cmd = "none" /\ asked < MaxRemote

\* A file that exists is never written over; a new one is opened (or, after
\* four tries, is not) and grows from nothing.
PostBegin(name, content) ==
  /\ CanAsk /\ asked' = asked + 1
  /\ \/ Refuse
     \/ /\ files[name] = "none"
        /\ files' = [files EXCEPT ![name] = "part"]
        /\ remote' = [cmd |-> "post", name |-> name, content |-> content]

\* The data stop coming and what was written stays; or they have come, damaged
\* or not, and were written, whether the drive took all of them or not (write's
\* result is not looked at).
PostEnd ==
  /\ remote.cmd = "post"
  /\ \E whole \in BOOLEAN :
       files' = [files EXCEPT ![remote.name] =
                   IF whole THEN remote.content ELSE "part"]
  /\ remote' = NoRequest /\ UNCHANGED asked

\* The source is opened, the destination removed, and a new one opened.
CopyBegin(source, name) ==
  /\ CanAsk /\ source # name /\ asked' = asked + 1
  /\ \/ Refuse
     \/ /\ files[source] # "none"
        /\ files' = [files EXCEPT ![name] = "none"] /\ UNCHANGED remote
     \/ /\ files[source] # "none"
        /\ files' = [files EXCEPT ![name] = "part"]
        /\ remote' = [cmd |-> "copy", name |-> name, content |-> files[source]]

CopyEnd ==
  /\ remote.cmd = "copy"
  /\ \E whole \in BOOLEAN :
       files' = [files EXCEPT ![remote.name] =
                   IF whole THEN remote.content ELSE "part"]
  /\ remote' = NoRequest /\ UNCHANGED asked

Delete(name) ==
  /\ CanAsk /\ asked' = asked + 1
  /\ \/ Refuse
     \/ /\ files[name] # "none"
        /\ files' = [files EXCEPT ![name] = "none"] /\ UNCHANGED remote

\* Power is cut: the command is gone, the drive stays as it is.
ForgetCommand == remote' = NoRequest /\ UNCHANGED files
=============================================================================
