------------------------------- MODULE Dialog -------------------------------
(***************************************************************************)
(* The dialog with the host: the command thread reads lines, executes      *)
(* commands, takes in the texts of certificate and key line by line, and   *)
(* queues an answer for each command (CommandInterface.cpp).               *)
(*                                                                         *)
(* The host types lines.  After the command "cert" (or key: the same code) *)
(* it sends a text, that is lines of some length and then an empty one,    *)
(* without waiting for any answer.  Lengths are counted with the newline;  *)
(* the content of a line is data.                                          *)
(***************************************************************************)
EXTENDS Naturals, Sequences

CONSTANTS
    MaxText,      \* room for a text
    LineLengths,  \* lengths of its lines
    QueueLength

ASSUME DialogAssumption ==
    /\ MaxText \in Nat \ {0} /\ QueueLength \in Nat \ {0}
    /\ LineLengths \subseteq Nat \ {0}

VARIABLES
    hostMode,   \* the host's next line is one of "commands" or of the "text"
    sent,       \* length of the text so far, or MaxText + 1 for any larger
    eof,        \* reads fail
    cmdAt,      \* the command thread is to "read" a command, the "text", or
                \* waits with an "answer" for the queue
    pemSize,    \* the text taken in so far
    reply,      \* the answer to be queued
    msgQueue,   \* answers asked of the response thread
    kept        \* history: of the text stored since the last command was read,
                \* whether it has its terminator, whether its lines fill the
                \* buffer, and whether it is as long as what the host had sent

dialogVars == <<hostMode, sent, eof, cmdAt, pemSize, reply,
                msgQueue, kept>>

\* "other": commands that are answered by a text, and all that is no command.
Commands == {"cert", "status", "wifi_status", "other"}
\* Answers made of text alone, and those that ask the station.
Answers == {"text", "status", "wifi_status"}

\* The types of the dialog's variables.
DialogTypeOK ==
    /\ hostMode \in {"commands", "text"} /\ sent \in 0..(MaxText + 1)
    /\ eof \in BOOLEAN
    /\ cmdAt \in {"read", "text", "answer"} /\ pemSize \in 0..MaxText
    /\ reply \in Answers
    /\ msgQueue \in Seq(Answers) /\ Len(msgQueue) <= QueueLength
    /\ kept \in [terminated : BOOLEAN, full : BOOLEAN, same : BOOLEAN]

NothingKept == [terminated |-> TRUE, full |-> FALSE, same |-> TRUE]

DialogInit ==
    /\ hostMode = "commands" /\ sent = 0
    /\ eof = FALSE
    /\ cmdAt = "read" /\ pemSize = 0 /\ reply = "text"
    /\ msgQueue = <<>>
    /\ kept = NothingKept

\* The text leaves no room for its terminator.
TooLarge == sent >= MaxText

\* The answer is queued; with a full queue the thread waits for 10 ticks.  Its
\* priority is above that of the thread that takes the answers, so that no step
\* of the latter comes between.
Answer(r) ==
    /\ pemSize' = 0
    /\ IF Len(msgQueue) < QueueLength
       THEN cmdAt' = "read" /\ msgQueue' = Append(msgQueue, r) /\ UNCHANGED reply
       ELSE cmdAt' = "answer" /\ reply' = r /\ UNCHANGED msgQueue

\* The switch of Run on the line just read, or left from an earlier read.
Execute(l) ==
    CASE l = "cert" -> cmdAt' = "text" /\ pemSize' = 0 /\ UNCHANGED <<reply, msgQueue>>
      [] l \in {"status", "wifi_status"} -> Answer(l)
      [] OTHER -> Answer("text")

\* The host's next line arrives.
HostCommands(c) ==
    /\ hostMode = "commands"
    /\ hostMode' = IF c = "cert" THEN "text" ELSE "commands"
    /\ UNCHANGED sent

HostSendsText(n) ==
    /\ hostMode = "text"
    /\ sent' = IF sent + n <= MaxText THEN sent + n ELSE MaxText + 1
    /\ UNCHANGED hostMode

HostSendsLongLine ==
    /\ hostMode = "text"
    /\ sent' = MaxText + 1
    /\ UNCHANGED hostMode

HostEndsText ==
    /\ hostMode = "text"
    /\ hostMode' = "commands" /\ sent' = 0

ReadCommand ==
    /\ cmdAt = "read" /\ ~eof
    /\ \/ \E c \in Commands : HostCommands(c) /\ Execute(c)
       \/ \E n \in LineLengths : HostSendsText(n) /\ Execute("other")
       \/ (HostSendsLongLine \/ HostEndsText) /\ Execute("other")
    /\ kept' = NothingKept
    /\ UNCHANGED eof

\* A read returned no bytes, the end of the file for stdio: the result of fgets
\* is not looked at, the buffer keeps its old line, of whatever kind, and later
\* reads fail as well.
\* What the host sends is no longer seen.
InputFails ==
    /\ ~eof
    /\ cmdAt \in {"read", "text"}
    /\ eof' = TRUE
    /\ hostMode' = "commands" /\ sent' = 0
    /\ kept' = NothingKept
    /\ UNCHANGED <<cmdAt, pemSize, reply, msgQueue>>

ReadOldCommand ==
    /\ cmdAt = "read" /\ eof
    /\ \E c \in Commands : Execute(c)
    /\ UNCHANGED <<hostMode, sent, eof, kept>>

(* RxPEMObject. *)
\* The text is dropped: nothing is stored and the answer is "invalid".
DropText == Answer("text") /\ UNCHANGED kept

\* SetCloudCert of a text of some size, which may fail.
Store(size, terminated, same) ==
    /\ \/ UNCHANGED kept
       \/ /\ ~eof
          /\ kept' = [terminated |-> terminated, full |-> size = MaxText, same |-> same]
    /\ Answer("text")

\* Mutant: the test for room is off by one.
TakeLineTooFar(n) ==
    IF pemSize + n > MaxText + 1 THEN DropText
    ELSE IF pemSize + n = MaxText THEN Store(pemSize + n, FALSE, pemSize = sent)
    ELSE pemSize' = pemSize + n /\ UNCHANGED <<cmdAt, reply, msgQueue, kept>>

\* Mutant: the loop ends one byte early.
TakeLineTooShort(n) ==
    IF pemSize + n > MaxText THEN DropText
    ELSE IF pemSize + n >= MaxText - 1 THEN Store(pemSize + n, FALSE, pemSize = sent)
    ELSE pemSize' = pemSize + n /\ UNCHANGED <<cmdAt, reply, msgQueue, kept>>

\* Mutant: a line that does not fit is left out.
SkipLine(n) ==
    IF pemSize + n > MaxText THEN UNCHANGED <<cmdAt, pemSize, reply, msgQueue, kept>>
    ELSE IF pemSize + n = MaxText THEN Store(pemSize + n, FALSE, pemSize = sent)
    ELSE pemSize' = pemSize + n /\ UNCHANGED <<cmdAt, reply, msgQueue, kept>>

\* A line that fits is taken in; the loop ends when it fills the buffer, and what
\* there is is stored, without a terminator and whether or not the text goes on.
TakeLine(n) ==
    IF pemSize + n > MaxText THEN DropText
    ELSE IF pemSize + n = MaxText THEN Store(pemSize + n, FALSE, pemSize = sent)
    ELSE pemSize' = pemSize + n /\ UNCHANGED <<cmdAt, reply, msgQueue, kept>>

ReadTextLine(n) ==
    /\ cmdAt = "text" /\ ~eof
    /\ HostSendsText(n)
    /\ TakeLine(n)
    /\ UNCHANGED eof

ReadLongLine ==
    /\ cmdAt = "text" /\ ~eof
    /\ HostSendsLongLine
    /\ DropText
    /\ UNCHANGED eof

\* The empty line: the text is terminated and stored.
ReadEndOfText ==
    /\ cmdAt = "text" /\ ~eof
    /\ HostEndsText
    /\ Store(pemSize, TRUE, pemSize = sent)
    /\ UNCHANGED eof

\* With failing reads the old line is taken for one more of the text, if the
\* buffer holds a newline.
ReadOldLine ==
    /\ cmdAt = "text" /\ eof
    /\ DropText \/ \E n \in LineLengths : TakeLine(n)
    /\ UNCHANGED <<hostMode, sent, eof>>

ReadText ==
    \/ \E n \in LineLengths : ReadTextLine(n)
    \/ ReadLongLine \/ ReadEndOfText \/ ReadOldLine

(* There is room in time, or the answer is dropped: nobody looks. *)
Enqueue ==
    /\ cmdAt = "answer"
    /\ msgQueue' = IF Len(msgQueue) < QueueLength THEN Append(msgQueue, reply)
                   ELSE msgQueue
    /\ cmdAt' = "read" /\ reply' = "text"
    /\ UNCHANGED <<hostMode, sent, eof, pemSize, kept>>

DialogStep == ReadCommand \/ ReadOldCommand \/ InputFails \/ ReadText \/ Enqueue
=============================================================================
