----------------------------- MODULE ConsoleLog -----------------------------
(***************************************************************************)
(* ui/ImGuiConsole.h: the log of the console.  Any thread logs a line into  *)
(* _pending under _pendingMutex; the window's thread moves the lines into   *)
(* items, draws items, and carries out a command, which may clear them or   *)
(* print lines of its own straight into them.  Entries are numbered in the  *)
(* order they were made.                                                    *)
(***************************************************************************)
EXTENDS Integers, Sequences, SequencesExt

CONSTANTS
  MAX_ENTRIES,   \* 5000
  MaxLines       \* bound: entries made

ASSUME ConsoleAssumption ==
  /\ MAX_ENTRIES \in Nat /\ MAX_ENTRIES > 1
  /\ MaxLines \in Nat

VARIABLES
  made,          \* entries made so far
  printed,       \* those of them commands have printed
  items,         \* items
  pendingLines,  \* _pending
  drawing,       \* where Console::draw is: the next of items to draw, or 0
  command,       \* the command typed into the input line in this frame
  cleared        \* history: the entries cleared away

consoleVars == <<made, printed, items, pendingLines, drawing, command, cleared>>

ConsoleTypeOK ==
  /\ made \in 0..MaxLines
  /\ printed \subseteq 1..made
  /\ items \in Seq(1..made)
  /\ pendingLines \in Seq((1..made) \ printed) /\ Len(pendingLines) <= MAX_ENTRIES
  /\ drawing \in 0..(Len(items) + 1)
  /\ command \in {"none", "given", "runs"}
  /\ cleared \subseteq 1..made

ConsoleInit ==
  /\ made = 0 /\ printed = {}
  /\ items = <<>> /\ pendingLines = <<>>
  /\ drawing = 0 /\ command = "none" /\ cleared = {}

-----------------------------------------------------------------------------
Drop(s, n) == SubSeq(s, n + 1, Len(s))

(* MUTANT of LogLine: straight into items, as before the queue.              *)
LogLine_Direct ==
  /\ made < MaxLines
  /\ made' = made + 1
  /\ items' = Append(items, made + 1)
  /\ UNCHANGED <<printed, pendingLines, drawing, command, cleared>>

(* MUTANT of LogLine: the newest half is dropped.                            *)
LogLine_DropsNewest ==
  /\ made < MaxLines
  /\ made' = made + 1
  /\ LET all == Append(pendingLines, made + 1)
     IN pendingLines' = IF Len(all) > MAX_ENTRIES
                        THEN SubSeq(all, 1, MAX_ENTRIES \div 2) ELSE all
  /\ UNCHANGED <<printed, items, drawing, command, cleared>>

(* Console::Log, on any thread: half of a full queue is dropped.             *)
LogLine ==
  /\ made < MaxLines
  /\ made' = made + 1
  /\ LET all == Append(pendingLines, made + 1)
     IN pendingLines' = IF Len(all) > MAX_ENTRIES
                        THEN Drop(all, MAX_ENTRIES \div 2) ELSE all
  /\ UNCHANGED <<printed, items, drawing, command, cleared>>

(* FlushPending at the start of draw.                                        *)
flushed ==
  LET all == items \o pendingLines
  IN IF pendingLines # <<>> /\ Len(all) > MAX_ENTRIES
     THEN Drop(all, Len(all) - MAX_ENTRIES) ELSE all

(* A frame: the window may be collapsed, and then nothing is drawn; the      *)
(* button "Clear" comes before the list.                                     *)
FrameBegins ==
  /\ drawing = 0 /\ command = "none"
  /\ pendingLines' = <<>>
  /\ \/ items' = flushed /\ drawing' \in {0, 1} /\ UNCHANGED cleared
     \/ items' = <<>> /\ drawing' = 1 /\ cleared' = cleared \cup ToSet(flushed)
  /\ UNCHANGED <<made, printed, command>>

DrawItem ==
  /\ drawing \in DOMAIN items
  /\ drawing' = drawing + 1
  /\ UNCHANGED <<made, printed, items, pendingLines, command, cleared>>

DrawingDone ==
  /\ drawing = Len(items) + 1
  /\ drawing' = 0
  /\ command' \in {"none", "given"}
  /\ UNCHANGED <<made, printed, items, pendingLines, cleared>>

(* The command is repeated in the list and carried out.                      *)
CommandGiven ==
  /\ command = "given"
  /\ made < MaxLines
  /\ command' = "runs"
  /\ made' = made + 1
  /\ printed' = printed \cup {made + 1}
  /\ items' = Append(items, made + 1)
  /\ UNCHANGED <<pendingLines, drawing, cleared>>

(* addLog: a command prints a line.                                          *)
CommandPrints ==
  /\ command = "runs"
  /\ made < MaxLines
  /\ made' = made + 1
  /\ printed' = printed \cup {made + 1}
  /\ items' = Append(items, made + 1)
  /\ UNCHANGED <<pendingLines, drawing, command, cleared>>

(* "clear" empties the list, not the queue.                                  *)
CommandClears ==
  /\ command = "runs"
  /\ items' = <<>>
  /\ cleared' = cleared \cup ToSet(items)
  /\ UNCHANGED <<made, printed, pendingLines, drawing, command>>

CommandDone ==
  /\ command = "runs"
  /\ command' = "none"
  /\ UNCHANGED <<made, printed, items, pendingLines, drawing, cleared>>

ConsoleNext ==
  \/ LogLine
  \/ FrameBegins
  \/ DrawItem
  \/ DrawingDone
  \/ CommandGiven
  \/ CommandPrints
  \/ CommandClears
  \/ CommandDone

ConsoleSpec == ConsoleInit /\ [][ConsoleNext]_consoleVars

-----------------------------------------------------------------------------
Logged == items \o pendingLines

(* What is logged reaches the list: the newest half of MAX_ENTRIES entries   *)
(* are there or on their way, unless they stood in the list when it was      *)
(* cleared, and the lines of the threads stand in the order they were        *)
(* logged, none twice, however long the console stays closed and whatever    *)
(* commands print.                                                           *)
NewestAreKept ==
  /\ \A n \in (1..made) \ printed :
       n \notin cleared /\ made - n <= MAX_ENTRIES \div 2 => n \in ToSet(Logged)
  /\ \A i, j \in DOMAIN Logged :
       i < j /\ Logged[i] \notin printed /\ Logged[j] \notin printed => Logged[i] < Logged[j]

(* While the list is gone through for drawing it stands still: no other      *)
(* thread adds to it or empties it (ImGuiConsole.h:562).                     *)
DrawnListStands == [][drawing > 0 => items' = items]_consoleVars
=============================================================================
