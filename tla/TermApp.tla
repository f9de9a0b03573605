------------------------------ MODULE TermApp ------------------------------
(***************************************************************************)
(* The terminal front end: the event loop of tui/main.cpp and the handlers *)
(* of tui/term_app.cpp, on top of Engine.  One thread waits in pselect()   *)
(* for keys, input and wake-ups, handles all that is ready in a fixed      *)
(* order, and looks at the flags of the signal handler once per turn.      *)
(*                                                                         *)
(* An item is a sequence of characters, and is named by its index (from 1) *)
(* elsewhere; the line that is typed is its length, as the only printable  *)
(* key is one letter.  Drawing is kept as a copy of what is drawn.         *)
(***************************************************************************)
EXTENDS Engine, LineScanner, SequencesExt

CONSTANTS
  Input,          \* what the program on the other end of the pipe writes
  Keys,           \* the keys a user may type
  Ranked,         \* Ranked[n][q]: the answer to q over the first n items
  Height,         \* the lines of the terminal that show items
  InitialBuffer,  \* the size of mInputBuffer
  kMaxInputBufferSize,
  MaxKeys,        \* bound: keys typed
  MaxTroubles     \* bound: signals, failed reads and exceptions

InputLines == Lines(Input, {})

(* What is typed is a query and the items are no more than the bound says; *)
(* there is an answer to every query over any number of items.             *)
ASSUME TermAppAssumption ==
  /\ Keys \subseteq {"printable", "backspace", "ctrl-u", "ctrl-p", "ctrl-n", "tab",
                     "enter", "escape"}
  /\ Input \in Seq({Input[k] : k \in DOMAIN Input})
  /\ MaxItems \in Nat /\ Len(InputLines) <= MaxItems
  /\ MaxKeys \in Nat /\ 1..MaxKeys \subseteq Queries
  /\ Ranked \in [0..MaxItems -> [Queries -> Seq(Nat)]]
  /\ Height \in Nat /\ InitialBuffer \in Nat \ {0}

VARIABLES
  pc,             \* where the event loop is
  turn,           \* the descriptors pselect() found ready
  mStatus,
  gQuitSignal, gResizeSignal,
  troubles,       \* the counter behind MaxTroubles
  written, ended, \* what the other end has written, whether it has closed
  consumed,       \* how much of it was read
  isOpen,         \* mInput.isOpen()
  bufferSize,     \* mInputBuffer.size()
  buf,            \* mLineScanner
  items,          \* mFzx.mItems
  oom,            \* an exception was caught
  keys, typed,    \* the keys not yet read; the counter behind MaxKeys
  mLine, mCursor, mSelection,
  updateQuery,    \* the local variable of processTTY()
  alone,          \* no other key was read in this turn
  tiny, mTiny,    \* the terminal has no room for items; what the app thinks
  screen,         \* what was last drawn
  printed         \* what was written to the standard output

loopVars == <<pc, turn, mStatus>>
signalVars == <<gQuitSignal, gResizeSignal, tiny>>
pipeVars == <<written, ended>>
inputVars == <<consumed, isOpen, bufferSize, buf, items, oom>>
ttyVars == <<keys, typed, mLine, mSelection, updateQuery, alone>>
drawVars == <<mCursor, mTiny, screen>>
stillVars == <<troubles, printed>>
vars == <<loopVars, signalVars, pipeVars, inputVars, ttyVars, drawVars,
          stillVars, engineVars>>

Running == mStatus = "Running"
Least(a, b) == IF a < b THEN a ELSE b

-----------------------------------------------------------------------------
(* What Fzx answers *)

(* resultsSize() and getResult(): without a query all the items pushed. *)
Results ==
  LET j == JobNumber(loaded)
  IN IF j.query # NoQuery THEN Ranked[j.items][j.query]
     ELSE [i \in DOMAIN items |-> i]

(* The query is parsed from the line; blank is none.  As setQuery()        *)
(* commits, the active query is always the one of the last job.            *)
QueryOf(line) == IF line = 0 THEN NoQuery ELSE line

(* commit() with the items and the query there are after this step. *)
CommitItems == CommitJobOf(Len(items'), LastJob.query)

SetQuery(line) ==
  IF QueryOf(line) = LastJob.query THEN UNCHANGED engineVars
  ELSE CommitJobOf(Len(items), QueryOf(line))

(* What redraw() puts on the terminal. *)
View ==
  [lines |-> SubSeq(Results, 1, Least(Height, Len(Results))),
   matched |-> Len(Results), total |-> Len(items),
   cursor |-> mCursor, selection |-> mSelection, line |-> mLine]

(* redraw(): the cursor is clamped to items - 1, which is no bound at all  *)
(* when there are none.                                                    *)
Redraw ==
  IF mTiny' THEN UNCHANGED <<mCursor, screen>>
  ELSE /\ mCursor' = IF Results' = <<>> THEN mCursor
                     ELSE Least(mCursor, Len(Results') - 1)
       /\ screen' = View'

(* The item under the cursor, 0 if there is none. *)
CurrentItem_Unranked ==
  IF mCursor < Len(Results) THEN mCursor + 1 ELSE 0

CurrentItem == IF mCursor < Len(Results) THEN Results[mCursor + 1] ELSE 0

Init ==
  /\ EngineInit
  /\ pc = "top" /\ turn = {} /\ mStatus = "Running"
  /\ gQuitSignal = FALSE /\ gResizeSignal = FALSE /\ troubles = 0
  /\ written = 0 /\ ended = FALSE
  /\ consumed = 0 /\ isOpen = TRUE /\ bufferSize = InitialBuffer
  /\ buf = <<>> /\ items = <<>> /\ oom = FALSE
  /\ keys = <<>> /\ typed = 0
  /\ mLine = 0 /\ mCursor = 0 /\ mSelection = {} /\ updateQuery = FALSE
  /\ alone = TRUE
  /\ tiny \in BOOLEAN /\ mTiny = tiny
  /\ screen = <<>>
  /\ printed = <<>>

-----------------------------------------------------------------------------
(* The rest of the world *)

(* The program that writes the input, and the user. *)
Write ==
  /\ ~ended
  /\ written' \in written..Len(Input)
  /\ ended' = (written' = Len(Input))
  /\ written' > written \/ ended'
  /\ UNCHANGED <<loopVars, signalVars, inputVars, ttyVars, drawVars, stillVars,
                 engineVars>>

Type(key) ==
  /\ typed < MaxKeys
  /\ typed' = typed + 1
  /\ keys' = Append(keys, key)
  /\ UNCHANGED <<loopVars, signalVars, pipeVars, inputVars, mLine, mSelection,
                 updateQuery, alone, drawVars, stillVars, engineVars>>

(* The handler only sets a flag; it interrupts pselect(), and nothing else *)
(* that the loop does.                                                     *)
Trouble == troubles < MaxTroubles /\ troubles' = troubles + 1

Interrupt == pc' = IF pc = "blocked" THEN "interrupted" ELSE pc

QuitSignal ==
  /\ pc # "done"
  /\ Trouble
  /\ gQuitSignal' = TRUE
  /\ Interrupt
  /\ UNCHANGED <<turn, mStatus, gResizeSignal, tiny, pipeVars, inputVars,
                 ttyVars, drawVars, printed, engineVars>>

ResizeSignal ==
  /\ pc # "done"
  /\ Trouble
  /\ gResizeSignal' = TRUE
  /\ tiny' = ~tiny
  /\ Interrupt
  /\ UNCHANGED <<turn, mStatus, gQuitSignal, pipeVars, inputVars, ttyVars,
                 drawVars, printed, engineVars>>

Publish ==
  /\ PublishAnswer
  /\ UNCHANGED <<loopVars, signalVars, pipeVars, inputVars, ttyVars, drawVars,
                 stillVars>>

-----------------------------------------------------------------------------
(* The event loop *)

(* processSignals(), and on to `otherwise' unless it says to quit. *)
ProcessSignals(otherwise) ==
  \/ /\ gQuitSignal
     /\ gQuitSignal' = FALSE
     /\ mStatus' = "ExitFailure"
     /\ pc' = "top"
     /\ UNCHANGED <<gResizeSignal, drawVars>>
  \/ /\ ~gQuitSignal
     /\ gResizeSignal' = FALSE
     /\ pc' = otherwise
     /\ IF gResizeSignal THEN mTiny' = tiny /\ Redraw ELSE UNCHANGED drawVars
     /\ UNCHANGED <<gQuitSignal, mStatus>>

(* The signals are looked at only where pselect() was interrupted. *)
CheckSignals_None ==
  /\ pc = "top" /\ Running
  /\ pc' = "before"
  /\ turn' = {} /\ alone' = TRUE
  /\ UNCHANGED <<mStatus, signalVars, pipeVars, inputVars, keys, typed, mLine,
                 mSelection, updateQuery, drawVars, stillVars, engineVars>>

CheckSignals ==
  /\ pc = "top" /\ Running
  /\ turn' = {} /\ alone' = TRUE
  /\ UNCHANGED <<tiny, pipeVars, inputVars, keys, typed, mLine,
                 mSelection, updateQuery, stillVars, engineVars>>
  /\ ProcessSignals("before")

(* A signal between the check and pselect() has nothing to interrupt. *)
Select ==
  /\ pc = "before"
  /\ pc' = "blocked"
  /\ UNCHANGED <<turn, mStatus, signalVars, pipeVars, inputVars, ttyVars,
                 drawVars, stillVars, engineVars>>

Interrupted ==
  /\ pc = "interrupted"
  /\ UNCHANGED <<turn, tiny, pipeVars, inputVars, ttyVars, stillVars,
                 engineVars>>
  /\ ProcessSignals("top")

HasInput == consumed < written \/ ended

Ready ==
  {fd \in {"tty", "input", "wakeup"} :
     CASE fd = "tty"    -> keys # <<>>
       [] fd = "input"  -> isOpen /\ HasInput
       [] fd = "wakeup" -> wakeup}

(* The handler that comes after the one at `place': all that are ready     *)
(* run in one turn, whatever the first of them decides.                    *)
After(place, ready) ==
  IF place = "blocked" /\ "tty" \in ready THEN "tty"
  ELSE IF place \in {"blocked", "tty"} /\ "input" \in ready THEN "input"
  ELSE IF place # "wakeup" /\ "wakeup" \in ready THEN "wakeup"
  ELSE "top"

Select_Returns ==
  /\ pc = "blocked"
  /\ Ready # {}
  /\ turn' = Ready
  /\ pc' = After(pc, Ready)
  /\ UNCHANGED <<mStatus, signalVars, pipeVars, inputVars, ttyVars, drawVars,
                 stillVars, engineVars>>

(* main() after the loop: print the selection, or the current item. *)
Exit ==
  /\ pc = "top" /\ ~Running
  /\ pc' = "done"
  /\ printed' = IF mStatus = "ExitFailure" THEN <<>>
                ELSE IF mSelection # {} THEN SetToSortSeq(mSelection, <)
                ELSE <<CurrentItem>>
  /\ UNCHANGED <<turn, mStatus, troubles, signalVars, pipeVars, inputVars, ttyVars,
                 drawVars, engineVars>>

-----------------------------------------------------------------------------
(* processTTY() *)

Edit(line) ==
  /\ mLine' = line
  /\ updateQuery' = TRUE
  /\ UNCHANGED <<pc, mStatus, mCursor, mSelection>>

MoveTo(cursor) ==
  /\ mCursor' = cursor
  /\ UNCHANGED <<pc, mStatus, mLine, mSelection, updateQuery>>

(* Tab selects the item under the cursor, or takes it out again. *)
Toggle ==
  IF CurrentItem = 0 THEN UNCHANGED <<pc, mStatus, mLine, mCursor, mSelection,
                                      updateQuery>>
  ELSE /\ mSelection' = IF CurrentItem \in mSelection
                        THEN mSelection \ {CurrentItem}
                        ELSE mSelection \union {CurrentItem}
       /\ mCursor' = mCursor + 1
       /\ UNCHANGED <<pc, mStatus, mLine, updateQuery>>

(* Enter and Escape leave the handler at once: what was typed before them  *)
(* in this turn does not become the query.                                 *)
Quit(status) ==
  /\ mStatus' = status
  /\ updateQuery' = FALSE
  /\ pc' = After("tty", turn)
  /\ UNCHANGED <<mLine, mCursor, mSelection>>

HandleKey(key) ==
  CASE key = "printable" -> Edit(mLine + 1)
    [] key = "backspace" -> Edit(IF mLine = 0 THEN 0 ELSE mLine - 1)
    [] key = "ctrl-u"    -> Edit(0)
    [] key = "ctrl-p"    -> MoveTo(mCursor + 1)
    [] key = "ctrl-n"    -> MoveTo(IF mCursor = 0 THEN 0 ELSE mCursor - 1)
    [] key = "tab"       -> Toggle
    [] key = "enter"     -> Quit("ExitSuccess")
    [] key = "escape"    -> Quit("ExitFailure")

ReadKey ==
  /\ pc = "tty" /\ keys # <<>>
  /\ keys' = Tail(keys)
  /\ HandleKey(Head(keys))
  /\ alone' = (Len(keys) = 1 /\ alone /\ pc' # "tty")
  /\ UNCHANGED <<turn, signalVars, pipeVars, inputVars, typed, mTiny, screen,
                 stillVars, engineVars>>

EndOfKeys ==
  /\ pc = "tty" /\ keys = <<>>
  /\ updateQuery' = FALSE
  /\ pc' = After("tty", turn)
  /\ UNCHANGED <<turn, mStatus, signalVars, pipeVars, inputVars, keys, typed,
                 mLine, mSelection, alone, mTiny, stillVars>>
  /\ IF updateQuery THEN SetQuery(mLine) ELSE UNCHANGED engineVars
  /\ Redraw

-----------------------------------------------------------------------------
(* processInput() *)

InputUnchanged ==
  /\ pc' = After("input", turn)
  /\ UNCHANGED <<turn, mStatus, signalVars, pipeVars, ttyVars, mTiny, printed>>

Chunk == SubSeq(Input, consumed + 1, Least(written, consumed + bufferSize))

ReadInput ==
  /\ pc = "input" /\ Chunk # <<>>
  /\ LET fed == Feed(buf, Chunk)
     IN /\ items' = items \o fed.lines
        /\ buf' = fed.buf
        /\ IF fed.lines # <<>> THEN CommitItems ELSE UNCHANGED engineVars
  /\ consumed' = consumed + Len(Chunk)
  /\ bufferSize' = IF Len(Chunk) = bufferSize
                      /\ bufferSize < kMaxInputBufferSize
                   THEN 2 * bufferSize ELSE bufferSize
  /\ UNCHANGED <<isOpen, oom, troubles>>
  /\ InputUnchanged
  /\ Redraw

(* Close the input, and push what is left of a line; the lines pushed      *)
(* before it may be committed already.                                     *)
EndInput(pushed, left, committed) ==
  /\ isOpen' = FALSE
  /\ items' = items \o pushed \o Finalize(left)
  /\ buf' = <<>>
  /\ bufferSize' = 0
  /\ IF committed \/ Finalize(left) # <<>> THEN CommitItems
     ELSE UNCHANGED engineVars
  /\ InputUnchanged
  /\ Redraw

(* The last line may be pushed without being committed. *)
ReadEnd_NoCommit ==
  /\ pc = "input" /\ Chunk = <<>>
  /\ isOpen' = FALSE
  /\ items' = items \o Finalize(buf)
  /\ buf' = <<>>
  /\ bufferSize' = 0
  /\ UNCHANGED <<consumed, oom, troubles, engineVars>>
  /\ InputUnchanged
  /\ Redraw

ReadEnd ==
  /\ pc = "input" /\ Chunk = <<>>
  /\ EndInput(<<>>, buf, FALSE)
  /\ UNCHANGED <<consumed, oom, troubles>>

(* read() returns -1: nothing was read, try again in the next turn. *)
ReadFails ==
  /\ pc = "input"
  /\ Trouble
  /\ InputUnchanged
  /\ UNCHANGED <<consumed, isOpen, bufferSize, buf, items, oom, mCursor,
                 screen, engineVars>>

(* An allocation fails after some lines of the chunk were pushed, while    *)
(* the next of them is put together (the buffer is as before, or holds all *)
(* of it) or pushed, in commit(), or after it when the buffer is enlarged. *)
(* The handler gives up the input: the rest of it is lost, and the lines   *)
(* pushed are not committed unless they were before or part of one was     *)
(* left in the buffer.                                                     *)
OutOfMemory ==
  /\ pc = "input" /\ Chunk # <<>>
  /\ Trouble
  /\ oom' = TRUE
  /\ LET fed == Feed(buf, Chunk)
         Left(n) == IF n = Len(fed.lines) THEN {fed.buf, IF n = 0 THEN buf ELSE <<>>}
                    ELSE IF n = 0 /\ buf # <<>> THEN {buf, fed.lines[1]}
                    ELSE {<<>>}
         Committed(n, left) ==
           IF n > 0 /\ n = Len(fed.lines) /\ left = fed.buf THEN BOOLEAN ELSE {FALSE}
     IN \E n \in 0..Len(fed.lines) :
          \E left \in Left(n) : \E committed \in Committed(n, left) :
            EndInput(SubSeq(fed.lines, 1, n), left, committed)
  /\ consumed' = consumed + Len(Chunk)

-----------------------------------------------------------------------------
(* consume() and processWakeup() *)

Wakeup_NoRedraw ==
  /\ pc = "wakeup"
  /\ ConsumeAndLoad
  /\ pc' = After("wakeup", turn)
  /\ UNCHANGED <<turn, mStatus, signalVars, pipeVars, inputVars, ttyVars,
                 drawVars, stillVars>>

Wakeup ==
  /\ pc = "wakeup"
  /\ ConsumeAndLoad
  /\ pc' = After("wakeup", turn)
  /\ UNCHANGED <<turn, mStatus, signalVars, pipeVars, inputVars, ttyVars,
                 mTiny, stillVars>>
  /\ IF loaded' # loaded THEN Redraw ELSE UNCHANGED <<mCursor, screen>>

-----------------------------------------------------------------------------

Loop ==
  \/ CheckSignals \/ Select \/ Select_Returns \/ Interrupted \/ Exit
  \/ ReadKey \/ EndOfKeys
  \/ ReadInput \/ ReadEnd
  \/ Wakeup

Fault == ReadFails \/ OutOfMemory

User == QuitSignal \/ ResizeSignal \/ \E key \in Keys : Type(key)

Next == Loop \/ Fault \/ User \/ Write \/ Publish

(* The loop runs, the other end of the pipe writes and closes, and the     *)
(* workers answer (JobIsAnswered of Pool).  Nothing is assumed of users.   *)
Spec ==
  /\ Init /\ [][Next]_vars
  /\ WF_vars(Loop) /\ WF_vars(Write) /\ WF_vars(Publish)

-----------------------------------------------------------------------------
(* Properties *)

(* Whenever the loop is about to wait, the terminal shows what the program *)
(* would act on: no handler changes the results, the cursor, the line or   *)
(* the selection and leaves the old ones on the screen.                    *)
ScreenFresh ==
  pc \in {"before", "blocked"} /\ screen # <<>> /\ ~mTiny => screen = View

(* The items are the lines of the input, as many as were read, each whole, *)
(* however the reads cut them.  When an allocation failed, what was pushed *)
(* before it is kept, and the last item may be the beginning of its line;  *)
(* when none did, the end of the input is the end of the last line.        *)
ItemsAreInput ==
  /\ Len(items) <= Len(InputLines)
  /\ \A k \in DOMAIN items :
       IF oom /\ k = Len(items) THEN IsPrefix(items[k], InputLines[k])
       ELSE items[k] = InputLines[k]
  /\ ~isOpen /\ ~oom => items = InputLines

(* Enter on a highlighted line, as the only key of its turn and without    *)
(* new results in that turn, prints the item of that line (or the          *)
(* selection), although the other handlers of the turn still run.          *)
Highlighted ==
  IF screen # <<>> /\ screen.cursor < Len(screen.lines)
  THEN {screen.lines[screen.cursor + 1]} ELSE {}

EnterTakesShown ==
  [][pc # "done" /\ pc' = "done" /\ mStatus = "ExitSuccess" /\ alone
       /\ "wakeup" \notin turn /\ ~mTiny /\ Highlighted # {} =>
       IF mSelection # {} THEN printed' = SetToSortSeq(mSelection, <)
       ELSE Highlighted = {printed'[1]}]_vars

(* As long as nobody quits, the terminal comes to show the answer to the   *)
(* line that was typed over all the lines of the input, the last one       *)
(* included, and stays there.                                              *)
FinalAnswer ==
  LET lines == InputLines
      q == QueryOf(mLine)
      ranked == IF q # NoQuery THEN Ranked[Len(lines)][q]
                ELSE [i \in DOMAIN lines |-> i]
  IN /\ items = lines
     /\ screen # <<>>
     /\ screen.line = mLine
     /\ screen.lines = SubSeq(ranked, 1, Least(Height, Len(ranked)))

FinalAnswerShown ==
  <>[](Running /\ ~oom /\ ~mTiny) => <>[]FinalAnswer

(* A quit signal ends the program, at whatever place it arrives but one:   *)
(* between the last look at the flag and pselect() it waits for another    *)
(* event.                                                                  *)
SignalServed == gQuitSignal /\ pc \notin {"before", "blocked"} ~> ~Running
=============================================================================
