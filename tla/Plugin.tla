------------------------------- MODULE Plugin -------------------------------
(***************************************************************************)
(* The Neovim front end: the Lua binding (lua/fzx.cpp) and the plugin on   *)
(* top of it (lua/fzx/init.lua, lib.lua, builtin.lua), on top of Engine.   *)
(* Everything runs on one thread, in callbacks: of the child process whose *)
(* output is searched (its pipe and its exit), of the wake-up descriptor,  *)
(* of a timer, of the user's keys, and those deferred by vim.schedule(),   *)
(* which run later, in order, whatever has happened to the object by then. *)
(* An item is named by its index, from 1.                                  *)
(***************************************************************************)
EXTENDS Engine, LineScanner, SequencesExt

CONSTANTS
  Output,       \* what the child process writes
  Texts,        \* the lines a user may type that are not blank
  Ranked,       \* Ranked[n][t]: the answer to t over the first n items
  Heights,      \* the heights the display may have
  MaxInputs     \* bound: things the user does

(* A child process writes any characters. *)
ASSUME PluginAssumption == Output \in Seq({Output[k] : k \in DOMAIN Output})

VARIABLES
  ended,            \* the child has written its output and exited
  consumed,         \* how much of it was read
  reading,          \* the read callback of its pipe is active
  exited,           \* the exit callback has run
  buf,              \* mLineScanner
  items,            \* mFzx.mItems
  cuts,             \* where scan_end ended a line
  inputs,           \* the counter behind MaxInputs
  alive,            \* self._fzx and self._ui are not nil
  closing,          \* the window was closed: ui:destroy() is scheduled
  queue,            \* what vim.schedule() has deferred
  timer,            \* self._timer is armed
  pending,          \* self._pending
  height,           \* get_preferred_height()
  offset, cursor,   \* self._offset, self._cursor
  results, drawn,   \* self._results, what the display shows; nil at first
  prompt,           \* what the prompt shows
  selected          \* the item on_select was called with, or 0

scanVars == <<consumed, reading, exited, buf, items, cuts>>
displayVars == <<offset, cursor, results, drawn>>
promptVars == <<timer, prompt>>
endVars == <<alive, closing, selected>>
vars == <<ended, scanVars, inputs, endVars, queue, pending, height,
          displayVars, promptVars, engineVars>>

Least(a, b) == IF a < b THEN a ELSE b

Init ==
  /\ EngineInit
  /\ ended = FALSE
  /\ consumed = 0 /\ reading = TRUE /\ exited = FALSE
  /\ buf = <<>> /\ items = <<>> /\ cuts = {}
  /\ inputs = 0
  /\ alive = TRUE /\ closing = FALSE /\ queue = <<>> /\ timer = FALSE
  /\ pending = FALSE /\ height \in Heights
  /\ offset = 0 /\ cursor = 0
  /\ results = <<>> /\ drawn = FALSE
  /\ prompt = [matched |-> 0, total |-> 0, processing |-> FALSE]
  /\ selected = 0

-----------------------------------------------------------------------------
(* get_results() *)

Loaded == JobNumber(loaded)

Matched == IF Loaded.query # NoQuery THEN Ranked[Loaded.items][Loaded.query.text]
           ELSE [i \in DOMAIN items |-> i]

(* Query objects are compared, not their texts. *)
Processing ==
  /\ LastJob.query # NoQuery
  /\ Loaded.items # Len(items) \/ Loaded.query # LastJob.query

(* The page at the offset, which is brought back to the last full page;    *)
(* redraw_display() reverses it, the best item is at the bottom.           *)
Page ==
  LET size == Len(Matched)
      maxoff == IF size > height THEN size - height ELSE 0
  IN [at \in 0..MaxItems |->
        LET from == Least(at, maxoff)
        IN [offset |-> from,
            items |-> Reverse(SubSeq(Matched, from + 1,
                                     Least(from + height, size)))]]

-----------------------------------------------------------------------------
(* Drawing *)

Status ==
  [matched |-> Len(Matched), total |-> Len(items), processing |-> Processing]

(* redraw_prompt(): while the workers are busy the timer redraws it again. *)
RedrawPrompt == prompt' = Status' /\ timer' = Processing'

(* update_cursor() clamps to the lines of the buffer: one if it is empty.  *)
Clamp(c, shown) ==
  IF c < 0 \/ shown = <<>> THEN 0 ELSE Least(c, Len(shown) - 1)

(* redraw_display(), at some offset. *)
Draw(at) ==
  LET page == Page'[at] IN
  /\ pending' = FALSE
  /\ drawn' = TRUE
  /\ results' = page.items
  /\ offset' = page.offset
  /\ cursor' = IF page.items = <<>> THEN cursor ELSE Clamp(cursor, page.items)
  /\ RedrawPrompt

(* A later update finds the flag still set and schedules nothing. *)
RedrawDisplay_KeepPending ==
  /\ queue # <<>> /\ Head(queue) = "redraw_display"
  /\ queue' = Tail(queue)
  /\ UNCHANGED <<ended, scanVars, inputs, endVars, height, pending,
                 engineVars>>
  /\ IF alive THEN /\ results' = Page'[offset].items
                   /\ offset' = Page'[offset].offset
                   /\ cursor' = Clamp(cursor, results')
                   /\ drawn' = TRUE
                   /\ RedrawPrompt
     ELSE UNCHANGED <<displayVars, promptVars>>

RedrawDisplay ==
  /\ queue # <<>> /\ Head(queue) = "redraw_display"
  /\ queue' = Tail(queue)
  /\ UNCHANGED <<ended, scanVars, inputs, endVars, height, engineVars>>
  /\ IF alive THEN Draw(offset)
     ELSE pending' = FALSE /\ UNCHANGED <<displayVars, promptVars>>

RedrawPromptLater ==
  /\ queue # <<>> /\ Head(queue) = "redraw_prompt"
  /\ queue' = Tail(queue)
  /\ UNCHANGED <<ended, scanVars, inputs, endVars, height, pending,
                 displayVars, engineVars>>
  /\ IF alive THEN RedrawPrompt ELSE UNCHANGED promptVars

TimerFires ==
  /\ timer
  /\ timer' = FALSE
  /\ queue' = Append(queue, "redraw_prompt")
  /\ UNCHANGED <<ended, scanVars, inputs, endVars, height, pending,
                 displayVars, prompt, engineVars>>

-----------------------------------------------------------------------------
(* The wake-up descriptor: consume, load, and schedule one redraw, however *)
(* many updates come before it runs.                                       *)

OnPoll ==
  /\ alive /\ wakeup
  /\ ConsumeAndLoad
  /\ IF loaded' # loaded /\ ~pending
     THEN pending' = TRUE /\ queue' = Append(queue, "redraw_display")
     ELSE UNCHANGED <<pending, queue>>
  /\ UNCHANGED <<ended, scanVars, inputs, endVars, height, displayVars,
                 promptVars>>

-----------------------------------------------------------------------------
(* The child process *)

End ==
  /\ ~ended
  /\ ended' = TRUE
  /\ UNCHANGED <<scanVars, inputs, endVars, queue, pending, height,
                 displayVars, promptVars, engineVars>>

Scanned == UNCHANGED <<ended, inputs, endVars, queue, pending, height,
                       displayVars, promptVars>>

(* A chunk arrives: scan_feed() commits if there is a line in it. *)
OnData ==
  /\ reading /\ alive
  /\ \E upto \in consumed + 1..Len(Output) :
       LET fed == Feed(buf, SubSeq(Output, consumed + 1, upto))
       IN /\ items' = items \o fed.lines
          /\ buf' = fed.buf
          /\ consumed' = upto
          /\ IF fed.lines = <<>> THEN UNCHANGED engineVars
             ELSE CommitJobOf(Len(items'), LastJob.query)
  /\ UNCHANGED <<reading, exited, cuts>>
  /\ Scanned

(* scan_end(), which commits if there was a line left. *)
ScanEnd ==
  /\ items' = items \o Finalize(buf)
  /\ buf' = <<>>
  /\ cuts' = cuts \union {consumed}
  /\ IF buf = <<>> THEN UNCHANGED engineVars
     ELSE CommitJobOf(Len(items'), LastJob.query)

OnDataEnd ==
  /\ reading /\ alive /\ ended /\ consumed = Len(Output)
  /\ reading' = FALSE
  /\ ScanEnd
  /\ UNCHANGED <<consumed, exited>>
  /\ Scanned

(* The object is gone: the pipe is closed, whatever is left in it. *)
OnDataGone ==
  /\ reading /\ ~alive
  /\ reading' = FALSE
  /\ UNCHANGED <<consumed, exited, buf, items, cuts, engineVars>>
  /\ Scanned

(* The exit callback ends the scan too, although there may be output left  *)
(* in the pipe: the line that is being read is then cut in two.            *)
OnExit ==
  /\ ended /\ ~exited
  /\ exited' = TRUE
  /\ IF alive THEN ScanEnd ELSE UNCHANGED <<items, buf, cuts, engineVars>>
  /\ UNCHANGED <<consumed, reading>>
  /\ Scanned

-----------------------------------------------------------------------------
(* The user *)

Acts == alive /\ inputs < MaxInputs /\ inputs' = inputs + 1

(* The text changed: set_query() and redraw_prompt(). *)
QueryOf(text) ==
  IF text = NoQuery THEN NoQuery ELSE [id |-> Len(jobs) + 1, text |-> text]

SameQuery(text) ==
  \/ text = NoQuery /\ LastJob.query = NoQuery
  \/ text # NoQuery /\ LastJob.query # NoQuery /\ LastJob.query.text = text

TextChanged(text) ==
  /\ Acts
  /\ UNCHANGED <<ended, scanVars, endVars, queue, pending, height,
                 displayVars>>
  /\ IF SameQuery(text) THEN UNCHANGED engineVars
     ELSE CommitJobOf(Len(items), QueryOf(text))
  /\ RedrawPrompt

(* Scrolling draws at once, and so does a resize. *)
Scroll(at) ==
  /\ Acts
  /\ UNCHANGED <<ended, scanVars, endVars, queue, height, engineVars>>
  /\ Draw(at)

Resize(to) ==
  /\ Acts
  /\ height' = to
  /\ UNCHANGED <<ended, scanVars, endVars, queue, engineVars>>
  /\ Draw(offset)

MoveCursor(by) ==
  /\ Acts
  /\ cursor' = Clamp(cursor + by, results)
  /\ UNCHANGED <<ended, scanVars, endVars, queue, pending, height, offset,
                 results, drawn, promptVars, engineVars>>

(* destroy(): the workers are stopped, the timer is closed. *)
Destroy ==
  /\ alive' = FALSE
  /\ timer' = FALSE
  /\ StopEngine
  /\ UNCHANGED <<ended, scanVars, pending, height, displayVars, prompt>>

(* Enter before anything was drawn is an error of the mapping that leaves  *)
(* everything as it is.                                                    *)
Enter ==
  /\ Acts
  /\ drawn
  /\ selected' = IF cursor < Len(results) THEN results[Len(results) - cursor]
                 ELSE 0
  /\ Destroy
  /\ UNCHANGED <<closing, queue>>

Quit == Acts /\ Destroy /\ UNCHANGED <<closing, selected, queue>>

(* A window was closed: ui:destroy() is scheduled, once. *)
CloseWindow ==
  /\ Acts
  /\ ~closing
  /\ closing' = TRUE
  /\ queue' = Append(queue, "destroy")
  /\ UNCHANGED <<ended, scanVars, alive, selected, pending, height,
                 displayVars, promptVars, engineVars>>

DestroyLater ==
  /\ queue # <<>> /\ Head(queue) = "destroy"
  /\ queue' = Tail(queue)
  /\ UNCHANGED <<inputs, closing, selected>>
  /\ IF alive THEN Destroy
     ELSE UNCHANGED <<ended, scanVars, alive, pending, height, displayVars,
                      promptVars, engineVars>>

-----------------------------------------------------------------------------

Publish ==
  /\ alive
  /\ PublishAnswer
  /\ UNCHANGED <<ended, scanVars, inputs, endVars, queue, pending, height,
                 displayVars, promptVars>>

Scheduled == RedrawDisplay \/ RedrawPromptLater \/ DestroyLater
Child == OnData \/ OnDataEnd \/ OnDataGone
User ==
  \/ \E text \in Texts \union {NoQuery} : TextChanged(text)
  \/ \E at \in 0..MaxItems : Scroll(at)
  \/ \E to \in Heights : Resize(to)
  \/ \E by \in {-1, 1} : MoveCursor(by)
  \/ Enter \/ Quit \/ CloseWindow

(* What goes on without the user and comes to an end, and what does not:   *)
(* the timer draws the prompt again and again.                             *)
World == OnPoll \/ Publish \/ Child \/ OnExit \/ End
Drawing == Scheduled \/ TimerFires

Next == World \/ Drawing \/ User

(* The event loop serves every callback that is due, the child ends, and   *)
(* the workers answer (JobIsAnswered of Pool).                             *)
Spec == Init /\ [][Next]_vars /\ WF_vars(World) /\ WF_vars(Drawing)

-----------------------------------------------------------------------------
(* Properties *)

(* The lines of the first n characters of the output, for each set of cuts *)
OutputLines ==
  [n \in 0..Len(Output) |-> [c \in SUBSET (0..Len(Output)) |->
     Lines(SubSeq(Output, 1, n), c)]]

(* However the output is cut into chunks, and although both the exit of    *)
(* the child and the end of its output end the scan: the items are the     *)
(* lines of what was read, in order, cut nowhere but where scan_end was    *)
(* called, and the line that is not ended is kept.                         *)
ItemsAreOutput ==
  items \o Finalize(buf) = OutputLines[consumed][cuts]

(* If the object is left alone, the display comes to show the page of the  *)
(* answer to the last query over all the output, and the prompt that       *)
(* nothing is being processed: no update is lost because one was pending,  *)
(* none because it came while nothing had been loaded.                     *)
FinalAnswer ==
  LET all == OutputLines[Len(Output)][cuts]
      ranked == IF LastJob.query = NoQuery THEN [i \in DOMAIN all |-> i]
                ELSE Ranked[Len(all)][LastJob.query.text]
  IN /\ items = all
     /\ results = Reverse(SubSeq(ranked, offset + 1,
                                 Least(offset + height, Len(ranked))))
     /\ offset + Len(results) <= Len(ranked)
     /\ prompt = [matched |-> Len(ranked), total |-> Len(all),
                  processing |-> FALSE]

OutputShown == <>[]alive => <>[]FinalAnswer
=============================================================================
