------------------------------- MODULE Cursor -------------------------------
(***************************************************************************)
(* The cursor of a board's screen.  The event system of the host moves it: *)
(* it calls the routines of ND_cursor.c, each of which puts an event into  *)
(* a ring in shared memory, and at every vertical retrace an interrupt of  *)
(* the board (hardclock, CursorTask) carries out what is in the ring.  The *)
(* window server takes it off and puts it back around what it draws: it    *)
(* sends messages to the PostScript server on the board, which first takes *)
(* the ring's events itself (FlushCEQ).                                    *)
(*                                                                         *)
(* The cursor covers one place of the screen; a place shows what was drawn *)
(* there and perhaps an image over it.  An image is the pair of the calls  *)
(* that its data and its mask come from.                                   *)
(***************************************************************************)
EXTENDS Integers, Sequences

CONSTANTS CEQSIZE,    \* slots of the ring; one of them stays free
          Frames,     \* cursor images on the board; 0 is the regular one
          NPlaces,    \* places the cursor can cover
          SyncFirst,  \* the window server calls NDSyncCursor before it draws
          SyncLast,   \* and waits for NDSyncCursor before it lets the cursor go
          MaxEvents,  \* bound: calls of the host's event system
          MaxDraws,   \* bound: what the window server draws
          MaxTurns    \* bound: how often it takes the cursor

ASSUME CursorAssumption == /\ CEQSIZE \in Nat \ {0, 1}
                           /\ 0 \in Frames /\ Frames \subseteq 0..3
                           /\ {SyncFirst, SyncLast} \subseteq BOOLEAN
                           /\ {NPlaces, MaxEvents, MaxDraws, MaxTurns} \subseteq Nat

VARIABLES ceq, ceqHead, ceqTail,     \* the ring
          cursorData, cursorMask,    \* the one image handed over with CEQSet
          waitCache,                 \* frames the host believes are loaded
          hpc, ce,                   \* host: where ND_PushCEQ is, with what
          calls,                     \* calls so far; names what a call set
          shown,                     \* place of the cursor for the host, or 0
          wpc, turns, draws,         \* window server
          msgs,                      \* messages to the board's PostScript server,
                                     \* the one it serves first
          spc, theTail,              \* that server
          inRetrace,                 \* CursorTask is in ProcessCEQ
          nd_flushCEQ,
          nd_cursorFrame, nd_saveRect, nd_saveData, nd_cursorData,
          screen,
          ink,                       \* history: what was drawn last, anywhere
          want,                      \* history: the image asked for each frame
          dropped,                   \* history: ND_PushCEQ dropped an event
          imageLost,                 \* history: an image came while one was waiting,
                                     \* or was not sent because another board had it
          elsewhere                  \* history: wait frames sent to another board instead

ring == <<ceq, ceqHead, ceqTail, cursorData, cursorMask>>
host == <<waitCache, hpc, ce, calls, shown>>
window == <<wpc, turns, draws>>
service == <<spc, theTail>>
pixels == <<nd_cursorFrame, nd_saveRect, nd_saveData, nd_cursorData, screen>>
hist == <<want, dropped, imageLost, elsewhere>>
cursorVars == <<ring, host, window, msgs, service, inRetrace, nd_flushCEQ, pixels, ink, hist>>

Places == 1..NPlaces
Image == (0..MaxEvents + MaxTurns) \X (0..MaxEvents + MaxTurns)
Blank == <<0, 0>>
Pixel == [ink : 0..MaxDraws, cur : {{}} \cup {{i} : i \in Image}]
Event == [what : {"none", "move", "display", "remove", "set"},
          frame : Frames, place : 0..NPlaces]
CursorRequest == [op : {"sync_a", "sync", "remove", "display", "set", "draw"},
                  arg : 0..MaxDraws + NPlaces + MaxTurns + MaxEvents, place : 0..NPlaces]

CursorTypeOK == /\ ceq \in [0..CEQSIZE - 1 -> Event]
                /\ {ceqHead, ceqTail, theTail} \subseteq 0..CEQSIZE - 1
                /\ {cursorData, cursorMask} \subseteq 0..MaxEvents
                /\ waitCache \subseteq Frames
                /\ hpc \in {"idle", "mask", "push", "publish"} /\ ce \in Event
                /\ calls \in 0..MaxEvents /\ shown \in 0..NPlaces
                /\ wpc \in {"free", "held", "bare", "dressed", "wait"}
                /\ turns \in 0..MaxTurns /\ draws \in 0..MaxDraws
                /\ msgs \in Seq(CursorRequest)
                /\ spc \in {"receive", "process", "advance", "done", "mask"}
                /\ inRetrace \in BOOLEAN /\ nd_flushCEQ \in 0..1
                /\ nd_cursorFrame \in Frames /\ nd_saveRect \in 0..NPlaces
                /\ nd_saveData \in Pixel /\ nd_cursorData \in [Frames -> Image]
                /\ screen \in [Places -> Pixel] /\ ink \in [Places -> 0..MaxDraws]
                /\ want \in [Frames -> Image] /\ {dropped, imageLost} \subseteq BOOLEAN
                /\ elsewhere \subseteq Frames

Clear == [ink |-> 0, cur |-> {}]
NoEvent == [what |-> "none", frame |-> 0, place |-> 0]

\* InitCEQ on the board, ND_RegisterThyself on the host, ps_init done.
CursorInit == /\ ceq = [i \in 0..CEQSIZE - 1 |-> NoEvent] /\ ceqHead = 0 /\ ceqTail = 0
              /\ cursorData = 0 /\ cursorMask = 0
              /\ waitCache = {} /\ hpc = "idle" /\ ce = NoEvent /\ calls = 0 /\ shown = 0
              /\ wpc = "free" /\ turns = 0 /\ draws = 0
              /\ msgs = <<>> /\ spc = "receive" /\ theTail = 0
              /\ inRetrace = FALSE /\ nd_flushCEQ = 0
              /\ nd_cursorFrame = 0 /\ nd_saveRect = 0 /\ nd_saveData = Clear
              /\ nd_cursorData = [f \in Frames |-> Blank]
              /\ screen = [p \in Places |-> Clear] /\ ink = [p \in Places |-> 0]
              /\ want = [f \in Frames |-> Blank] /\ dropped = FALSE /\ imageLost = FALSE
              /\ elsewhere = {}

----------------------------------------------------------------------------
(* The host's event system.  It calls only while the window server has     *)
(* not taken the cursor, and each call runs to its end on the one          *)
(* processor of the host before the window server can go on.               *)

NextSlot(i) == (i + 1) % CEQSIZE

MayCall == wpc = "free" /\ hpc = "idle" /\ calls < MaxEvents

\* The event system shows a wait frame only after it has set it.
Showable == {0} \cup waitCache

Push(e) == /\ ce' = e
           /\ hpc' = "push"

ND_MoveCursor(p, f) ==
    /\ MayCall /\ shown \notin {0, p}
    /\ Push([what |-> "move", frame |-> f, place |-> p])
    /\ shown' = p
    /\ calls' = calls + 1
    /\ UNCHANGED <<ring, waitCache, window, msgs, service, inRetrace, nd_flushCEQ, pixels, ink, hist>>

ND_DisplayCursor(p, f) ==
    /\ MayCall /\ shown = 0
    /\ Push([what |-> "display", frame |-> f, place |-> p])
    /\ shown' = p
    /\ calls' = calls + 1
    /\ UNCHANGED <<ring, waitCache, window, msgs, service, inRetrace, nd_flushCEQ, pixels, ink, hist>>

ND_RemoveCursor ==
    /\ MayCall /\ shown # 0
    /\ Push([what |-> "remove", frame |-> 0, place |-> 0])
    /\ shown' = 0
    /\ calls' = calls + 1
    /\ UNCHANGED <<ring, waitCache, window, msgs, service, inRetrace, nd_flushCEQ, pixels, ink, hist>>

Cached(f) == f # 0 /\ f \in waitCache

\* An event of this kind is in the ring, or being carried out.
SetWaits == \E i \in 0..CEQSIZE - 1 :
              /\ ceq[i].what = "set"
              /\ (i - ceqTail) % CEQSIZE < (ceqHead - ceqTail) % CEQSIZE

\* The image's data and mask are copied to shared memory one after the other.
ND_SetCursor(f) ==
    /\ MayCall /\ ~Cached(f)
    /\ waitCache' = IF f = 0 THEN waitCache ELSE waitCache \cup {f}
    /\ calls' = calls + 1
    /\ cursorData' = calls'
    /\ ce' = [what |-> "set", frame |-> f, place |-> 0]
    /\ hpc' = "mask"
    /\ want' = [want EXCEPT ![f] = <<calls', calls'>>]
    /\ imageLost' = (imageLost \/ SetWaits)
    /\ elsewhere' = elsewhere \ {f}
    /\ UNCHANGED <<ceq, ceqHead, ceqTail, cursorMask, shown, window, msgs, service,
                   inRetrace, nd_flushCEQ, pixels, ink, dropped>>

\* Another board's screen is given a wait frame: waitCache is one for all boards.
SetElsewhere(f) == /\ MayCall /\ f # 0 /\ ~Cached(f)
                   /\ waitCache' = waitCache \cup {f}
                   /\ calls' = calls + 1
                   /\ elsewhere' = elsewhere \cup {f}
                   /\ UNCHANGED <<ring, hpc, ce, shown, window, msgs, service, inRetrace,
                                  nd_flushCEQ, pixels, ink, want, dropped, imageLost>>

\* So the same frame, when it is this board's turn, is not sent.
NotSent(f) == /\ MayCall /\ Cached(f) /\ f \in elsewhere
              /\ calls' = calls + 1
              /\ imageLost' = TRUE
              /\ UNCHANGED <<ring, waitCache, hpc, ce, shown, window, msgs, service, inRetrace,
                             nd_flushCEQ, pixels, ink, want, dropped, elsewhere>>

CopyMask == /\ hpc = "mask"
            /\ cursorMask' = calls
            /\ hpc' = "push"
            /\ UNCHANGED <<ceq, ceqHead, ceqTail, cursorData, waitCache, ce, calls, shown, window,
                           msgs, service, inRetrace, nd_flushCEQ, pixels, ink, hist>>

\* Mistake: the last free slot is used too.
FullNever == FALSE
Full == NextSlot(ceqHead) = ceqTail

\* ND_PushCEQ fills the slot at the head, then publishes it.
StoreEvent == /\ hpc = "push" /\ ~Full
              /\ ceq' = [ceq EXCEPT ![ceqHead] = ce]
              /\ hpc' = "publish"
              /\ UNCHANGED <<ceqHead, ceqTail, cursorData, cursorMask, waitCache, ce, calls, shown,
                             window, msgs, service, inRetrace, nd_flushCEQ, pixels, ink, hist>>

Publish == /\ hpc = "publish"
           /\ ceqHead' = NextSlot(ceqHead)
           /\ hpc' = "idle" /\ ce' = NoEvent
           /\ UNCHANGED <<ceq, ceqTail, cursorData, cursorMask, waitCache, calls, shown, window,
                          msgs, service, inRetrace, nd_flushCEQ, pixels, ink, hist>>

\* else drop event on the floor!
DropEvent == /\ hpc = "push" /\ Full
             /\ hpc' = "idle" /\ ce' = NoEvent
             /\ dropped' = TRUE
             /\ UNCHANGED <<ring, waitCache, calls, shown, window, msgs, service,
                            inRetrace, nd_flushCEQ, pixels, ink, want, imageLost, elsewhere>>

\* A window server that starts again registers a board's screen again.
ND_RegisterThyself == /\ MayCall /\ waitCache # {}
                      /\ waitCache' = {}
                      /\ calls' = calls + 1
                      /\ UNCHANGED <<ring, hpc, ce, shown, window, msgs, service,
                                     inRetrace, nd_flushCEQ, pixels, ink, hist>>

HostCalls == \/ \E p \in Places, f \in Showable : ND_MoveCursor(p, f) \/ ND_DisplayCursor(p, f)
             \/ ND_RemoveCursor
             \/ \E f \in Frames : ND_SetCursor(f) \/ SetElsewhere(f) \/ NotSent(f)
             \/ ND_RegisterThyself

HostRuns == CopyMask \/ StoreEvent \/ Publish \/ DropEvent

----------------------------------------------------------------------------
(* The window server, through the routines of PSDriver/client/nd.c.        *)

Say(op, arg, p) == [op |-> op, arg |-> arg, place |-> p]

Send(ms) == /\ msgs' = msgs \o ms
            /\ UNCHANGED <<ring, host, service, inRetrace, nd_flushCEQ, pixels, ink>>

TakeCursor == /\ wpc = "free" /\ hpc = "idle" /\ turns < MaxTurns
              /\ wpc' = "held"
              /\ turns' = turns + 1
              /\ Send(IF SyncFirst THEN <<Say("sync_a", 0, 0)>> ELSE <<>>)
              /\ UNCHANGED <<draws, hist>>

\* Bound: it takes the cursor off the screen once in a turn.
NDRemoveCursor == /\ wpc = "held" /\ shown # 0
                  /\ wpc' = "bare"
                  /\ Send(<<Say("remove", 0, 0)>>)
                  /\ UNCHANGED <<turns, draws, hist>>

\* A new regular cursor, while there is none on the screen.
NDSetCursor == /\ wpc = "bare"
               /\ want[0] # <<MaxEvents + turns, MaxEvents + turns>>
               /\ want' = [want EXCEPT ![0] = <<MaxEvents + turns, MaxEvents + turns>>]
               /\ Send(<<Say("set", MaxEvents + turns, 0)>>)
               /\ UNCHANGED <<window, dropped, imageLost, elsewhere>>

\* It never draws where the cursor is.
Draw(p) == /\ draws < MaxDraws
           /\ wpc \in {"held", "bare", "dressed"}
           /\ wpc = "bare" \/ shown # p
           /\ draws' = draws + 1
           /\ Send(<<Say("draw", draws', p)>>)
           /\ UNCHANGED <<wpc, turns, hist>>

NDDisplayCursor == /\ wpc = "bare"
                   /\ wpc' = "dressed"
                   /\ Send(<<Say("display", 0, shown)>>)
                   /\ UNCHANGED <<turns, draws, hist>>

LeaveCursor == /\ wpc \in {"held", "dressed"}
               /\ wpc' = IF SyncLast THEN "wait" ELSE "free"
               /\ Send(IF SyncLast THEN <<Say("sync", 0, 0)>> ELSE <<>>)
               /\ UNCHANGED <<turns, draws, hist>>

WindowServer == \/ TakeCursor \/ NDRemoveCursor \/ NDSetCursor \/ NDDisplayCursor \/ LeaveCursor
                \/ \E p \in Places : Draw(p)

----------------------------------------------------------------------------
(* The board: what carrying out an event does to the pixels.               *)

Restored == IF nd_saveRect = 0 THEN screen ELSE [screen EXCEPT ![nd_saveRect] = nd_saveData]
Over(s, p, f) == [s EXCEPT ![p].cur = {nd_cursorData[f]}]

DisplayOn(s, p, f) == /\ nd_saveRect' = p
                      /\ nd_saveData' = s[p]
                      /\ screen' = Over(s, p, f)

\* Mistake: the image goes to the frame used last.
SetCursorLast(f) == [nd_cursorData EXCEPT ![nd_cursorFrame] = <<cursorData, cursorMask>>]
SetCursor(f) == [nd_cursorData EXCEPT ![f] = <<cursorData, cursorMask>>]

Execute(e) ==
    CASE e.what = "move" -> /\ nd_cursorFrame' = e.frame
                            /\ DisplayOn(Restored, e.place, e.frame)
                            /\ UNCHANGED nd_cursorData
      [] e.what = "display" -> /\ nd_cursorFrame' = e.frame
                               /\ DisplayOn(screen, e.place, e.frame)
                               /\ UNCHANGED nd_cursorData
      [] e.what = "remove" -> /\ screen' = Restored
                              /\ UNCHANGED <<nd_cursorFrame, nd_saveRect, nd_saveData, nd_cursorData>>
      [] OTHER -> /\ nd_cursorFrame' = e.frame
                  /\ nd_cursorData' = SetCursor(e.frame)
                  /\ UNCHANGED <<nd_saveRect, nd_saveData, screen>>

\* The retrace interrupt: hardclock calls CursorTask, between any two steps
\* of the processes of the board.
CursorTask == /\ ~inRetrace /\ nd_flushCEQ = 0 /\ ceqTail # ceqHead
              /\ inRetrace' = TRUE
              /\ UNCHANGED <<ring, host, window, msgs, service, nd_flushCEQ, pixels, ink, hist>>

\* One round of its loop in ProcessCEQ.
RetraceEvent == /\ inRetrace
                /\ Execute(ceq[ceqTail])
                /\ ceqTail' = NextSlot(ceqTail)
                /\ inRetrace' = (ceqTail' # ceqHead)
                /\ UNCHANGED <<ceq, ceqHead, cursorData, cursorMask, host, window, msgs, service,
                               nd_flushCEQ, ink, hist>>

Retrace == CursorTask \/ RetraceEvent

----------------------------------------------------------------------------
(* The PostScript server of the board, when no interrupt keeps it.         *)

\* FlushCEQ keeps the retrace interrupt out of the ring.
EnterFlush == nd_flushCEQ' = nd_flushCEQ + 1
\* Mistake: the mark stays.
LeaveFlushMarked == UNCHANGED nd_flushCEQ
LeaveFlush == nd_flushCEQ' = nd_flushCEQ - 1

\* It goes on with the first of the messages, and returns from its handler.
Serving(ops) == msgs # <<>> /\ Head(msgs).op \in ops /\ ~inRetrace
Return == spc' = "receive" /\ msgs' = Tail(msgs)

\* Drawing does not look at the cursor.
ServeDraw == /\ spc = "receive" /\ Serving({"draw"})
             /\ screen' = [screen EXCEPT ![Head(msgs).place] = [ink |-> Head(msgs).arg, cur |-> {}]]
             /\ ink' = [ink EXCEPT ![Head(msgs).place] = Head(msgs).arg]
             /\ Return
             /\ UNCHANGED <<ring, host, window, theTail, inRetrace, nd_flushCEQ,
                            nd_cursorFrame, nd_saveRect, nd_saveData, nd_cursorData, hist>>

\* Every handler of ps_*_cursor begins with FlushCEQ.
FlushCEQ == /\ spc = "receive" /\ Serving({"sync_a", "sync", "remove", "display", "set"})
            /\ spc' = "process"
            /\ EnterFlush
            /\ theTail' = ceqTail
            /\ UNCHANGED <<ring, host, window, msgs, inRetrace, pixels, ink, hist>>

\* Mistake: what is in the ring is left to the next retrace.
EmptiedLater == TRUE
Emptied == ceqTail = ceqHead

\* ProcessCEQ: theTail points into the ring from one round to the next.
FlushEvent == /\ spc = "process" /\ ~inRetrace /\ ~Emptied
              /\ Execute(ceq[theTail])
              /\ spc' = "advance"
              /\ UNCHANGED <<ring, host, window, msgs, theTail, inRetrace, nd_flushCEQ, ink, hist>>

FlushAdvance == /\ spc = "advance" /\ ~inRetrace
                /\ theTail' = NextSlot(theTail)
                /\ ceqTail' = theTail'
                /\ spc' = "process"
                /\ UNCHANGED <<ceq, ceqHead, cursorData, cursorMask, host, window, msgs,
                               inRetrace, nd_flushCEQ, pixels, ink, hist>>

\* FlushCEQ returns, and with it a request to synchronise.
Flushed == /\ spc = "process" /\ ~inRetrace /\ Emptied
           /\ LeaveFlush
           /\ IF Serving({"sync_a", "sync"}) THEN Return ELSE spc' = "done" /\ UNCHANGED msgs
           /\ wpc' = IF Serving({"sync"}) THEN "free" ELSE wpc
           /\ UNCHANGED <<ring, host, turns, draws, theTail, inRetrace, pixels, ink, hist>>

\* The mark around RemoveCursor makes it one step for the interrupt.
HandlerRemoves == /\ spc = "done" /\ Serving({"remove"})
                  /\ screen' = Restored
                  /\ Return
                  /\ UNCHANGED <<ring, host, window, theTail, inRetrace, nd_flushCEQ,
                                 nd_cursorFrame, nd_saveRect, nd_saveData, nd_cursorData, ink, hist>>

\* Likewise DisplayCursor, with the frame that was used last.
HandlerDisplays == /\ spc = "done" /\ Serving({"display"})
                   /\ DisplayOn(screen, Head(msgs).place, nd_cursorFrame)
                   /\ Return
                   /\ UNCHANGED <<ring, host, window, theTail, inRetrace, nd_flushCEQ,
                                  nd_cursorFrame, nd_cursorData, ink, hist>>

\* ps_set_cursor fills frame 0, with the interrupt let in: two halves.
HandlerSets == /\ spc \in {"done", "mask"} /\ Serving({"set"})
               /\ nd_cursorData' = [nd_cursorData EXCEPT
                                      ![0][IF spc = "done" THEN 1 ELSE 2] = Head(msgs).arg]
               /\ IF spc = "done" THEN spc' = "mask" /\ UNCHANGED msgs ELSE Return
               /\ UNCHANGED <<ring, host, window, theTail, inRetrace, nd_flushCEQ,
                              nd_cursorFrame, nd_saveRect, nd_saveData, screen, ink, hist>>

ServerRuns == \/ ServeDraw \/ FlushCEQ \/ FlushEvent \/ FlushAdvance \/ Flushed
              \/ HandlerRemoves \/ HandlerDisplays \/ HandlerSets

----------------------------------------------------------------------------
CursorNext == HostCalls \/ HostRuns \/ WindowServer \/ Retrace \/ ServerRuns

\* Interrupts come and return, the server goes on when none keeps it, and a
\* call that was begun ends.  Nobody has to begin one.
CursorSpec == /\ CursorInit /\ [][CursorNext]_cursorVars
              /\ WF_cursorVars(HostRuns) /\ WF_cursorVars(Retrace) /\ WF_cursorVars(ServerRuns)

----------------------------------------------------------------------------
Quiet == /\ hpc = "idle" /\ ceqHead = ceqTail /\ ~inRetrace
         /\ wpc = "free" /\ spc = "receive" /\ msgs = <<>>

\* When everything has been carried out and nothing was dropped, there is one
\* cursor on the screen where the host believes it is, or none: whatever the
\* order in which the ring, the retrace and the window server's messages met.
CursorWhereHostSays ==
    Quiet /\ ~dropped =>
      {p \in Places : screen[p].cur # {}} = IF shown = 0 THEN {} ELSE {shown}

\* What was drawn stays: restoring what was under the cursor never brings
\* back an older drawing (RemoveCursor copies nd_saveData blindly).
DrawingKept == ~dropped => \A p \in Places : screen[p].ink = ink[p]

\* When all is carried out, every frame holds the image asked for last,
\* although all images pass through one place, unless an event was dropped, an
\* image was sent before the last one had been taken, or one was not sent because
\* another board had been sent it.
ImagesAsSet == Quiet /\ ~dropped /\ ~imageLost => nd_cursorData = want

\* When host, retrace and server have come to rest, the screen and the frames are
\* what was asked for.
ScreenSound == CursorTypeOK /\ CursorWhereHostSays /\ ImagesAsSet

\* Every event in the ring is taken sometime: nobody keeps the retrace
\* interrupt out of the ring for good.
EventsTaken == ceqHead # ceqTail ~> ceqHead = ceqTail

----------------------------------------------------------------------------
(* Counterexamples on demand.                                              *)

\* False: a full ring drops an event, also one that takes the cursor off.
NeverTwice == Quiet => {p \in Places : screen[p].cur # {}} =
                         IF shown = 0 THEN {} ELSE {shown}

\* False: a second image overwrites one that has not been taken, and its
\* frame is marked as loaded (waitCache) for good.
WaitImageLoaded == Quiet /\ ~dropped => \A f \in waitCache : nd_cursorData[f] = want[f]

\* False: a frame that another board was sent counts as loaded here.
WaitFrameHere == Quiet /\ ~dropped /\ ~imageLost => \A f \in waitCache : nd_cursorData[f] # Blank

\* False: the frame is marked before its event is dropped.
WaitFrameSent == Quiet => \A f \in waitCache : nd_cursorData[f] # Blank
=============================================================================
