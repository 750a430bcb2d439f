---------------------------- MODULE PSDriverProofs ----------------------------
(***************************************************************************)
(* The PostScript driver: the cursor that the host's event system, the     *)
(* window server and the retrace interrupt of the board put on one screen, *)
(* and the argument streams that carry the marks to be drawn.              *)
(***************************************************************************)
EXTENDS ArgStream, Cursor, SequenceTheorems, TLAPS

----------------------------------------------------------------------------
(* The cursor is in one place at a time.  What is still in the ring and in *)
(* the requests is a path of places that begins at the place the screen    *)
(* shows and ends at the one the host and the window server believe in:    *)
(* each event and each request finds the cursor as it must be.             *)
Slots == 0..CEQSIZE-1
Where == 0..NPlaces

\* The types of the parts of the state.
RingTyped == /\ ceq \in [Slots -> Event]
             /\ ceqHead \in Slots /\ ceqTail \in Slots /\ theTail \in Slots
             /\ cursorData \in 0..MaxEvents /\ cursorMask \in 0..MaxEvents
HostTyped == /\ waitCache \subseteq Frames
             /\ hpc \in {"idle", "mask", "push", "publish"} /\ ce \in Event
             /\ calls \in 0..MaxEvents /\ shown \in Where
WindowTyped == /\ wpc \in {"free", "held", "bare", "dressed", "wait"}
               /\ turns \in 0..MaxTurns /\ draws \in 0..MaxDraws
               /\ msgs \in Seq(CursorRequest)
BoardTyped == /\ spc \in {"receive", "process", "advance", "done", "mask"}
              /\ inRetrace \in BOOLEAN
PixelsTyped == /\ nd_cursorFrame \in Frames /\ nd_saveRect \in Where
               /\ nd_saveData \in Pixel /\ nd_cursorData \in [Frames -> Image]
               /\ screen \in [Places -> Pixel] /\ ink \in [Places -> 0..MaxDraws]
HistTyped == /\ want \in [Frames -> Image] /\ dropped \in BOOLEAN /\ imageLost \in BOOLEAN
             /\ elsewhere \subseteq Frames
Typed == RingTyped /\ HostTyped /\ WindowTyped /\ BoardTyped /\ PixelsTyped /\ HistTyped

\* Slot i holds an event that is published and not yet taken off.
Pending(i) == IF ceqTail <= ceqHead THEN ceqTail <= i /\ i < ceqHead
              ELSE ceqTail <= i \/ i < ceqHead

\* ... and not yet carried out; Now is the slot of the event that is next.
Undone(i) == Pending(i) /\ ~(spc = "advance" /\ i = ceqTail)
Now == IF spc = "advance" THEN NextSlot(ceqTail) ELSE ceqTail
Flushing == spc \in {"process", "advance"}

\* What is in the ring is carried out before the window server's messages: it has
\* not taken the cursor, or its opening NDSyncCursor has not been served.
RingFirst == wpc = "free" \/ (msgs # <<>> /\ Head(msgs).op = "sync_a")

\* The turns of host and window server: while the window server has the cursor,
\* the host's event system is not in a call, and after NDSyncCursor has emptied
\* the ring it stays empty.
Turn == /\ wpc = "free" => msgs = <<>> /\ spc = "receive"
        /\ wpc # "free" => hpc = "idle"
        /\ \A i \in 2..Len(msgs) : msgs[i].op # "sync_a"
        /\ \A i \in 1..Len(msgs) : msgs[i].op = "sync" => wpc = "wait" /\ i = Len(msgs)
        /\ wpc = "bare" => shown # 0
        /\ ~RingFirst => ceqHead = ceqTail /\ ~inRetrace

\* FlushCEQ and the retrace interrupt never walk the ring at the same time.
Flush == /\ nd_flushCEQ = IF Flushing THEN 1 ELSE 0
         /\ inRetrace => ~Flushing /\ ceqTail # ceqHead
         /\ Flushing => theTail = ceqTail /\ msgs # <<>> /\ Head(msgs).op # "draw"
         /\ spc = "advance" => ceqTail # ceqHead
         /\ spc \in {"done", "mask"} => msgs # <<>> /\ Head(msgs).op \in {"remove", "display", "set"}
         /\ spc = "mask" => Head(msgs).op = "set"

\* Every event that can still be carried out is a real one, with its place.
Placed(e) == e.what \in {"move", "display"} => e.place # 0
Events == /\ \A i \in Slots : Placed(ceq[i]) /\ (Pending(i) => ceq[i].what # "none")
          /\ Placed(ce) /\ (hpc # "idle" => ce.what # "none")
          /\ hpc = "publish" => ceq[ceqHead] = ce /\ NextSlot(ceqHead) # ceqTail

\* The requests carry the arguments that their handlers use.
Requests == \A i \in 1..Len(msgs) :
     /\ msgs[i].op = "draw" => msgs[i].place # 0 /\ msgs[i].arg \in 0..MaxDraws
     /\ msgs[i].op = "display" => msgs[i].place # 0
     /\ msgs[i].op = "set" => msgs[i].arg \in 0..MaxEvents + MaxTurns

\* One request more, or one less, in the queue to the PostScript server.
Longer(r) == /\ msgs' \in Seq(CursorRequest) /\ Len(msgs) \in Nat
             /\ Len(msgs') = Len(msgs) + 1
             /\ msgs'[Len(msgs) + 1] = r
             /\ \A i \in 1..Len(msgs) : msgs'[i] = msgs[i]
             /\ msgs' # <<>> /\ Head(msgs') = msgs'[1]
             /\ msgs # <<>> => Head(msgs') = Head(msgs)
             /\ msgs = <<>> => Head(msgs') = r
Shorter == /\ msgs' \in Seq(CursorRequest) /\ Len(msgs) \in Nat
           /\ Len(msgs') + 1 = Len(msgs)
           /\ \A i \in 1..Len(msgs') : msgs'[i] = msgs[i + 1]
           /\ msgs' # <<>> => Head(msgs') = msgs'[1] /\ Len(msgs') > 0

\* The queue of requests after Send, after Return, and its first.
LEMMA SentIs ==
  ASSUME WindowTyped, NEW r \in CursorRequest, msgs' = msgs \o <<r>>
  PROVE  Longer(r)
<1> DEFINE s == <<r>>
<1>1. msgs \in Seq(CursorRequest) /\ s \in Seq(CursorRequest) /\ Len(s) = 1 /\ s[1] = r
  BY DEF WindowTyped
<1>2. /\ msgs \o s \in Seq(CursorRequest) /\ Len(msgs \o s) = Len(msgs) + Len(s)
      /\ \A i \in 1 .. Len(msgs) + Len(s) :
            (msgs \o s)[i] = IF i <= Len(msgs) THEN msgs[i] ELSE s[i - Len(msgs)]
  BY <1>1, ConcatProperties
<1>3. Len(msgs) \in Nat /\ (msgs = <<>> <=> Len(msgs) = 0)
  BY <1>1, EmptySeq, LenProperties
<1>4. Head(msgs \o s) = (msgs \o s)[1] /\ (msgs # <<>> => Head(msgs) = msgs[1])
  OBVIOUS
<1> QED
  BY <1>1, <1>2, <1>3, <1>4 DEF Longer

LEMMA TakenIs ==
  ASSUME WindowTyped, msgs # <<>>, msgs' = Tail(msgs)
  PROVE  Shorter
<1>1. msgs \in Seq(CursorRequest)
  BY DEF WindowTyped
<1>2. /\ Tail(msgs) \in Seq(CursorRequest) /\ Len(Tail(msgs)) = Len(msgs) - 1
      /\ \A i \in 1 .. Len(Tail(msgs)) : Tail(msgs)[i] = msgs[i + 1]
  BY <1>1, HeadTailProperties
<1>3. Len(msgs) \in Nat /\ Len(Tail(msgs)) \in Nat
  BY <1>1, <1>2, LenProperties
<1>4. Tail(msgs) # <<>> => Len(Tail(msgs)) > 0
  BY <1>2, <1>3, EmptySeq
<1> QED
  BY <1>2, <1>3, <1>4 DEF Shorter

LEMMA FirstIs ==
  ASSUME WindowTyped, msgs # <<>>
  PROVE  Head(msgs) = msgs[1] /\ msgs[1] \in CursorRequest /\ Len(msgs) \in Nat \ {0}
BY EmptySeq, LenProperties, ElementOfSeq, HeadTailProperties DEF WindowTyped

\* The ring: the next slot, the slots that are pending, and how they change when
\* tail or head passes one.
LEMMA NextSlotIs ==
  ASSUME NEW i \in Slots
  PROVE  NextSlot(i) = IF i = CEQSIZE - 1 THEN 0 ELSE i + 1
BY CursorAssumption DEF NextSlot, Slots

LEMMA NextSlotRange ==
  ASSUME NEW i \in Slots
  PROVE  NextSlot(i) \in Slots /\ NextSlot(i) # i
BY NextSlotIs, CursorAssumption DEF Slots

LEMMA NextSlotInjective ==
  ASSUME NEW i \in Slots, NEW j \in Slots, NextSlot(i) = NextSlot(j)
  PROVE  i = j
BY NextSlotIs, CursorAssumption DEF Slots

LEMMA PendingIs ==
  ASSUME RingTyped, NEW i \in Slots
  PROVE  /\ Pending(i) => i # ceqHead /\ ceqTail # ceqHead
         /\ ceqTail # ceqHead => Pending(ceqTail)
         /\ NextSlot(ceqHead) # ceqTail => ~Pending(NextSlot(ceqHead))
         /\ Pending(i) <=> (i - ceqTail) % CEQSIZE < (ceqHead - ceqTail) % CEQSIZE
<1> USE CursorAssumption DEF RingTyped, Slots
<1>1. NextSlot(ceqHead) = IF ceqHead = CEQSIZE - 1 THEN 0 ELSE ceqHead + 1
  BY NextSlotIs
<1>2. (i - ceqTail) % CEQSIZE = IF ceqTail <= i THEN i - ceqTail ELSE i - ceqTail + CEQSIZE
  BY SMTT(30)
<1>3. (ceqHead - ceqTail) % CEQSIZE = IF ceqTail <= ceqHead THEN ceqHead - ceqTail ELSE ceqHead - ceqTail + CEQSIZE
  OBVIOUS
<1>4. Pending(i) <=> (i - ceqTail) % CEQSIZE < (ceqHead - ceqTail) % CEQSIZE
  BY SMTT(30), <1>2, <1>3 DEF Pending
<1> QED
  BY <1>1, <1>4 DEF Pending

LEMMA TailPasses ==
  ASSUME RingTyped, ceqTail # ceqHead, ceqTail' = NextSlot(ceqTail), ceqHead' = ceqHead,
         NEW i \in Slots
  PROVE  Pending(i)' <=> Pending(i) /\ i # ceqTail
<1>1. NextSlot(ceqTail) = IF ceqTail = CEQSIZE - 1 THEN 0 ELSE ceqTail + 1
  BY NextSlotIs DEF RingTyped
<1> QED
  BY <1>1, CursorAssumption DEF RingTyped, Slots, Pending

LEMMA HeadPasses ==
  ASSUME RingTyped, NextSlot(ceqHead) # ceqTail, ceqHead' = NextSlot(ceqHead), ceqTail' = ceqTail,
         NEW i \in Slots
  PROVE  Pending(i)' <=> Pending(i) \/ i = ceqHead
<1>1. NextSlot(ceqHead) = IF ceqHead = CEQSIZE - 1 THEN 0 ELSE ceqHead + 1
  BY NextSlotIs DEF RingTyped
<1> QED
  BY <1>1, CursorAssumption DEF RingTyped, Slots, Pending

LEMMA PendingKept ==
  ASSUME UNCHANGED <<ceqHead, ceqTail>>, NEW i \in Slots
  PROVE  Pending(i)' <=> Pending(i)
BY DEF Pending

\* What each routine of nd.c sends, when NDSyncCursor is in its place.
LEMMA TakeCursorSends ==
  ASSUME Typed, SyncFirst, SyncLast, TakeCursor
  PROVE  Longer(Say("sync_a", 0, 0))
<1>1. Say("sync_a", 0, 0) \in CursorRequest
  BY CursorAssumption DEF Typed, WindowTyped, HostTyped, Where, Say, CursorRequest
<1>2. msgs' = msgs \o <<Say("sync_a", 0, 0)>>
  BY DEF TakeCursor, Send
<1> QED
  BY <1>1, <1>2, SentIs DEF Typed

LEMMA NDRemoveCursorSends ==
  ASSUME Typed, SyncFirst, SyncLast, NDRemoveCursor
  PROVE  Longer(Say("remove", 0, 0))
<1>1. Say("remove", 0, 0) \in CursorRequest
  BY CursorAssumption DEF Typed, WindowTyped, HostTyped, Where, Say, CursorRequest
<1>2. msgs' = msgs \o <<Say("remove", 0, 0)>>
  BY DEF NDRemoveCursor, Send
<1> QED
  BY <1>1, <1>2, SentIs DEF Typed

LEMMA NDSetCursorSends ==
  ASSUME Typed, SyncFirst, SyncLast, NDSetCursor
  PROVE  Longer(Say("set", MaxEvents + turns, 0))
<1>1. Say("set", MaxEvents + turns, 0) \in CursorRequest
  BY SMTT(30), CursorAssumption DEF Typed, WindowTyped, HostTyped, Where, Say, CursorRequest
<1>2. msgs' = msgs \o <<Say("set", MaxEvents + turns, 0)>>
  BY DEF NDSetCursor, Send
<1> QED
  BY <1>1, <1>2, SentIs DEF Typed

LEMMA NDDisplayCursorSends ==
  ASSUME Typed, SyncFirst, SyncLast, NDDisplayCursor
  PROVE  Longer(Say("display", 0, shown))
<1>1. Say("display", 0, shown) \in CursorRequest
  BY CursorAssumption DEF Typed, WindowTyped, HostTyped, Where, Say, CursorRequest
<1>2. msgs' = msgs \o <<Say("display", 0, shown)>>
  BY DEF NDDisplayCursor, Send
<1> QED
  BY <1>1, <1>2, SentIs DEF Typed

LEMMA LeaveCursorSends ==
  ASSUME Typed, SyncFirst, SyncLast, LeaveCursor
  PROVE  Longer(Say("sync", 0, 0))
<1>1. Say("sync", 0, 0) \in CursorRequest
  BY CursorAssumption DEF Typed, WindowTyped, HostTyped, Where, Say, CursorRequest
<1>2. msgs' = msgs \o <<Say("sync", 0, 0)>>
  BY DEF LeaveCursor, Send
<1> QED
  BY <1>1, <1>2, SentIs DEF Typed

LEMMA DrawSends ==
  ASSUME Typed, SyncFirst, SyncLast, NEW p \in Places, Draw(p)
  PROVE  Longer(Say("draw", draws + 1, p))
<1>1. Say("draw", draws + 1, p) \in CursorRequest
  BY SMTT(30), CursorAssumption DEF Typed, WindowTyped, HostTyped, Where, Places, Say, CursorRequest, Draw
<1>2. msgs' = msgs \o <<Say("draw", draws + 1, p)>>
  BY DEF Draw, Send
<1> QED
  BY <1>1, <1>2, SentIs DEF Typed

\* The bounds, and the pixels that carrying out an event leaves.
LEMMA BoundsAreNatural ==
  /\ NPlaces \in Nat /\ MaxEvents \in Nat /\ MaxDraws \in Nat /\ MaxTurns \in Nat
  /\ 0 \in Frames
BY CursorAssumption

LEMMA RestoredTyped ==
  ASSUME PixelsTyped
  PROVE  Restored \in [Places -> Pixel]
BY DEF PixelsTyped, Restored, Where, Places

LEMMA OverTyped ==
  ASSUME PixelsTyped, NEW s \in [Places -> Pixel], NEW p \in Places, NEW f \in Frames
  PROVE  Over(s, p, f) \in [Places -> Pixel]
<1>1. nd_cursorData[f] \in Image
  BY DEF PixelsTyped
<1>2. [s[p] EXCEPT !.cur = {nd_cursorData[f]}] \in Pixel
  BY <1>1 DEF Pixel
<1> QED
  BY <1>2 DEF Over

LEMMA ExecuteTyped ==
  ASSUME RingTyped, PixelsTyped, NEW e \in Event, Placed(e), Execute(e)
  PROVE  /\ nd_cursorFrame' \in Frames /\ nd_saveRect' \in Where
         /\ nd_saveData' \in Pixel /\ nd_cursorData' \in [Frames -> Image]
         /\ screen' \in [Places -> Pixel]
<1>0. /\ e.frame \in Frames /\ e.place \in Where
      /\ e.what \in {"move", "display"} => e.place \in Places
      /\ e.what \in {"none", "move", "display", "remove", "set"}
  BY BoundsAreNatural DEF Event, Placed, Where, Places
<1>1. CASE e.what = "move"
  <2>1. /\ nd_cursorFrame' = e.frame /\ nd_saveRect' = e.place /\ nd_saveData' = Restored[e.place]
        /\ screen' = Over(Restored, e.place, e.frame) /\ nd_cursorData' = nd_cursorData
    BY <1>1 DEF Execute, DisplayOn
  <2> QED
    BY <1>0, <1>1, <2>1, RestoredTyped, OverTyped DEF PixelsTyped
<1>2. CASE e.what = "display"
  <2>1. /\ nd_cursorFrame' = e.frame /\ nd_saveRect' = e.place /\ nd_saveData' = screen[e.place]
        /\ screen' = Over(screen, e.place, e.frame) /\ nd_cursorData' = nd_cursorData
    BY <1>2 DEF Execute, DisplayOn
  <2> QED
    BY <1>0, <1>2, <2>1, OverTyped DEF PixelsTyped
<1>3. CASE e.what = "remove"
  <2>1. /\ screen' = Restored /\ UNCHANGED <<nd_cursorFrame, nd_saveRect, nd_saveData, nd_cursorData>>
    BY <1>3 DEF Execute
  <2> QED
    BY <2>1, RestoredTyped DEF PixelsTyped
<1>4. CASE e.what \in {"none", "set"}
  <2>1. /\ nd_cursorFrame' = e.frame /\ nd_cursorData' = SetCursor(e.frame)
        /\ UNCHANGED <<nd_saveRect, nd_saveData, screen>>
    BY <1>4 DEF Execute
  <2>2. <<cursorData, cursorMask>> \in Image
    BY BoundsAreNatural DEF RingTyped, Image
  <2> QED
    BY <1>0, <2>1, <2>2 DEF PixelsTyped, SetCursor
<1> QED
  BY <1>0, <1>1, <1>2, <1>3, <1>4

\* The requests behind the first; the closing NDSyncCursor is the last.
LEMMA RestOfTurn ==
  ASSUME Shorter, Turn
  PROVE  /\ \A i \in 1..Len(msgs') : msgs'[i].op # "sync_a"
         /\ \A i \in 1..Len(msgs') : msgs'[i].op = "sync" => wpc = "wait" /\ i = Len(msgs')
<1> SUFFICES ASSUME NEW i \in 1..Len(msgs')
             PROVE  /\ msgs'[i].op # "sync_a"
                    /\ msgs'[i].op = "sync" => wpc = "wait" /\ i = Len(msgs')
  OBVIOUS
<1>1. Len(msgs') \in Nat /\ msgs'[i] = msgs[i + 1] /\ i + 1 \in 2..Len(msgs) /\ i + 1 \in 1..Len(msgs)
      /\ (i + 1 = Len(msgs) => i = Len(msgs'))
  BY DEF Shorter
<1> QED
  BY <1>1 DEF Turn

LEMMA SyncIsLast ==
  ASSUME Turn, WindowTyped, msgs # <<>>, Head(msgs).op = "sync"
  PROVE  Len(msgs) = 1
<1>1. Head(msgs) = msgs[1] /\ 1 \in 1..Len(msgs)
  BY FirstIs
<1> QED
  BY <1>1 DEF Turn

\* Every step keeps the types, one part of the state after the other; the ring ...
LEMMA RingTypedStep ==
  ASSUME Typed, Turn, Flush, Events, Requests, [CursorNext]_cursorVars
  PROVE  RingTyped'
<1> USE NextSlotRange, CursorAssumption DEF Typed, RingTyped, HostTyped, ring, host, window, service, pixels, hist
<1>1. CASE UNCHANGED cursorVars
  BY <1>1 DEF cursorVars
<1>2. ASSUME NEW p \in Places, NEW f \in Showable, ND_MoveCursor(p, f) PROVE RingTyped'
  BY <1>2 DEF ND_MoveCursor, MayCall, Push
<1>3. ASSUME NEW p \in Places, NEW f \in Showable, ND_DisplayCursor(p, f) PROVE RingTyped'
  BY <1>3 DEF ND_DisplayCursor, MayCall, Push
<1>4. CASE ND_RemoveCursor
  BY <1>4 DEF ND_RemoveCursor, MayCall, Push
<1>5. ASSUME NEW f \in Frames, ND_SetCursor(f) PROVE RingTyped'
  BY <1>5 DEF ND_SetCursor, MayCall
<1>6. CASE ND_RegisterThyself
  BY <1>6 DEF ND_RegisterThyself, MayCall
<1>27. ASSUME NEW f \in Frames, SetElsewhere(f) PROVE RingTyped'
  BY <1>27 DEF SetElsewhere, MayCall
<1>28. ASSUME NEW f \in Frames, NotSent(f) PROVE RingTyped'
  BY <1>28 DEF NotSent, MayCall
<1>7. CASE CopyMask
  BY <1>7 DEF CopyMask
<1>8. CASE StoreEvent
  BY <1>8 DEF StoreEvent
<1>9. CASE Publish
  BY <1>9 DEF Publish
<1>10. CASE DropEvent
  BY <1>10 DEF DropEvent
<1>11. CASE TakeCursor
  BY <1>11 DEF TakeCursor, Send, Say
<1>12. CASE NDRemoveCursor
  BY <1>12 DEF NDRemoveCursor, Send, Say
<1>13. CASE NDSetCursor
  BY <1>13 DEF NDSetCursor, Send, Say
<1>14. ASSUME NEW p \in Places, Draw(p) PROVE RingTyped'
  BY <1>14 DEF Draw, Send, Say
<1>15. CASE NDDisplayCursor
  BY <1>15 DEF NDDisplayCursor, Send, Say
<1>16. CASE LeaveCursor
  BY <1>16 DEF LeaveCursor, Send, Say
<1>17. CASE CursorTask
  BY <1>17 DEF CursorTask
<1>18. CASE RetraceEvent
  BY <1>18 DEF RetraceEvent
<1>19. CASE ServeDraw
  BY <1>19 DEF ServeDraw, Serving, Return
<1>20. CASE FlushCEQ
  BY <1>20 DEF FlushCEQ, Serving, EnterFlush
<1>21. CASE FlushEvent
  BY <1>21 DEF FlushEvent, Emptied
<1>22. CASE FlushAdvance
  BY <1>22 DEF FlushAdvance
<1>23. CASE Flushed
  BY <1>23 DEF Flushed, Serving, Return, LeaveFlush, Emptied
<1>24. CASE HandlerRemoves
  BY <1>24 DEF HandlerRemoves, Serving, Return
<1>25. CASE HandlerDisplays
  BY <1>25 DEF HandlerDisplays, Serving, Return
<1>26. CASE HandlerSets
  BY <1>26 DEF HandlerSets, Serving, Return
<1> QED
  BY <1>1, <1>2, <1>3, <1>4, <1>5, <1>6, <1>7, <1>8, <1>9, <1>10, <1>11, <1>12, <1>13, <1>14, <1>15, <1>16, <1>17, <1>18, <1>19, <1>20, <1>21, <1>22, <1>23, <1>24, <1>25, <1>26, <1>27, <1>28
     DEF CursorNext, HostCalls, HostRuns, WindowServer, Retrace, ServerRuns

\* ... the host ...
LEMMA HostTypedStep ==
  ASSUME Typed, Turn, Flush, Events, Requests, [CursorNext]_cursorVars
  PROVE  HostTyped'
<1> USE CursorAssumption DEF Typed, HostTyped, Event, NoEvent, Where, Places, Showable, ring, host, window, service, pixels, hist
<1>1. CASE UNCHANGED cursorVars
  BY <1>1 DEF cursorVars
<1>2. ASSUME NEW p \in Places, NEW f \in Showable, ND_MoveCursor(p, f) PROVE HostTyped'
  BY <1>2 DEF ND_MoveCursor, MayCall, Push
<1>3. ASSUME NEW p \in Places, NEW f \in Showable, ND_DisplayCursor(p, f) PROVE HostTyped'
  BY <1>3 DEF ND_DisplayCursor, MayCall, Push
<1>4. CASE ND_RemoveCursor
  BY <1>4 DEF ND_RemoveCursor, MayCall, Push
<1>5. ASSUME NEW f \in Frames, ND_SetCursor(f) PROVE HostTyped'
  BY <1>5 DEF ND_SetCursor, MayCall
<1>6. CASE ND_RegisterThyself
  BY <1>6 DEF ND_RegisterThyself, MayCall
<1>27. ASSUME NEW f \in Frames, SetElsewhere(f) PROVE HostTyped'
  BY <1>27 DEF SetElsewhere, MayCall
<1>28. ASSUME NEW f \in Frames, NotSent(f) PROVE HostTyped'
  BY <1>28 DEF NotSent, MayCall
<1>7. CASE CopyMask
  BY <1>7 DEF CopyMask
<1>8. CASE StoreEvent
  BY <1>8 DEF StoreEvent
<1>9. CASE Publish
  BY <1>9 DEF Publish
<1>10. CASE DropEvent
  BY <1>10 DEF DropEvent
<1>11. CASE TakeCursor
  BY <1>11 DEF TakeCursor, Send, Say
<1>12. CASE NDRemoveCursor
  BY <1>12 DEF NDRemoveCursor, Send, Say
<1>13. CASE NDSetCursor
  BY <1>13 DEF NDSetCursor, Send, Say
<1>14. ASSUME NEW p \in Places, Draw(p) PROVE HostTyped'
  BY <1>14 DEF Draw, Send, Say
<1>15. CASE NDDisplayCursor
  BY <1>15 DEF NDDisplayCursor, Send, Say
<1>16. CASE LeaveCursor
  BY <1>16 DEF LeaveCursor, Send, Say
<1>17. CASE CursorTask
  BY <1>17 DEF CursorTask
<1>18. CASE RetraceEvent
  BY <1>18 DEF RetraceEvent
<1>19. CASE ServeDraw
  BY <1>19 DEF ServeDraw, Serving, Return
<1>20. CASE FlushCEQ
  BY <1>20 DEF FlushCEQ, Serving, EnterFlush
<1>21. CASE FlushEvent
  BY <1>21 DEF FlushEvent, Emptied
<1>22. CASE FlushAdvance
  BY <1>22 DEF FlushAdvance
<1>23. CASE Flushed
  BY <1>23 DEF Flushed, Serving, Return, LeaveFlush, Emptied
<1>24. CASE HandlerRemoves
  BY <1>24 DEF HandlerRemoves, Serving, Return
<1>25. CASE HandlerDisplays
  BY <1>25 DEF HandlerDisplays, Serving, Return
<1>26. CASE HandlerSets
  BY <1>26 DEF HandlerSets, Serving, Return
<1> QED
  BY <1>1, <1>2, <1>3, <1>4, <1>5, <1>6, <1>7, <1>8, <1>9, <1>10, <1>11, <1>12, <1>13, <1>14, <1>15, <1>16, <1>17, <1>18, <1>19, <1>20, <1>21, <1>22, <1>23, <1>24, <1>25, <1>26, <1>27, <1>28
     DEF CursorNext, HostCalls, HostRuns, WindowServer, Retrace, ServerRuns

\* ... the server of the board ...
LEMMA BoardTypedStep ==
  ASSUME Typed, Turn, Flush, Events, Requests, [CursorNext]_cursorVars
  PROVE  BoardTyped'
<1> USE DEF Typed, BoardTyped, ring, host, window, service, pixels, hist
<1>1. CASE UNCHANGED cursorVars
  BY <1>1 DEF cursorVars
<1>2. ASSUME NEW p \in Places, NEW f \in Showable, ND_MoveCursor(p, f) PROVE BoardTyped'
  BY <1>2 DEF ND_MoveCursor, MayCall, Push
<1>3. ASSUME NEW p \in Places, NEW f \in Showable, ND_DisplayCursor(p, f) PROVE BoardTyped'
  BY <1>3 DEF ND_DisplayCursor, MayCall, Push
<1>4. CASE ND_RemoveCursor
  BY <1>4 DEF ND_RemoveCursor, MayCall, Push
<1>5. ASSUME NEW f \in Frames, ND_SetCursor(f) PROVE BoardTyped'
  BY <1>5 DEF ND_SetCursor, MayCall
<1>6. CASE ND_RegisterThyself
  BY <1>6 DEF ND_RegisterThyself, MayCall
<1>27. ASSUME NEW f \in Frames, SetElsewhere(f) PROVE BoardTyped'
  BY <1>27 DEF SetElsewhere, MayCall
<1>28. ASSUME NEW f \in Frames, NotSent(f) PROVE BoardTyped'
  BY <1>28 DEF NotSent, MayCall
<1>7. CASE CopyMask
  BY <1>7 DEF CopyMask
<1>8. CASE StoreEvent
  BY <1>8 DEF StoreEvent
<1>9. CASE Publish
  BY <1>9 DEF Publish
<1>10. CASE DropEvent
  BY <1>10 DEF DropEvent
<1>11. CASE TakeCursor
  BY <1>11 DEF TakeCursor, Send, Say
<1>12. CASE NDRemoveCursor
  BY <1>12 DEF NDRemoveCursor, Send, Say
<1>13. CASE NDSetCursor
  BY <1>13 DEF NDSetCursor, Send, Say
<1>14. ASSUME NEW p \in Places, Draw(p) PROVE BoardTyped'
  BY <1>14 DEF Draw, Send, Say
<1>15. CASE NDDisplayCursor
  BY <1>15 DEF NDDisplayCursor, Send, Say
<1>16. CASE LeaveCursor
  BY <1>16 DEF LeaveCursor, Send, Say
<1>17. CASE CursorTask
  BY <1>17 DEF CursorTask
<1>18. CASE RetraceEvent
  BY <1>18 DEF RetraceEvent
<1>19. CASE ServeDraw
  BY <1>19 DEF ServeDraw, Serving, Return
<1>20. CASE FlushCEQ
  BY <1>20 DEF FlushCEQ, Serving, EnterFlush
<1>21. CASE FlushEvent
  BY <1>21 DEF FlushEvent, Emptied
<1>22. CASE FlushAdvance
  BY <1>22 DEF FlushAdvance
<1>23. CASE Flushed
  BY <1>23 DEF Flushed, Serving, Return, LeaveFlush, Emptied
<1>24. CASE HandlerRemoves
  BY <1>24 DEF HandlerRemoves, Serving, Return
<1>25. CASE HandlerDisplays
  BY <1>25 DEF HandlerDisplays, Serving, Return
<1>26. CASE HandlerSets
  BY <1>26 DEF HandlerSets, Serving, Return
<1> QED
  BY <1>1, <1>2, <1>3, <1>4, <1>5, <1>6, <1>7, <1>8, <1>9, <1>10, <1>11, <1>12, <1>13, <1>14, <1>15, <1>16, <1>17, <1>18, <1>19, <1>20, <1>21, <1>22, <1>23, <1>24, <1>25, <1>26, <1>27, <1>28
     DEF CursorNext, HostCalls, HostRuns, WindowServer, Retrace, ServerRuns

\* ... the window server ...
LEMMA WindowTypedStep ==
  ASSUME Typed, Turn, Flush, Events, Requests, SyncFirst, SyncLast, [CursorNext]_cursorVars
  PROVE  WindowTyped'
<1> USE CursorAssumption DEF Typed, WindowTyped, HostTyped, ring, host, window, service, pixels, hist
<1>1. CASE UNCHANGED cursorVars
  BY <1>1 DEF cursorVars
<1>2. ASSUME NEW p \in Places, NEW f \in Showable, ND_MoveCursor(p, f) PROVE WindowTyped'
  BY <1>2 DEF ND_MoveCursor, MayCall, Push
<1>3. ASSUME NEW p \in Places, NEW f \in Showable, ND_DisplayCursor(p, f) PROVE WindowTyped'
  BY <1>3 DEF ND_DisplayCursor, MayCall, Push
<1>4. CASE ND_RemoveCursor
  BY <1>4 DEF ND_RemoveCursor, MayCall, Push
<1>5. ASSUME NEW f \in Frames, ND_SetCursor(f) PROVE WindowTyped'
  BY <1>5 DEF ND_SetCursor, MayCall
<1>6. CASE ND_RegisterThyself
  BY <1>6 DEF ND_RegisterThyself, MayCall
<1>27. ASSUME NEW f \in Frames, SetElsewhere(f) PROVE WindowTyped'
  BY <1>27 DEF SetElsewhere, MayCall
<1>28. ASSUME NEW f \in Frames, NotSent(f) PROVE WindowTyped'
  BY <1>28 DEF NotSent, MayCall
<1>7. CASE CopyMask
  BY <1>7 DEF CopyMask
<1>8. CASE StoreEvent
  BY <1>8 DEF StoreEvent
<1>9. CASE Publish
  BY <1>9 DEF Publish
<1>10. CASE DropEvent
  BY <1>10 DEF DropEvent
<1>11. CASE TakeCursor
  BY <1>11, TakeCursorSends DEF TakeCursor, Send, Say, Longer
<1>12. CASE NDRemoveCursor
  BY <1>12, NDRemoveCursorSends DEF NDRemoveCursor, Send, Say, Longer
<1>13. CASE NDSetCursor
  BY <1>13, NDSetCursorSends DEF NDSetCursor, Send, Say, Longer
<1>14. ASSUME NEW p \in Places, Draw(p) PROVE WindowTyped'
  <2>1. Longer(Say("draw", draws + 1, p)) /\ draws' = draws + 1 /\ draws < MaxDraws
        /\ UNCHANGED <<wpc, turns>>
    BY <1>14, DrawSends DEF Draw
  <2> QED
    BY <2>1, BoundsAreNatural DEF Longer
<1>15. CASE NDDisplayCursor
  BY <1>15, NDDisplayCursorSends DEF NDDisplayCursor, Send, Say, Longer
<1>16. CASE LeaveCursor
  BY <1>16, LeaveCursorSends DEF LeaveCursor, Send, Say, Longer
<1>17. CASE CursorTask
  BY <1>17 DEF CursorTask
<1>18. CASE RetraceEvent
  BY <1>18 DEF RetraceEvent
<1>19. CASE ServeDraw
  BY <1>19, TakenIs, FirstIs DEF ServeDraw, Serving, Return, Shorter
<1>20. CASE FlushCEQ
  BY <1>20 DEF FlushCEQ, Serving, EnterFlush
<1>21. CASE FlushEvent
  BY <1>21 DEF FlushEvent, Emptied
<1>22. CASE FlushAdvance
  BY <1>22 DEF FlushAdvance
<1>23. CASE Flushed
  BY <1>23, TakenIs, FirstIs DEF Flushed, Serving, Return, LeaveFlush, Emptied, Shorter
<1>24. CASE HandlerRemoves
  BY <1>24, TakenIs, FirstIs DEF HandlerRemoves, Serving, Return, Shorter
<1>25. CASE HandlerDisplays
  BY <1>25, TakenIs, FirstIs DEF HandlerDisplays, Serving, Return, Shorter
<1>26. CASE HandlerSets
  BY <1>26, TakenIs, FirstIs DEF HandlerSets, Serving, Return, Shorter
<1> QED
  BY <1>1, <1>2, <1>3, <1>4, <1>5, <1>6, <1>7, <1>8, <1>9, <1>10, <1>11, <1>12, <1>13, <1>14, <1>15, <1>16, <1>17, <1>18, <1>19, <1>20, <1>21, <1>22, <1>23, <1>24, <1>25, <1>26, <1>27, <1>28
     DEF CursorNext, HostCalls, HostRuns, WindowServer, Retrace, ServerRuns

\* ... the histories ...
LEMMA HistTypedStep ==
  ASSUME Typed, Turn, Flush, Events, Requests, SyncFirst, SyncLast, [CursorNext]_cursorVars
  PROVE  HistTyped'
<1> USE CursorAssumption DEF Typed, HistTyped, WindowTyped, HostTyped, Image, ring, host, window, service, pixels, hist
<1>1. CASE UNCHANGED cursorVars
  BY <1>1 DEF cursorVars
<1>2. ASSUME NEW p \in Places, NEW f \in Showable, ND_MoveCursor(p, f) PROVE HistTyped'
  BY <1>2 DEF ND_MoveCursor, MayCall, Push
<1>3. ASSUME NEW p \in Places, NEW f \in Showable, ND_DisplayCursor(p, f) PROVE HistTyped'
  BY <1>3 DEF ND_DisplayCursor, MayCall, Push
<1>4. CASE ND_RemoveCursor
  BY <1>4 DEF ND_RemoveCursor, MayCall, Push
<1>5. ASSUME NEW f \in Frames, ND_SetCursor(f) PROVE HistTyped'
  <2>1. calls' \in 0..MaxEvents /\ calls' \in 0..MaxEvents + MaxTurns
    BY <1>5, BoundsAreNatural DEF ND_SetCursor, MayCall
  <2>2. <<calls', calls'>> \in Image
    BY <2>1 DEF Image
  <2>3. /\ want' = [want EXCEPT ![f] = <<calls', calls'>>]
        /\ dropped' = dropped /\ imageLost' = (imageLost \/ SetWaits) /\ elsewhere' = elsewhere \ {f}
    BY <1>5 DEF ND_SetCursor
  <2>4. want' \in [Frames -> Image]
    BY <2>2, <2>3
  <2>5. imageLost' \in BOOLEAN
    BY <2>3
  <2> QED
    BY <2>3, <2>4, <2>5
<1>6. CASE ND_RegisterThyself
  BY <1>6 DEF ND_RegisterThyself, MayCall
<1>27. ASSUME NEW f \in Frames, SetElsewhere(f) PROVE HistTyped'
  BY <1>27 DEF SetElsewhere, MayCall
<1>28. ASSUME NEW f \in Frames, NotSent(f) PROVE HistTyped'
  BY <1>28 DEF NotSent, MayCall
<1>7. CASE CopyMask
  BY <1>7 DEF CopyMask
<1>8. CASE StoreEvent
  BY <1>8 DEF StoreEvent
<1>9. CASE Publish
  BY <1>9 DEF Publish
<1>10. CASE DropEvent
  BY <1>10 DEF DropEvent
<1>11. CASE TakeCursor
  BY <1>11, TakeCursorSends DEF TakeCursor, Send, Say, Longer
<1>12. CASE NDRemoveCursor
  BY <1>12, NDRemoveCursorSends DEF NDRemoveCursor, Send, Say, Longer
<1>13. CASE NDSetCursor
  <2>1. MaxEvents + turns \in 0..MaxEvents + MaxTurns
    BY BoundsAreNatural
  <2>2. <<MaxEvents + turns, MaxEvents + turns>> \in Image
    BY <2>1 DEF Image
  <2>3. want' = [want EXCEPT ![0] = <<MaxEvents + turns, MaxEvents + turns>>] /\ UNCHANGED <<dropped, imageLost, elsewhere>>
    BY <1>13 DEF NDSetCursor
  <2> QED
    BY <2>2, <2>3
<1>14. ASSUME NEW p \in Places, Draw(p) PROVE HistTyped'
  BY <1>14, DrawSends DEF Draw, Send, Say, Longer
<1>15. CASE NDDisplayCursor
  BY <1>15, NDDisplayCursorSends DEF NDDisplayCursor, Send, Say, Longer
<1>16. CASE LeaveCursor
  BY <1>16, LeaveCursorSends DEF LeaveCursor, Send, Say, Longer
<1>17. CASE CursorTask
  BY <1>17 DEF CursorTask
<1>18. CASE RetraceEvent
  BY <1>18 DEF RetraceEvent
<1>19. CASE ServeDraw
  BY <1>19, TakenIs, FirstIs DEF ServeDraw, Serving, Return, Shorter
<1>20. CASE FlushCEQ
  BY <1>20 DEF FlushCEQ, Serving, EnterFlush
<1>21. CASE FlushEvent
  BY <1>21 DEF FlushEvent, Emptied
<1>22. CASE FlushAdvance
  BY <1>22 DEF FlushAdvance
<1>23. CASE Flushed
  BY <1>23, TakenIs, FirstIs DEF Flushed, Serving, Return, LeaveFlush, Emptied, Shorter
<1>24. CASE HandlerRemoves
  BY <1>24, TakenIs, FirstIs DEF HandlerRemoves, Serving, Return, Shorter
<1>25. CASE HandlerDisplays
  BY <1>25, TakenIs, FirstIs DEF HandlerDisplays, Serving, Return, Shorter
<1>26. CASE HandlerSets
  BY <1>26, TakenIs, FirstIs DEF HandlerSets, Serving, Return, Shorter
<1> QED
  BY <1>1, <1>2, <1>3, <1>4, <1>5, <1>6, <1>7, <1>8, <1>9, <1>10, <1>11, <1>12, <1>13, <1>14, <1>15, <1>16, <1>17, <1>18, <1>19, <1>20, <1>21, <1>22, <1>23, <1>24, <1>25, <1>26, <1>27, <1>28
     DEF CursorNext, HostCalls, HostRuns, WindowServer, Retrace, ServerRuns

\* ... and the pixels.
LEMMA PixelsTypedStep ==
  ASSUME Typed, Turn, Flush, Events, Requests, SyncFirst, SyncLast, [CursorNext]_cursorVars
  PROVE  PixelsTyped'
<1> USE DEF Typed, PixelsTyped, ring, host, window, service, pixels, hist
<1>1. CASE UNCHANGED cursorVars
  BY <1>1 DEF cursorVars
<1>2. ASSUME NEW p \in Places, NEW f \in Showable, ND_MoveCursor(p, f) PROVE PixelsTyped'
  BY <1>2 DEF ND_MoveCursor, MayCall, Push
<1>3. ASSUME NEW p \in Places, NEW f \in Showable, ND_DisplayCursor(p, f) PROVE PixelsTyped'
  BY <1>3 DEF ND_DisplayCursor, MayCall, Push
<1>4. CASE ND_RemoveCursor
  BY <1>4 DEF ND_RemoveCursor, MayCall, Push
<1>5. ASSUME NEW f \in Frames, ND_SetCursor(f) PROVE PixelsTyped'
  BY <1>5 DEF ND_SetCursor, MayCall
<1>6. CASE ND_RegisterThyself
  BY <1>6 DEF ND_RegisterThyself, MayCall
<1>27. ASSUME NEW f \in Frames, SetElsewhere(f) PROVE PixelsTyped'
  BY <1>27 DEF SetElsewhere, MayCall
<1>28. ASSUME NEW f \in Frames, NotSent(f) PROVE PixelsTyped'
  BY <1>28 DEF NotSent, MayCall
<1>7. CASE CopyMask
  BY <1>7 DEF CopyMask
<1>8. CASE StoreEvent
  BY <1>8 DEF StoreEvent
<1>9. CASE Publish
  BY <1>9 DEF Publish
<1>10. CASE DropEvent
  BY <1>10 DEF DropEvent
<1>11. CASE TakeCursor
  BY <1>11, TakeCursorSends DEF TakeCursor, Send, Say, Longer
<1>12. CASE NDRemoveCursor
  BY <1>12, NDRemoveCursorSends DEF NDRemoveCursor, Send, Say, Longer
<1>13. CASE NDSetCursor
  BY <1>13, NDSetCursorSends DEF NDSetCursor, Send, Say, Longer
<1>14. ASSUME NEW p \in Places, Draw(p) PROVE PixelsTyped'
  BY <1>14, DrawSends DEF Draw, Send, Say, Longer
<1>15. CASE NDDisplayCursor
  BY <1>15, NDDisplayCursorSends DEF NDDisplayCursor, Send, Say, Longer
<1>16. CASE LeaveCursor
  BY <1>16, LeaveCursorSends DEF LeaveCursor, Send, Say, Longer
<1>17. CASE CursorTask
  BY <1>17 DEF CursorTask
<1>18. CASE RetraceEvent
  <2>1. ceq[ceqTail] \in Event /\ Placed(ceq[ceqTail]) /\ Execute(ceq[ceqTail]) /\ UNCHANGED ink
    BY <1>18 DEF RetraceEvent, RingTyped, Events
  <2> QED
    BY <2>1, ExecuteTyped
<1>19. CASE ServeDraw
  <2>1. Head(msgs) = msgs[1] /\ 1 \in 1..Len(msgs)
    BY <1>19, FirstIs DEF ServeDraw, Serving
  <2>2. Head(msgs).place \in Places /\ Head(msgs).arg \in 0..MaxDraws
    BY <1>19, <2>1, FirstIs, BoundsAreNatural DEF ServeDraw, Serving, Requests, CursorRequest, Places
  <2>3. [ink |-> Head(msgs).arg, cur |-> {}] \in Pixel
    BY <2>2 DEF Pixel
  <2> QED
    BY <1>19, <2>2, <2>3 DEF ServeDraw
<1>20. CASE FlushCEQ
  BY <1>20 DEF FlushCEQ, Serving, EnterFlush
<1>21. CASE FlushEvent
  <2>1. ceq[theTail] \in Event /\ Placed(ceq[theTail]) /\ Execute(ceq[theTail]) /\ UNCHANGED ink
    BY <1>21 DEF FlushEvent, RingTyped, Events
  <2> QED
    BY <2>1, ExecuteTyped
<1>22. CASE FlushAdvance
  BY <1>22 DEF FlushAdvance
<1>23. CASE Flushed
  BY <1>23, TakenIs, FirstIs DEF Flushed, Serving, Return, LeaveFlush, Emptied, Shorter
<1>24. CASE HandlerRemoves
  BY <1>24, RestoredTyped DEF HandlerRemoves
<1>25. CASE HandlerDisplays
  <2>1. Head(msgs) = msgs[1] /\ 1 \in 1..Len(msgs)
    BY <1>25, FirstIs DEF HandlerDisplays, Serving
  <2>2. Head(msgs).place \in Places
    BY <1>25, <2>1, FirstIs, BoundsAreNatural DEF HandlerDisplays, Serving, Requests, CursorRequest, Places
  <2>3. /\ nd_saveRect' = Head(msgs).place /\ nd_saveData' = screen[Head(msgs).place]
        /\ screen' = Over(screen, Head(msgs).place, nd_cursorFrame)
        /\ UNCHANGED <<nd_cursorFrame, nd_cursorData, ink>>
    BY <1>25 DEF HandlerDisplays, DisplayOn
  <2>4. Over(screen, Head(msgs).place, nd_cursorFrame) \in [Places -> Pixel]
    BY <2>2, OverTyped
  <2> QED
    BY <2>2, <2>3, <2>4, BoundsAreNatural DEF Where, Places
<1>26. CASE HandlerSets
  <2>1. Head(msgs) = msgs[1] /\ 1 \in 1..Len(msgs)
    BY <1>26, FirstIs DEF HandlerSets, Serving
  <2>2. Head(msgs).arg \in 0..MaxEvents + MaxTurns
    BY <1>26, <2>1 DEF HandlerSets, Serving, Requests
  <2> DEFINE k == IF spc = "done" THEN 1 ELSE 2
             new == [nd_cursorData[0] EXCEPT ![k] = Head(msgs).arg]
  <2>3. new \in Image
    <3>1. nd_cursorData[0] \in Image
      BY BoundsAreNatural
    <3>2. PICK a \in 0..MaxEvents + MaxTurns, b \in 0..MaxEvents + MaxTurns : nd_cursorData[0] = <<a, b>>
      BY <3>1 DEF Image
    <3>3. new = IF k = 1 THEN <<Head(msgs).arg, b>> ELSE <<a, Head(msgs).arg>>
      BY <3>2
    <3> QED
      BY <2>2, <3>3 DEF Image
  <2>4. nd_cursorData' = [nd_cursorData EXCEPT ![0] = new]
    BY <1>26 DEF HandlerSets
  <2> QED
    BY <1>26, <2>3, <2>4 DEF HandlerSets
<1> QED
  BY <1>1, <1>2, <1>3, <1>4, <1>5, <1>6, <1>7, <1>8, <1>9, <1>10, <1>11, <1>12, <1>13, <1>14, <1>15, <1>16, <1>17, <1>18, <1>19, <1>20, <1>21, <1>22, <1>23, <1>24, <1>25, <1>26, <1>27, <1>28
     DEF CursorNext, HostCalls, HostRuns, WindowServer, Retrace, ServerRuns

\* nd_flushCEQ keeps CursorTask out while FlushCEQ is in the ring, and the handler
\* of a request cannot begin while CursorTask is.
LEMMA FlushStep ==
  ASSUME Typed, Turn, Flush, Events, Requests, SyncFirst, SyncLast, [CursorNext]_cursorVars
  PROVE  Flush'
<1> USE FirstIs DEF Typed, RingTyped, HostTyped, WindowTyped, BoardTyped, ring, host, window, service, pixels, hist, Flush, Flushing, Turn, RingFirst
<1>1. CASE UNCHANGED cursorVars
  BY <1>1 DEF cursorVars
<1>2. ASSUME NEW p \in Places, NEW f \in Showable, ND_MoveCursor(p, f) PROVE Flush'
  BY <1>2 DEF ND_MoveCursor, MayCall, Push
<1>3. ASSUME NEW p \in Places, NEW f \in Showable, ND_DisplayCursor(p, f) PROVE Flush'
  BY <1>3 DEF ND_DisplayCursor, MayCall, Push
<1>4. CASE ND_RemoveCursor
  BY <1>4 DEF ND_RemoveCursor, MayCall, Push
<1>5. ASSUME NEW f \in Frames, ND_SetCursor(f) PROVE Flush'
  BY <1>5 DEF ND_SetCursor, MayCall
<1>6. CASE ND_RegisterThyself
  BY <1>6 DEF ND_RegisterThyself, MayCall
<1>27. ASSUME NEW f \in Frames, SetElsewhere(f) PROVE Flush'
  BY <1>27 DEF SetElsewhere, MayCall
<1>28. ASSUME NEW f \in Frames, NotSent(f) PROVE Flush'
  BY <1>28 DEF NotSent, MayCall
<1>7. CASE CopyMask
  BY <1>7 DEF CopyMask
<1>8. CASE StoreEvent
  BY <1>8 DEF StoreEvent
<1>9. CASE Publish
  <2>1. ceqHead' # ceqTail /\ UNCHANGED <<nd_flushCEQ, spc, inRetrace, theTail, ceqTail, msgs>>
    BY <1>9 DEF Publish, Events
  <2> QED
    BY <2>1
<1>10. CASE DropEvent
  BY <1>10 DEF DropEvent
<1>11. CASE TakeCursor
  BY <1>11, TakeCursorSends DEF TakeCursor, Send, Say, Longer
<1>12. CASE NDRemoveCursor
  BY <1>12, NDRemoveCursorSends DEF NDRemoveCursor, Send, Say, Longer
<1>13. CASE NDSetCursor
  BY <1>13, NDSetCursorSends DEF NDSetCursor, Send, Say, Longer
<1>14. ASSUME NEW p \in Places, Draw(p) PROVE Flush'
  BY <1>14, DrawSends DEF Draw, Send, Say, Longer
<1>15. CASE NDDisplayCursor
  BY <1>15, NDDisplayCursorSends DEF NDDisplayCursor, Send, Say, Longer
<1>16. CASE LeaveCursor
  BY <1>16, LeaveCursorSends DEF LeaveCursor, Send, Say, Longer
<1>17. CASE CursorTask
  BY <1>17 DEF CursorTask
<1>18. CASE RetraceEvent
  BY <1>18 DEF RetraceEvent
<1>19. CASE ServeDraw
  BY <1>19, TakenIs, FirstIs DEF ServeDraw, Serving, Return, Shorter
<1>20. CASE FlushCEQ
  BY <1>20 DEF FlushCEQ, Serving, EnterFlush
<1>21. CASE FlushEvent
  BY <1>21 DEF FlushEvent, Emptied
<1>22. CASE FlushAdvance
  BY <1>22 DEF FlushAdvance
<1>23. CASE Flushed
  <2>1. msgs # <<>> /\ Head(msgs).op \in {"sync_a", "sync", "remove", "display", "set"}
    BY <1>23, FirstIs DEF Flushed, CursorRequest
  <2>2. /\ spc' \in {"receive", "done"} /\ nd_flushCEQ' = nd_flushCEQ - 1 /\ ~inRetrace'
        /\ spc' = "done" => msgs' = msgs /\ Head(msgs).op \in {"remove", "display", "set"}
    BY <1>23, <2>1 DEF Flushed, Serving, Return, LeaveFlush
  <2>3. nd_flushCEQ = 1
    BY <1>23 DEF Flushed
  <2> QED
    BY <2>2, <2>3
<1>24. CASE HandlerRemoves
  BY <1>24, TakenIs, FirstIs DEF HandlerRemoves, Serving, Return, Shorter
<1>25. CASE HandlerDisplays
  BY <1>25, TakenIs, FirstIs DEF HandlerDisplays, Serving, Return, Shorter
<1>26. CASE HandlerSets
  BY <1>26, TakenIs, FirstIs DEF HandlerSets, Serving, Return, Shorter
<1> QED
  BY <1>1, <1>2, <1>3, <1>4, <1>5, <1>6, <1>7, <1>8, <1>9, <1>10, <1>11, <1>12, <1>13, <1>14, <1>15, <1>16, <1>17, <1>18, <1>19, <1>20, <1>21, <1>22, <1>23, <1>24, <1>25, <1>26, <1>27, <1>28
     DEF CursorNext, HostCalls, HostRuns, WindowServer, Retrace, ServerRuns

\* A slot is filled before the head passes it, and not touched until the tail has.
LEMMA EventsKept ==
  ASSUME Events, UNCHANGED <<ceq, ceqHead, ceqTail, ce, hpc>>
  PROVE  Events'
BY DEF Events, Pending, Placed

\* ND_PushCEQ pushes real events only.
LEMMA EventsStep ==
  ASSUME Typed, Turn, Flush, Events, Requests, SyncFirst, SyncLast, [CursorNext]_cursorVars
  PROVE  Events'
<1> USE DEF host, ring, pixels
<1>1. CASE UNCHANGED cursorVars
  BY <1>1, EventsKept DEF cursorVars
<1>2. ASSUME NEW p \in Places, NEW f \in Showable, ND_MoveCursor(p, f) PROVE Events'
  <2>1. UNCHANGED <<ceq, ceqHead, ceqTail>> /\ hpc' = "push"
        /\ Placed(ce)' /\ ce'.what # "none"
    BY <1>2, BoundsAreNatural DEF ND_MoveCursor, Push, Placed, Places, NoEvent
  <2> QED
    BY <2>1, PendingKept DEF Events, Placed
<1>3. ASSUME NEW p \in Places, NEW f \in Showable, ND_DisplayCursor(p, f) PROVE Events'
  <2>1. UNCHANGED <<ceq, ceqHead, ceqTail>> /\ hpc' = "push"
        /\ Placed(ce)' /\ ce'.what # "none"
    BY <1>3, BoundsAreNatural DEF ND_DisplayCursor, Push, Placed, Places, NoEvent
  <2> QED
    BY <2>1, PendingKept DEF Events, Placed
<1>4. CASE ND_RemoveCursor
  <2>1. UNCHANGED <<ceq, ceqHead, ceqTail>> /\ hpc' = "push"
        /\ Placed(ce)' /\ ce'.what # "none"
    BY <1>4, BoundsAreNatural DEF ND_RemoveCursor, Push, Placed, Places, NoEvent
  <2> QED
    BY <2>1, PendingKept DEF Events, Placed
<1>5. ASSUME NEW f \in Frames, ND_SetCursor(f) PROVE Events'
  <2>1. UNCHANGED <<ceq, ceqHead, ceqTail>> /\ hpc' = "mask"
        /\ Placed(ce)' /\ ce'.what # "none"
    BY <1>5, BoundsAreNatural DEF ND_SetCursor, Push, Placed, Places, NoEvent
  <2> QED
    BY <2>1, PendingKept DEF Events, Placed
<1>6. CASE ND_RegisterThyself
  BY <1>6, EventsKept DEF ND_RegisterThyself, MayCall
<1>27. ASSUME NEW f \in Frames, SetElsewhere(f) PROVE Events'
  BY <1>27, EventsKept DEF SetElsewhere, MayCall
<1>28. ASSUME NEW f \in Frames, NotSent(f) PROVE Events'
  BY <1>28, EventsKept DEF NotSent, MayCall
<1>7. CASE CopyMask
  <2>1. UNCHANGED <<ceq, ceqHead, ceqTail, ce>> /\ hpc' = "push" /\ hpc # "idle"
    BY <1>7 DEF CopyMask
  <2> QED
    BY <2>1, PendingKept DEF Events, Placed
<1>8. CASE StoreEvent
  <2>1. UNCHANGED <<ceqHead, ceqTail, ce>> /\ hpc = "push" /\ hpc' = "publish"
        /\ ceq' = [ceq EXCEPT ![ceqHead] = ce] /\ NextSlot(ceqHead) # ceqTail
    BY <1>8 DEF StoreEvent, Full
  <2>2. ceq'[ceqHead] = ce /\ \A i \in Slots : i # ceqHead => ceq'[i] = ceq[i]
    BY <2>1 DEF Typed, RingTyped
  <2>3. \A i \in Slots : Placed(ceq'[i]) /\ (Pending(i)' => ceq'[i].what # "none")
    BY <2>1, <2>2, PendingKept DEF Events
  <2> QED
    BY <2>1, <2>2, <2>3 DEF Events, Placed
<1>9. CASE Publish
  <2>1. UNCHANGED <<ceqTail, ceq>> /\ hpc = "publish" /\ hpc' = "idle" /\ ce' = NoEvent
        /\ ceqHead' = NextSlot(ceqHead) /\ NextSlot(ceqHead) # ceqTail
    BY <1>9 DEF Publish, Events
  <2>2. \A i \in Slots : Pending(i)' => ceq[i].what # "none"
    BY <2>1, HeadPasses DEF Events, Typed
  <2> QED
    BY <2>1, <2>2 DEF Events, Placed, NoEvent
<1>10. CASE DropEvent
  <2>1. UNCHANGED <<ceq, ceqHead, ceqTail>> /\ hpc' = "idle" /\ ce' = NoEvent
    BY <1>10 DEF DropEvent, ring
  <2> QED
    BY <2>1, PendingKept DEF Events, Placed, NoEvent
<1>11. CASE TakeCursor
  BY <1>11, EventsKept DEF TakeCursor, Send
<1>12. CASE NDRemoveCursor
  BY <1>12, EventsKept DEF NDRemoveCursor, Send
<1>13. CASE NDSetCursor
  BY <1>13, EventsKept DEF NDSetCursor, Send
<1>14. ASSUME NEW p \in Places, Draw(p) PROVE Events'
  BY <1>14, EventsKept DEF Draw, Send
<1>15. CASE NDDisplayCursor
  BY <1>15, EventsKept DEF NDDisplayCursor, Send
<1>16. CASE LeaveCursor
  BY <1>16, EventsKept DEF LeaveCursor, Send
<1>17. CASE CursorTask
  BY <1>17, EventsKept DEF CursorTask
<1>18. CASE RetraceEvent
  <2>1. UNCHANGED <<ceqHead, ceq, hpc, ce>> /\ ceqTail' = NextSlot(ceqTail) /\ ceqTail # ceqHead
        /\ (hpc = "publish" => ceqTail' # NextSlot(ceqHead))
    <3>1. UNCHANGED <<ceqHead, ceq, hpc, ce>> /\ ceqTail' = NextSlot(ceqTail) /\ ceqTail # ceqHead
      BY <1>18 DEF RetraceEvent, Flush, host, Typed, BoardTyped
    <3>2. ceqTail' # NextSlot(ceqHead)
      BY <3>1, NextSlotInjective DEF Typed, RingTyped
    <3> QED
      BY <3>1, <3>2
  <2>2. \A i \in Slots : Pending(i)' => Pending(i)
    BY <2>1, TailPasses DEF Typed
  <2> QED
    BY <2>1, <2>2 DEF Events, Placed
<1>19. CASE ServeDraw
  BY <1>19, EventsKept DEF ServeDraw, Serving, Return
<1>20. CASE FlushCEQ
  BY <1>20, EventsKept DEF FlushCEQ, Serving, EnterFlush
<1>21. CASE FlushEvent
  BY <1>21, EventsKept DEF FlushEvent, Emptied
<1>22. CASE FlushAdvance
  <2>1. UNCHANGED <<ceqHead, ceq, hpc, ce>> /\ ceqTail' = NextSlot(ceqTail) /\ ceqTail # ceqHead
        /\ (hpc = "publish" => ceqTail' # NextSlot(ceqHead))
    <3>1. UNCHANGED <<ceqHead, ceq, hpc, ce>> /\ ceqTail' = NextSlot(ceqTail) /\ ceqTail # ceqHead
      BY <1>22 DEF FlushAdvance, Flushing, Flush, host, Typed, BoardTyped
    <3>2. ceqTail' # NextSlot(ceqHead)
      BY <3>1, NextSlotInjective DEF Typed, RingTyped
    <3> QED
      BY <3>1, <3>2
  <2>2. \A i \in Slots : Pending(i)' => Pending(i)
    BY <2>1, TailPasses DEF Typed
  <2> QED
    BY <2>1, <2>2 DEF Events, Placed
<1>23. CASE Flushed
  BY <1>23, EventsKept DEF Flushed, Serving, Return, LeaveFlush, Emptied
<1>24. CASE HandlerRemoves
  BY <1>24, EventsKept DEF HandlerRemoves, Serving, Return
<1>25. CASE HandlerDisplays
  BY <1>25, EventsKept DEF HandlerDisplays, Serving, Return
<1>26. CASE HandlerSets
  BY SMTT(30), <1>26, EventsKept DEF HandlerSets, Serving, Return
<1> QED
  BY <1>1, <1>2, <1>3, <1>4, <1>5, <1>6, <1>7, <1>8, <1>9, <1>10, <1>11, <1>12, <1>13, <1>14, <1>15, <1>16, <1>17, <1>18, <1>19, <1>20, <1>21, <1>22, <1>23, <1>24, <1>25, <1>26, <1>27, <1>28
     DEF CursorNext, HostCalls, HostRuns, WindowServer, Retrace, ServerRuns

\* nd.c sends whole requests only.
LEMMA RequestsStep ==
  ASSUME Typed, Turn, Flush, Events, Requests, SyncFirst, SyncLast, [CursorNext]_cursorVars
  PROVE  Requests'
<1> USE BoundsAreNatural, FirstIs DEF Typed, RingTyped, HostTyped, WindowTyped, BoardTyped, ring, host, window, service, pixels, hist, Requests, Say, Turn
<1>1. CASE UNCHANGED cursorVars
  BY <1>1 DEF cursorVars
<1>2. ASSUME NEW p \in Places, NEW f \in Showable, ND_MoveCursor(p, f) PROVE Requests'
  BY <1>2 DEF ND_MoveCursor, MayCall, Push
<1>3. ASSUME NEW p \in Places, NEW f \in Showable, ND_DisplayCursor(p, f) PROVE Requests'
  BY <1>3 DEF ND_DisplayCursor, MayCall, Push
<1>4. CASE ND_RemoveCursor
  BY <1>4 DEF ND_RemoveCursor, MayCall, Push
<1>5. ASSUME NEW f \in Frames, ND_SetCursor(f) PROVE Requests'
  BY <1>5 DEF ND_SetCursor, MayCall
<1>6. CASE ND_RegisterThyself
  BY <1>6 DEF ND_RegisterThyself, MayCall
<1>27. ASSUME NEW f \in Frames, SetElsewhere(f) PROVE Requests'
  BY <1>27 DEF SetElsewhere, MayCall
<1>28. ASSUME NEW f \in Frames, NotSent(f) PROVE Requests'
  BY <1>28 DEF NotSent, MayCall
<1>7. CASE CopyMask
  BY <1>7 DEF CopyMask
<1>8. CASE StoreEvent
  BY <1>8 DEF StoreEvent
<1>9. CASE Publish
  BY <1>9 DEF Publish
<1>10. CASE DropEvent
  BY <1>10 DEF DropEvent
<1>11. CASE TakeCursor
  BY <1>11, TakeCursorSends DEF TakeCursor, Send, Say, Longer
<1>12. CASE NDRemoveCursor
  BY <1>12, NDRemoveCursorSends DEF NDRemoveCursor, Send, Say, Longer
<1>13. CASE NDSetCursor
  BY <1>13, NDSetCursorSends DEF NDSetCursor, Send, Say, Longer
<1>14. ASSUME NEW p \in Places, Draw(p) PROVE Requests'
  BY <1>14, DrawSends DEF Draw, Send, Say, Places, Longer
<1>15. CASE NDDisplayCursor
  BY <1>15, NDDisplayCursorSends DEF NDDisplayCursor, Send, Say, Where, Longer
<1>16. CASE LeaveCursor
  BY <1>16, LeaveCursorSends DEF LeaveCursor, Send, Say, Longer
<1>17. CASE CursorTask
  BY <1>17 DEF CursorTask
<1>18. CASE RetraceEvent
  BY <1>18 DEF RetraceEvent
<1>19. CASE ServeDraw
  BY <1>19, TakenIs, FirstIs DEF ServeDraw, Serving, Return, Shorter
<1>20. CASE FlushCEQ
  BY <1>20 DEF FlushCEQ, Serving, EnterFlush
<1>21. CASE FlushEvent
  BY <1>21 DEF FlushEvent, Emptied
<1>22. CASE FlushAdvance
  BY <1>22 DEF FlushAdvance
<1>23. CASE Flushed
  <2>1. CASE Serving({"sync_a", "sync"})
    <3>1. Shorter
      BY <1>23, <2>1, TakenIs DEF Flushed, Serving, Return
    <3> QED
      BY <3>1 DEF Shorter
  <2>2. CASE ~Serving({"sync_a", "sync"})
    BY <1>23, <2>2 DEF Flushed
  <2> QED
    BY <2>1, <2>2
<1>24. CASE HandlerRemoves
  BY <1>24, TakenIs, FirstIs DEF HandlerRemoves, Serving, Return, Shorter
<1>25. CASE HandlerDisplays
  BY <1>25, TakenIs, FirstIs DEF HandlerDisplays, Serving, Return, Shorter
<1>26. CASE HandlerSets
  <2>1. CASE spc = "done"
    BY <1>26, <2>1 DEF HandlerSets
  <2>2. CASE spc = "mask"
    <3>1. Shorter
      BY <1>26, <2>2, TakenIs DEF HandlerSets, Serving, Return
    <3> QED
      BY <3>1 DEF Shorter
  <2> QED
    BY <1>26, <2>1, <2>2 DEF HandlerSets
<1> QED
  BY <1>1, <1>2, <1>3, <1>4, <1>5, <1>6, <1>7, <1>8, <1>9, <1>10, <1>11, <1>12, <1>13, <1>14, <1>15, <1>16, <1>17, <1>18, <1>19, <1>20, <1>21, <1>22, <1>23, <1>24, <1>25, <1>26, <1>27, <1>28
     DEF CursorNext, HostCalls, HostRuns, WindowServer, Retrace, ServerRuns

\* NDSyncCursor empties the ring before any other request of a turn is served.
LEMMA TurnStep ==
  ASSUME Typed, Turn, Flush, Events, Requests, SyncFirst, SyncLast, [CursorNext]_cursorVars
  PROVE  Turn'
<1> USE FirstIs DEF Typed, RingTyped, HostTyped, WindowTyped, BoardTyped, ring, host, window, service, pixels, hist, Turn, Flush, Flushing, RingFirst, Say
<1>1. CASE UNCHANGED cursorVars
  BY <1>1 DEF cursorVars
<1>2. ASSUME NEW p \in Places, NEW f \in Showable, ND_MoveCursor(p, f) PROVE Turn'
  BY <1>2 DEF ND_MoveCursor, MayCall, Push
<1>3. ASSUME NEW p \in Places, NEW f \in Showable, ND_DisplayCursor(p, f) PROVE Turn'
  BY <1>3 DEF ND_DisplayCursor, MayCall, Push
<1>4. CASE ND_RemoveCursor
  BY <1>4 DEF ND_RemoveCursor, MayCall, Push
<1>5. ASSUME NEW f \in Frames, ND_SetCursor(f) PROVE Turn'
  BY <1>5 DEF ND_SetCursor, MayCall
<1>6. CASE ND_RegisterThyself
  BY <1>6 DEF ND_RegisterThyself, MayCall
<1>27. ASSUME NEW f \in Frames, SetElsewhere(f) PROVE Turn'
  BY <1>27 DEF SetElsewhere, MayCall
<1>28. ASSUME NEW f \in Frames, NotSent(f) PROVE Turn'
  BY <1>28 DEF NotSent, MayCall
<1>7. CASE CopyMask
  BY <1>7 DEF CopyMask
<1>8. CASE StoreEvent
  BY <1>8 DEF StoreEvent
<1>9. CASE Publish
  BY <1>9 DEF Publish
<1>10. CASE DropEvent
  BY <1>10 DEF DropEvent
<1>11. CASE TakeCursor
  BY <1>11, TakeCursorSends DEF TakeCursor, Send, Say, Longer
<1>12. CASE NDRemoveCursor
  BY SMTT(30), <1>12, NDRemoveCursorSends DEF NDRemoveCursor, Send, Say, Longer
<1>13. CASE NDSetCursor
  BY SMTT(30), <1>13, NDSetCursorSends DEF NDSetCursor, Send, Say, Longer
<1>14. ASSUME NEW p \in Places, Draw(p) PROVE Turn'
  BY SMTT(30), <1>14, DrawSends DEF Draw, Send, Say, Longer
<1>15. CASE NDDisplayCursor
  BY SMTT(30), <1>15, NDDisplayCursorSends DEF NDDisplayCursor, Send, Say, Longer
<1>16. CASE LeaveCursor
  BY <1>16, LeaveCursorSends DEF LeaveCursor, Send, Say, Longer
<1>17. CASE CursorTask
  BY <1>17 DEF CursorTask
<1>18. CASE RetraceEvent
  BY <1>18 DEF RetraceEvent
<1>19. CASE ServeDraw
  BY <1>19, TakenIs, FirstIs DEF ServeDraw, Serving, Return, Shorter
<1>20. CASE FlushCEQ
  BY <1>20 DEF FlushCEQ, Serving, EnterFlush
<1>21. CASE FlushEvent
  BY <1>21 DEF FlushEvent, Emptied
<1>22. CASE FlushAdvance
  BY <1>22 DEF FlushAdvance
<1>23. CASE Flushed
  <2>0. UNCHANGED <<ring, host, turns, draws, inRetrace>> /\ ceqHead = ceqTail /\ ~inRetrace
        /\ Flushing /\ msgs # <<>> /\ wpc # "free"
    BY <1>23 DEF Flushed, Emptied
  <2>1. CASE Head(msgs).op = "sync"
    <3>1. Shorter /\ spc' = "receive" /\ wpc' = "free" /\ wpc = "wait"
      BY <1>23, <2>0, <2>1, TakenIs DEF Flushed, Serving, Return
    <3>2. Len(msgs) = 1
      BY <2>0, <2>1, SyncIsLast
    <3>3. msgs' = <<>>
      BY <3>1, <3>2, EmptySeq DEF Shorter
    <3> QED
      BY <2>0, <3>1, <3>3
  <2>2. CASE Head(msgs).op = "sync_a"
    <3>1. Shorter /\ spc' = "receive" /\ wpc' = wpc
      BY <1>23, <2>0, <2>2, TakenIs DEF Flushed, Serving, Return
    <3>2. /\ \A i \in 2..Len(msgs') : msgs'[i].op # "sync_a"
          /\ \A i \in 1..Len(msgs') : msgs'[i].op = "sync" => wpc = "wait" /\ i = Len(msgs')
      BY <3>1, RestOfTurn
    <3> QED
      BY <2>0, <3>1, <3>2
  <2>3. CASE Head(msgs).op \notin {"sync", "sync_a"}
    <3>1. msgs' = msgs /\ spc' = "done" /\ wpc' = wpc
      BY <1>23, <2>0, <2>3 DEF Flushed, Serving
    <3> QED
      BY <2>0, <3>1
  <2> QED
    BY <2>1, <2>2, <2>3
<1>24. CASE HandlerRemoves
  BY <1>24, TakenIs, FirstIs DEF HandlerRemoves, Serving, Return, Shorter
<1>25. CASE HandlerDisplays
  BY <1>25, TakenIs, FirstIs DEF HandlerDisplays, Serving, Return, Shorter
<1>26. CASE HandlerSets
  <2>0. UNCHANGED <<ring, host, window, inRetrace>> /\ Head(msgs).op = "set"
    BY <1>26 DEF HandlerSets, Serving
  <2>1. CASE spc = "done"
    BY <1>26, <2>0, <2>1 DEF HandlerSets
  <2>2. CASE spc = "mask"
    <3>1. Shorter /\ spc' = "receive" /\ wpc # "free"
      BY <1>26, <2>0, <2>2, TakenIs DEF HandlerSets, Serving, Return
    <3>2. /\ \A i \in 2..Len(msgs') : msgs'[i].op # "sync_a"
          /\ \A i \in 1..Len(msgs') : msgs'[i].op = "sync" => wpc = "wait" /\ i = Len(msgs')
      BY <3>1, RestOfTurn
    <3>3. Head(msgs).op # "sync_a" /\ ceqHead = ceqTail
      BY <2>0, <3>1
    <3> QED
      BY <2>0, <3>1, <3>2, <3>3
  <2> QED
    BY <1>26, <2>1, <2>2 DEF HandlerSets
<1> QED
  BY <1>1, <1>2, <1>3, <1>4, <1>5, <1>6, <1>7, <1>8, <1>9, <1>10, <1>11, <1>12, <1>13, <1>14, <1>15, <1>16, <1>17, <1>18, <1>19, <1>20, <1>21, <1>22, <1>23, <1>24, <1>25, <1>26, <1>27, <1>28
     DEF CursorNext, HostCalls, HostRuns, WindowServer, Retrace, ServerRuns

\* Where the cursor is after event e, if it was at c before (0: nowhere), and
\* whether e may be carried out then; the same for the requests.
After(e, c) == CASE e.what \in {"move", "display"} -> e.place
                 [] e.what = "remove" -> 0
                 [] OTHER -> c
Legal(e, c) == /\ e.what \in {"move", "remove"} => c # 0
               /\ e.what = "display" => c = 0
AfterMsg(m, c) == CASE m.op = "display" -> m.place
                    [] m.op = "remove" -> 0
                    [] OTHER -> c
LegalMsg(m, c) == /\ m.op = "remove" => c # 0
                  /\ m.op = "display" => c = 0
                  /\ m.op = "draw" => m.place # c

\* Carried out in order, the events that are left take the cursor from c to d,
\* and each finds it where it may be carried out.
RingLeads(c, d) == \E loc \in [Slots -> Where] :
    /\ loc[Now] = c /\ loc[ceqHead] = d
    /\ \A i \in Slots : Undone(i) => /\ Legal(ceq[i], loc[i])
                                     /\ loc[NextSlot(i)] = After(ceq[i], loc[i])

\* So do the requests.
MsgsLead(c, d) == \E loc \in [1..Len(msgs)+1 -> Where] :
    /\ loc[1] = c /\ loc[Len(msgs)+1] = d
    /\ \A i \in 1..Len(msgs) : /\ LegalMsg(msgs[i], loc[i])
                               /\ loc[i+1] = AfterMsg(msgs[i], loc[i])

\* The host knows the place the ring will leave the cursor at, when the event
\* it is pushing has gone in too.
Believed(d) == IF hpc = "idle" THEN d = shown ELSE Legal(ce, d) /\ After(ce, d) = shown

\* Where the window server expects it when its requests have been served.
Expected == IF wpc = "bare" THEN 0 ELSE shown

\* Every place shows what was drawn there last.
Inked == \A p \in Places : screen[p].ink = ink[p]

\* The cursor is at c and nowhere else, and what it covers has been saved.
ScreenAt(c) == /\ \A p \in Places : screen[p].cur # {} <=> p = c
               /\ c # 0 => nd_saveRect = c /\ nd_saveData = [ink |-> ink[c], cur |-> {}]

\* From the place where the cursor is, all that is under way is legal and ends
\* where host and window server believe it to be.
Leads(c) == /\ RingFirst => /\ \E d \in Where : RingLeads(c, d) /\ Believed(d)
                             /\ MsgsLead(shown, Expected)
            /\ ~RingFirst => MsgsLead(c, Expected)
Path == \E c \in Where : ScreenAt(c) /\ Leads(c)

\* As long as ND_PushCEQ has dropped nothing.
PathInv == ~dropped => Inked /\ Path

\* Where the cursor can be.
LEMMA AfterRange ==
  ASSUME NEW e \in Event, NEW c \in Where
  PROVE  After(e, c) \in Where
BY BoundsAreNatural DEF Event, After, Where

LEMMA AfterMsgRange ==
  ASSUME NEW m \in CursorRequest, NEW c \in Where
  PROVE  AfterMsg(m, c) \in Where
BY BoundsAreNatural DEF CursorRequest, AfterMsg, Where

LEMMA NowRange ==
  ASSUME RingTyped
  PROVE  Now \in Slots
BY NextSlotRange DEF RingTyped, Now

\* The path through the ring: kept, an event carried out, an event published.
LEMMA RingLeadsKept ==
  ASSUME RingTyped, NEW c \in Where, NEW d \in Where, RingLeads(c, d),
         Now' = Now, ceqHead' = ceqHead,
         \A i \in Slots : Undone(i)' => Undone(i) /\ ceq'[i] = ceq[i]
  PROVE  RingLeads(c, d)'
<1>1. PICK loc \in [Slots -> Where] :
        /\ loc[Now] = c /\ loc[ceqHead] = d
        /\ \A i \in Slots : Undone(i) => /\ Legal(ceq[i], loc[i])
                                         /\ loc[NextSlot(i)] = After(ceq[i], loc[i])
  BY DEF RingLeads
<1>2. \A i \in Slots : Undone(i)' => /\ Legal(ceq'[i], loc[i])
                                     /\ loc[NextSlot(i)] = After(ceq'[i], loc[i])
  BY <1>1
<1>3. loc[Now'] = c /\ loc[ceqHead'] = d
  BY <1>1
<1> QED
  BY <1>2, <1>3 DEF RingLeads

LEMMA RingLeadsShrinks ==
  ASSUME RingTyped, NEW c \in Where, NEW d \in Where, RingLeads(c, d),
         Now = ceqTail, Undone(ceqTail), Now' = NextSlot(ceqTail),
         UNCHANGED <<ceq, ceqHead>>,
         \A i \in Slots : Undone(i)' => Undone(i),
         NEW e, e = After(ceq[ceqTail], c)
  PROVE  Legal(ceq[ceqTail], c) /\ RingLeads(e, d)'
<1>1. PICK loc \in [Slots -> Where] :
        /\ loc[Now] = c /\ loc[ceqHead] = d
        /\ \A i \in Slots : Undone(i) => /\ Legal(ceq[i], loc[i])
                                         /\ loc[NextSlot(i)] = After(ceq[i], loc[i])
  BY DEF RingLeads
<1>2. \A i \in Slots : Undone(i)' => /\ Legal(ceq'[i], loc[i])
                                     /\ loc[NextSlot(i)] = After(ceq'[i], loc[i])
  BY <1>1
<1>3. ceqTail \in Slots
  BY DEF RingTyped
<1>4. /\ Legal(ceq[ceqTail], c)
      /\ loc[Now'] = e /\ loc[ceqHead'] = d
  BY <1>1, <1>3
<1> QED
  BY <1>2, <1>4 DEF RingLeads

LEMMA RingLeadsGrows ==
  ASSUME RingTyped, ce \in Event, NEW c \in Where, NEW d \in Where, RingLeads(c, d), Legal(ce, d),
         spc # "advance", UNCHANGED <<ceq, ceqTail, spc>>,
         ceq[ceqHead] = ce, NextSlot(ceqHead) # ceqTail, ceqHead' = NextSlot(ceqHead),
         NEW e, e = After(ce, d)
  PROVE  RingLeads(c, e)'
<1>1. PICK loc \in [Slots -> Where] :
        /\ loc[Now] = c /\ loc[ceqHead] = d
        /\ \A i \in Slots : Undone(i) => /\ Legal(ceq[i], loc[i])
                                         /\ loc[NextSlot(i)] = After(ceq[i], loc[i])
  BY DEF RingLeads
<1>2. ceqHead \in Slots /\ ceqTail \in Slots /\ ceqHead' \in Slots /\ ceqHead' # ceqHead
  BY NextSlotRange DEF RingTyped
<1> DEFINE new == [loc EXCEPT ![ceqHead'] = e]
<1>3. new \in [Slots -> Where] /\ new[ceqHead'] = e /\ \A i \in Slots : i # ceqHead' => new[i] = loc[i]
  BY <1>2, AfterRange
<1>4. Now = ceqTail /\ Now' = ceqTail
  BY DEF Now
<1>5. new[Now'] = c
  BY <1>1, <1>2, <1>3, <1>4
<1>6. ASSUME NEW i \in Slots, Undone(i)'
      PROVE  Legal(ceq'[i], new[i]) /\ new[NextSlot(i)] = After(ceq'[i], new[i])
  <2>1. Pending(i) \/ i = ceqHead
    BY <1>6, HeadPasses DEF Undone
  <2>2. CASE i = ceqHead
    BY <1>1, <1>2, <1>3, <2>2
  <2>3. CASE Pending(i) /\ i # ceqHead
    <3>1. i # ceqHead' /\ NextSlot(i) \in Slots /\ NextSlot(i) # ceqHead'
      BY <1>2, <2>3, PendingIs, NextSlotInjective, NextSlotRange
    <3>2. Undone(i)
      BY <2>3 DEF Undone
    <3> QED
      BY <1>1, <1>3, <3>1, <3>2
  <2> QED
    BY <2>1, <2>2, <2>3
<1> QED
  BY <1>3, <1>5, <1>6 DEF RingLeads

LEMMA EmptyRingLeads ==
  ASSUME RingTyped, ceqTail = ceqHead, spc # "advance", NEW c \in Where, NEW d \in Where
  PROVE  RingLeads(c, d) <=> c = d
<1>1. Now = ceqHead /\ \A i \in Slots : ~Undone(i)
  BY PendingIs DEF Now, Undone
<1>2. RingLeads(c, d) => c = d
  BY <1>1 DEF RingLeads
<1>3. ASSUME c = d
      PROVE  RingLeads(c, d)
  <2>1. [i \in Slots |-> c] \in [Slots -> Where] /\ [i \in Slots |-> c][ceqHead] = c
    BY DEF RingTyped
  <2> QED
    BY <1>1, <1>3, <2>1 DEF RingLeads
<1> QED
  BY <1>2, <1>3

\* The same for the requests.
LEMMA MsgsLeadKept ==
  ASSUME NEW c \in Where, NEW d \in Where, MsgsLead(c, d), msgs' = msgs
  PROVE  MsgsLead(c, d)'
BY DEF MsgsLead

LEMMA NoMsgsLead ==
  ASSUME msgs = <<>>, NEW c \in Where, NEW d \in Where
  PROVE  MsgsLead(c, d) <=> c = d
<1>1. Len(msgs) = 0
  BY EmptySeq
<1>2. MsgsLead(c, d) => c = d
  BY <1>1 DEF MsgsLead
<1>3. ASSUME c = d
      PROVE  MsgsLead(c, d)
  <2> DEFINE loc == [i \in 1..Len(msgs) + 1 |-> c]
  <2>1. loc \in [1..Len(msgs) + 1 -> Where] /\ loc[1] = c /\ loc[Len(msgs) + 1] = d
    BY <1>1, <1>3
  <2>2. 1..Len(msgs) = {}
    BY <1>1
  <2> QED
    BY <2>1, <2>2 DEF MsgsLead
<1> QED
  BY <1>2, <1>3

LEMMA MsgsLeadGrows ==
  ASSUME NEW c \in Where, NEW d \in Where, MsgsLead(c, d), NEW r \in CursorRequest, Longer(r),
         LegalMsg(r, d), NEW e, e = AfterMsg(r, d)
  PROVE  MsgsLead(c, e)'
<1> DEFINE n == Len(msgs)
<1>1. PICK loc \in [1..n + 1 -> Where] :
        /\ loc[1] = c /\ loc[n + 1] = d
        /\ \A i \in 1..n : LegalMsg(msgs[i], loc[i]) /\ loc[i + 1] = AfterMsg(msgs[i], loc[i])
  BY DEF MsgsLead
<1>2. n \in Nat /\ Len(msgs') = n + 1 /\ msgs'[n + 1] = r /\ \A i \in 1..n : msgs'[i] = msgs[i]
  BY DEF Longer
<1> DEFINE new == [i \in 1..n + 2 |-> IF i = n + 2 THEN e ELSE loc[i]]
<1> HIDE DEF n
<1>3. new \in [1..n + 2 -> Where] /\ new[n + 2] = e /\ \A i \in 1..n + 1 : new[i] = loc[i]
  BY <1>1, <1>2, AfterMsgRange
<1>4. ASSUME NEW i \in 1..n + 1
      PROVE  LegalMsg(msgs'[i], new[i]) /\ new[i + 1] = AfterMsg(msgs'[i], new[i])
  <2>1. CASE i = n + 1
    <3>1. i + 1 = n + 2 /\ new[i] = d
      BY <1>1, <1>2, <1>3, <2>1
    <3> QED
      BY <1>2, <1>3, <2>1, <3>1
  <2>2. CASE i \in 1..n
    <3>1. i + 1 \in 1..n + 1
      BY <1>2, <2>2
    <3> QED
      BY <1>1, <1>2, <1>3, <2>2, <3>1
  <2> QED
    BY <1>2, <2>1, <2>2
<1>5. new[1] = c
  BY <1>1, <1>2, <1>3
<1>6. Len(msgs') + 1 = n + 2
  BY <1>2
<1> HIDE DEF new
<1> QED
  BY SMTT(30), <1>2, <1>3, <1>4, <1>5, <1>6 DEF MsgsLead

LEMMA MsgsLeadShrinks ==
  ASSUME NEW c \in Where, NEW d \in Where, MsgsLead(c, d), WindowTyped, msgs # <<>>, Shorter,
         NEW e, e = AfterMsg(Head(msgs), c)
  PROVE  LegalMsg(Head(msgs), c) /\ MsgsLead(e, d)'
<1> DEFINE n == Len(msgs')
<1>0. n \in Nat /\ Len(msgs) = n + 1 /\ \A i \in 1..n : msgs'[i] = msgs[i + 1]
  BY FirstIs, LenProperties DEF Shorter
<1>1. PICK loc \in [1..n + 2 -> Where] :
        /\ loc[1] = c /\ loc[n + 2] = d
        /\ \A i \in 1..n + 1 : LegalMsg(msgs[i], loc[i]) /\ loc[i + 1] = AfterMsg(msgs[i], loc[i])
  BY <1>0 DEF MsgsLead
<1> HIDE DEF n
<1>2. Head(msgs) = msgs[1] /\ 1 \in 1..n + 1 /\ 1 + 1 = 2
  BY <1>0, FirstIs
<1> DEFINE new == [i \in 1..n + 1 |-> loc[i + 1]]
<1>3. /\ new \in [1..n + 1 -> Where] /\ new[n + 1] = d
      /\ \A i \in 1..n + 1 : new[i] = loc[i + 1]
  <2>1. \A i \in 1..n + 1 : i + 1 \in 1..n + 2
    BY <1>0
  <2>2. n + 1 \in 1..n + 1 /\ n + 1 + 1 = n + 2
    BY <1>0
  <2> QED
    BY <1>1, <2>1, <2>2
<1>4. LegalMsg(Head(msgs), c) /\ loc[2] = e
  BY <1>1, <1>2
<1>5. new[1] = e
  BY <1>2, <1>3, <1>4
<1>6. ASSUME NEW i \in 1..n
      PROVE  LegalMsg(msgs'[i], new[i]) /\ new[i + 1] = AfterMsg(msgs'[i], new[i])
  <2>1. i + 1 \in 1..n + 1 /\ i \in 1..n + 1
    BY <1>0
  <2> QED
    BY <1>0, <1>1, <1>3, <2>1
<1> HIDE DEF new
<1> QED
  BY <1>0, <1>3, <1>4, <1>5, <1>6 DEF MsgsLead, n

\* Steps that do not touch the ring.
LEMMA RingKept ==
  ASSUME RingTyped, NEW c \in Where, NEW d \in Where, RingLeads(c, d),
         UNCHANGED <<ceq, ceqHead, ceqTail>>, (spc' = "advance") <=> (spc = "advance")
  PROVE  RingLeads(c, d)'
<1>1. Now' = Now /\ \A i \in Slots : Undone(i)' <=> Undone(i)
  BY PendingKept DEF Now, Undone, NextSlot
<1> QED
  BY <1>1, RingLeadsKept

LEMMA NoMsgsLeft ==
  ASSUME msgs' = <<>>, NEW c \in Where
  PROVE  MsgsLead(c, c)'
<1> DEFINE loc == [i \in 1..Len(msgs') + 1 |-> c]
<1>1. Len(msgs') = 0
  BY EmptySeq
<1>2. loc \in [1..Len(msgs') + 1 -> Where] /\ loc[1] = c /\ loc[Len(msgs') + 1] = c
  BY <1>1
<1>3. 1..Len(msgs') = {}
  BY <1>1
<1> QED
  BY <1>2, <1>3 DEF MsgsLead

\* A screen without a cursor.
Bare(s) == s \in [Places -> Pixel] /\ \A p \in Places : s[p] = [ink |-> ink[p], cur |-> {}]

\* The pixels: where the cursor is after it is displayed, removed, moved or drawn
\* beside.
LEMMA BareIs ==
  ASSUME PixelsTyped, Inked, NEW s \in [Places -> Pixel],
         \A p \in Places : s[p].ink = ink[p] /\ s[p].cur = {}
  PROVE  Bare(s)
BY DEF Bare, Pixel

LEMMA PlaceIs ==
  /\ 0 \in Where /\ 0 \notin Places
  /\ \A c \in Where : c # 0 => c \in Places
  /\ Places \subseteq Where
BY BoundsAreNatural DEF Where, Places

LEMMA EmptyScreenBare ==
  ASSUME PixelsTyped, Inked, ScreenAt(0)
  PROVE  Bare(screen)
BY BareIs, PlaceIs DEF ScreenAt, Inked, PixelsTyped

LEMMA RestoredBare ==
  ASSUME PixelsTyped, Inked, NEW c \in Where, c # 0, ScreenAt(c)
  PROVE  Bare(Restored)
<1>1. Restored = [screen EXCEPT ![c] = [ink |-> ink[c], cur |-> {}]] /\ c \in Places
  BY PlaceIs DEF ScreenAt, Restored
<1>2. \A p \in Places : Restored[p].ink = ink[p] /\ Restored[p].cur = {}
  BY <1>1 DEF ScreenAt, Inked, PixelsTyped
<1> QED
  BY <1>2, BareIs, RestoredTyped

LEMMA DisplayPlaces ==
  ASSUME PixelsTyped, NEW s, Bare(s), NEW p \in Places, NEW f \in Frames,
         nd_saveRect' = p, nd_saveData' = s[p], screen' = Over(s, p, f), ink' = ink
  PROVE  ScreenAt(p)' /\ Inked'
<1> DEFINE im == nd_cursorData[f]
<1>1. screen' \in [Places -> Pixel] /\ screen'[p] = [ink |-> ink[p], cur |-> {im}]
      /\ \A q \in Places : q # p => screen'[q] = [ink |-> ink[q], cur |-> {}]
  <2>1. screen' \in [Places -> Pixel]
    BY OverTyped DEF Bare
  <2>2. s[p] = [ink |-> ink[p], cur |-> {}] /\ \A q \in Places : s[q] = [ink |-> ink[q], cur |-> {}]
    BY DEF Bare
  <2>3. [s[p] EXCEPT !.cur = {im}] = [ink |-> ink[p], cur |-> {im}]
    BY <2>2
  <2>4. screen' = [s EXCEPT ![p] = [s[p] EXCEPT !.cur = {im}]]
    BY DEF Over
  <2>5. screen' = [s EXCEPT ![p] = [ink |-> ink[p], cur |-> {im}]] /\ s \in [Places -> Pixel]
    BY <2>3, <2>4 DEF Bare
  <2> QED
    BY <2>1, <2>2, <2>5
<1>2. p # 0
  BY PlaceIs
<1>3. \A q \in Places : screen'[q].ink = ink[q] /\ (screen'[q].cur # {} <=> q = p)
  BY <1>1
<1>4. nd_saveData' = [ink |-> ink[p], cur |-> {}]
  BY DEF Bare
<1> QED
  BY <1>2, <1>3, <1>4 DEF ScreenAt, Inked

LEMMA RemovePlaces ==
  ASSUME PixelsTyped, Inked, NEW c \in Where, c # 0, ScreenAt(c), screen' = Restored, ink' = ink
  PROVE  ScreenAt(0)' /\ Inked'
<1>1. Bare(Restored)
  BY RestoredBare
<1>2. \A p \in Places : screen'[p].ink = ink[p] /\ screen'[p].cur = {}
  BY <1>1 DEF Bare
<1> QED
  BY <1>2, PlaceIs DEF ScreenAt, Inked

LEMMA PixelsKept ==
  ASSUME NEW c, ScreenAt(c), Inked, UNCHANGED <<nd_saveRect, nd_saveData, screen, ink>>
  PROVE  ScreenAt(c)' /\ Inked'
BY DEF ScreenAt, Inked

LEMMA ExecutePlaces ==
  ASSUME RingTyped, PixelsTyped, Inked, NEW c \in Where, ScreenAt(c), NEW e \in Event, Placed(e),
         Legal(e, c), Execute(e), ink' = ink, NEW d, d = After(e, c)
  PROVE  ScreenAt(d)' /\ Inked'
<1>0. /\ e.frame \in Frames
      /\ e.what \in {"move", "display"} => e.place \in Places
      /\ e.what \in {"none", "move", "display", "remove", "set"}
  BY BoundsAreNatural DEF Event, Placed, Places
<1>1. CASE e.what = "move"
  <2>1. /\ nd_saveRect' = e.place /\ nd_saveData' = Restored[e.place]
        /\ screen' = Over(Restored, e.place, e.frame)
    BY <1>1 DEF Execute, DisplayOn
  <2>2. Bare(Restored) /\ d = e.place
    BY <1>1, RestoredBare DEF Legal, After
  <2> QED
    BY <1>0, <1>1, <2>1, <2>2, DisplayPlaces
<1>2. CASE e.what = "display"
  <2>1. /\ nd_saveRect' = e.place /\ nd_saveData' = screen[e.place]
        /\ screen' = Over(screen, e.place, e.frame)
    BY <1>2 DEF Execute, DisplayOn
  <2>2. Bare(screen) /\ d = e.place
    BY <1>2, EmptyScreenBare DEF Legal, After
  <2> QED
    BY <1>0, <1>2, <2>1, <2>2, DisplayPlaces
<1>3. CASE e.what = "remove"
  <2>1. screen' = Restored
    BY <1>3 DEF Execute
  <2>2. c # 0 /\ d = 0
    BY <1>3 DEF Legal, After
  <2> QED
    BY <2>1, <2>2, RemovePlaces
<1>4. CASE e.what \in {"none", "set"}
  <2>1. UNCHANGED <<nd_saveRect, nd_saveData, screen>>
    BY <1>4 DEF Execute
  <2>2. d = c
    BY <1>4 DEF After
  <2> QED
    BY <2>1, <2>2, PixelsKept
<1> QED
  BY <1>0, <1>1, <1>2, <1>3, <1>4

LEMMA DrawPlaces ==
  ASSUME PixelsTyped, Inked, NEW c \in Where, ScreenAt(c), NEW p \in Places, p # c,
         NEW k, screen' = [screen EXCEPT ![p] = [ink |-> k, cur |-> {}]],
         ink' = [ink EXCEPT ![p] = k], UNCHANGED <<nd_saveRect, nd_saveData>>
  PROVE  ScreenAt(c)' /\ Inked'
<1>1. \A q \in Places : IF q = p THEN screen'[q] = [ink |-> k, cur |-> {}] /\ ink'[q] = k
                                 ELSE screen'[q] = screen[q] /\ ink'[q] = ink[q]
  BY DEF PixelsTyped
<1>2. \A q \in Places : screen'[q].ink = ink'[q] /\ (screen'[q].cur # {} <=> q = c)
  BY <1>1 DEF ScreenAt, Inked
<1>3. c # 0 => ink'[c] = ink[c]
  BY <1>1, PlaceIs
<1> QED
  BY <1>2, <1>3 DEF ScreenAt, Inked

\* A path from where the cursor is, when a request is sent or served.
LEMMA ExpectedRange ==
  ASSUME HostTyped
  PROVE  shown \in Where /\ Expected \in Where
BY PlaceIs DEF HostTyped, Expected

LEMMA LeadsKept ==
  ASSUME Typed, NEW c \in Where, Leads(c),
         UNCHANGED <<ceq, ceqHead, ceqTail, hpc, ce, shown, wpc, msgs>>,
         (spc' = "advance") <=> (spc = "advance")
  PROVE  Leads(c)'
<1>1. (RingFirst' <=> RingFirst) /\ Expected' = Expected /\ Expected \in Where /\ shown \in Where
      /\ \A d \in Where : Believed(d)' <=> Believed(d)
  BY ExpectedRange DEF RingFirst, Expected, Believed, Typed
<1>2. \A d \in Where : RingLeads(c, d) => RingLeads(c, d)'
  BY RingKept DEF Typed
<1>3. \A d, e \in Where : MsgsLead(d, e) => MsgsLead(d, e)'
  BY MsgsLeadKept
<1> QED
  BY <1>1, <1>2, <1>3 DEF Leads

LEMMA LeadsSent ==
  ASSUME Typed, NEW c \in Where, Leads(c), NEW r \in CursorRequest, Longer(r),
         LegalMsg(r, Expected), AfterMsg(r, Expected) = Expected', RingFirst' <=> RingFirst,
         UNCHANGED <<ceq, ceqHead, ceqTail, hpc, ce, shown, spc>>
  PROVE  Leads(c)'
<1>1. Expected \in Where /\ shown \in Where /\ \A d \in Where : Believed(d)' <=> Believed(d)
  BY ExpectedRange DEF Believed, Typed
<1>2. \A d \in Where : RingLeads(c, d) => RingLeads(c, d)'
  BY RingKept DEF Typed
<1>3. \A d \in Where : MsgsLead(d, Expected) => MsgsLead(d, Expected)'
  <2>1. SUFFICES ASSUME NEW d \in Where, NEW e \in Where, NEW g, e = Expected, g = Expected', MsgsLead(d, e)
                 PROVE  MsgsLead(d, g)'
    BY <1>1
  <2> QED
    BY <2>1, MsgsLeadGrows
<1> QED
  BY <1>1, <1>2, <1>3 DEF Leads

LEMMA LeadsServed ==
  ASSUME Typed, Turn, NEW c \in Where, Leads(c), ~RingFirst, msgs # <<>>, Shorter, wpc' = wpc, shown' = shown,
         NEW d, d = AfterMsg(Head(msgs), c)
  PROVE  LegalMsg(Head(msgs), c) /\ Leads(d)' /\ d \in Where
<1>1. MsgsLead(c, Expected) /\ Expected \in Where /\ Expected' = Expected
  BY ExpectedRange DEF Leads, Typed, Expected
<1>2. LegalMsg(Head(msgs), c) /\ MsgsLead(d, Expected)'
  <2>1. SUFFICES ASSUME NEW e \in Where, e = Expected, e = Expected', MsgsLead(c, e)
                 PROVE  LegalMsg(Head(msgs), c) /\ MsgsLead(d, e)'
    BY <1>1
  <2> QED
    BY <2>1, MsgsLeadShrinks DEF Typed
<1>3. ~RingFirst'
  <2>1. wpc # "free"
    BY DEF RingFirst
  <2>2. msgs' # <<>> => Head(msgs').op # "sync_a"
    <3>1. SUFFICES ASSUME msgs' # <<>>
                   PROVE  Head(msgs').op # "sync_a"
      OBVIOUS
    <3>2. Head(msgs') = msgs'[1] /\ Len(msgs') > 0 /\ Len(msgs') \in Nat
      BY <3>1, LenProperties DEF Shorter
    <3>3. 1 \in 1..Len(msgs')
      BY <3>2
    <3> QED
      BY <3>2, <3>3, RestOfTurn
  <2> QED
    BY <2>1, <2>2 DEF RingFirst
<1>4. d \in Where
  BY FirstIs, AfterMsgRange DEF Typed
<1> QED
  BY <1>2, <1>3, <1>4 DEF Leads

\* Every step leaves the cursor where the path goes on, and every place with what
\* was drawn there.
LEMMA PathStep ==
  ASSUME Typed, Turn, Flush, Events, Requests, SyncFirst, SyncLast, HostTyped', ~dropped',
         NEW c \in Where, ScreenAt(c), Leads(c), Inked, [CursorNext]_cursorVars
  PROVE  Inked' /\ Path'
<1>1. CASE UNCHANGED cursorVars
  <2>1. /\ UNCHANGED <<ceq, ceqHead, ceqTail, hpc, ce, shown, wpc, msgs>>
        /\ UNCHANGED <<nd_saveRect, nd_saveData, screen, ink>>
        /\ (spc' = "advance") <=> (spc = "advance")
    BY <1>1 DEF cursorVars, ring, host, window, service, pixels
  <2> QED
    BY <2>1, LeadsKept, PixelsKept DEF Path
<1>2. ASSUME NEW p \in Places, NEW f \in Showable, ND_MoveCursor(p, f) PROVE Inked' /\ Path'
  <2>1. /\ wpc = "free" /\ hpc = "idle" /\ wpc' = "free" /\ msgs' = <<>>
        /\ UNCHANGED <<ceq, ceqHead, ceqTail, spc, nd_saveRect, nd_saveData, screen, ink>>
        /\ hpc' # "idle" /\ Legal(ce', shown) /\ After(ce', shown) = shown'
    BY <1>2, PlaceIs DEF ND_MoveCursor, MayCall, Push, NoEvent, Turn, Legal, After, ring, window, service, pixels
  <2>2. RingLeads(c, shown) /\ shown \in Where /\ shown' \in Where
    BY <2>1 DEF RingFirst, Believed, Leads, HostTyped, Typed
  <2>3. PICK d \in Where : d = shown /\ RingLeads(c, d)
    BY <2>2
  <2>4. RingLeads(c, d)'
    BY <2>1, <2>3, RingKept DEF Typed
  <2>5. MsgsLead(shown, shown)'
    <3>1. PICK e \in Where : e = shown'
      BY <2>2
    <3> QED
      BY <2>1, <3>1, NoMsgsLeft
  <2>6. Leads(c)'
    BY <2>1, <2>3, <2>4, <2>5 DEF RingFirst, Believed, Expected, Leads
  <2> QED
    BY <2>1, <2>6, PixelsKept DEF Path
<1>3. ASSUME NEW p \in Places, NEW f \in Showable, ND_DisplayCursor(p, f) PROVE Inked' /\ Path'
  <2>1. /\ wpc = "free" /\ hpc = "idle" /\ wpc' = "free" /\ msgs' = <<>>
        /\ UNCHANGED <<ceq, ceqHead, ceqTail, spc, nd_saveRect, nd_saveData, screen, ink>>
        /\ hpc' # "idle" /\ Legal(ce', shown) /\ After(ce', shown) = shown'
    BY <1>3, PlaceIs DEF ND_DisplayCursor, MayCall, Push, NoEvent, Turn, Legal, After, ring, window, service, pixels
  <2>2. RingLeads(c, shown) /\ shown \in Where /\ shown' \in Where
    BY <2>1 DEF RingFirst, Believed, Leads, HostTyped, Typed
  <2>3. PICK d \in Where : d = shown /\ RingLeads(c, d)
    BY <2>2
  <2>4. RingLeads(c, d)'
    BY <2>1, <2>3, RingKept DEF Typed
  <2>5. MsgsLead(shown, shown)'
    <3>1. PICK e \in Where : e = shown'
      BY <2>2
    <3> QED
      BY <2>1, <3>1, NoMsgsLeft
  <2>6. Leads(c)'
    BY <2>1, <2>3, <2>4, <2>5 DEF RingFirst, Believed, Expected, Leads
  <2> QED
    BY <2>1, <2>6, PixelsKept DEF Path
<1>4. CASE ND_RemoveCursor
  <2>1. /\ wpc = "free" /\ hpc = "idle" /\ wpc' = "free" /\ msgs' = <<>>
        /\ UNCHANGED <<ceq, ceqHead, ceqTail, spc, nd_saveRect, nd_saveData, screen, ink>>
        /\ hpc' # "idle" /\ Legal(ce', shown) /\ After(ce', shown) = shown'
    BY <1>4, PlaceIs DEF ND_RemoveCursor, MayCall, Push, NoEvent, Turn, Legal, After, ring, window, service, pixels
  <2>2. RingLeads(c, shown) /\ shown \in Where /\ shown' \in Where
    BY <2>1 DEF RingFirst, Believed, Leads, HostTyped, Typed
  <2>3. PICK d \in Where : d = shown /\ RingLeads(c, d)
    BY <2>2
  <2>4. RingLeads(c, d)'
    BY <2>1, <2>3, RingKept DEF Typed
  <2>5. MsgsLead(shown, shown)'
    <3>1. PICK e \in Where : e = shown'
      BY <2>2
    <3> QED
      BY <2>1, <3>1, NoMsgsLeft
  <2>6. Leads(c)'
    BY <2>1, <2>3, <2>4, <2>5 DEF RingFirst, Believed, Expected, Leads
  <2> QED
    BY <2>1, <2>6, PixelsKept DEF Path
<1>5. ASSUME NEW f \in Frames, ND_SetCursor(f) PROVE Inked' /\ Path'
  <2>1. /\ wpc = "free" /\ hpc = "idle" /\ wpc' = "free" /\ msgs' = <<>>
        /\ UNCHANGED <<ceq, ceqHead, ceqTail, spc, nd_saveRect, nd_saveData, screen, ink>>
        /\ hpc' # "idle" /\ Legal(ce', shown) /\ After(ce', shown) = shown'
    BY <1>5, PlaceIs DEF ND_SetCursor, MayCall, Push, NoEvent, Turn, Legal, After, ring, window, service, pixels
  <2>2. RingLeads(c, shown) /\ shown \in Where /\ shown' \in Where
    BY <2>1 DEF RingFirst, Believed, Leads, HostTyped, Typed
  <2>3. PICK d \in Where : d = shown /\ RingLeads(c, d)
    BY <2>2
  <2>4. RingLeads(c, d)'
    BY <2>1, <2>3, RingKept DEF Typed
  <2>5. MsgsLead(shown, shown)'
    <3>1. PICK e \in Where : e = shown'
      BY <2>2
    <3> QED
      BY <2>1, <3>1, NoMsgsLeft
  <2>6. Leads(c)'
    BY <2>1, <2>3, <2>4, <2>5 DEF RingFirst, Believed, Expected, Leads
  <2> QED
    BY <2>1, <2>6, PixelsKept DEF Path
<1>6. CASE ND_RegisterThyself
  <2>1. /\ UNCHANGED <<ceq, ceqHead, ceqTail, hpc, ce, shown, wpc, msgs>>
        /\ UNCHANGED <<nd_saveRect, nd_saveData, screen, ink>>
        /\ (spc' = "advance") <=> (spc = "advance")
    BY <1>6 DEF ND_RegisterThyself, ring, host, window, service, pixels
  <2> QED
    BY <2>1, LeadsKept, PixelsKept DEF Path
<1>27. ASSUME NEW f \in Frames, SetElsewhere(f) PROVE Inked' /\ Path'
  <2>1. /\ UNCHANGED <<ceq, ceqHead, ceqTail, hpc, ce, shown, wpc, msgs>>
        /\ UNCHANGED <<nd_saveRect, nd_saveData, screen, ink>>
        /\ (spc' = "advance") <=> (spc = "advance")
    BY <1>27 DEF SetElsewhere, ring, host, window, service, pixels
  <2> QED
    BY <2>1, LeadsKept, PixelsKept DEF Path
<1>28. ASSUME NEW f \in Frames, NotSent(f) PROVE Inked' /\ Path'
  <2>1. /\ UNCHANGED <<ceq, ceqHead, ceqTail, hpc, ce, shown, wpc, msgs>>
        /\ UNCHANGED <<nd_saveRect, nd_saveData, screen, ink>>
        /\ (spc' = "advance") <=> (spc = "advance")
    BY <1>28 DEF NotSent, ring, host, window, service, pixels
  <2> QED
    BY <2>1, LeadsKept, PixelsKept DEF Path
<1>7. CASE CopyMask
  <2>1. /\ UNCHANGED <<ceq, ceqHead, ceqTail, ce, shown, wpc, msgs, spc>>
        /\ UNCHANGED <<nd_saveRect, nd_saveData, screen, ink>> /\ hpc # "idle" /\ hpc' # "idle"
    BY <1>7 DEF CopyMask, window, service, pixels
  <2>2. Leads(c)'
    <3>1. (RingFirst' <=> RingFirst) /\ Expected' = Expected /\ Expected \in Where /\ shown \in Where
          /\ \A d \in Where : Believed(d)' <=> Believed(d)
      BY <2>1, ExpectedRange DEF RingFirst, Expected, Believed, Typed
    <3>2. \A d \in Where : RingLeads(c, d) => RingLeads(c, d)'
      BY <2>1, RingKept DEF Typed
    <3>3. \A d, e \in Where : MsgsLead(d, e) => MsgsLead(d, e)'
      BY <2>1, MsgsLeadKept
    <3> QED
      BY <2>1, <3>1, <3>2, <3>3 DEF Leads
  <2> QED
    BY <2>1, <2>2, PixelsKept DEF Path
<1>8. CASE StoreEvent
  <2>1. /\ UNCHANGED <<ceqHead, ceqTail, ce, shown, wpc, msgs, spc>>
        /\ UNCHANGED <<nd_saveRect, nd_saveData, screen, ink>> /\ hpc # "idle" /\ hpc' # "idle"
        /\ ceq' = [ceq EXCEPT ![ceqHead] = ce]
    BY <1>8 DEF StoreEvent, window, service, pixels
  <2>2. Leads(c)'
    <3>1. (RingFirst' <=> RingFirst) /\ Expected' = Expected /\ Expected \in Where /\ shown \in Where
          /\ \A d \in Where : Believed(d)' <=> Believed(d)
      BY <2>1, ExpectedRange DEF RingFirst, Expected, Believed, Typed
    <3>2. \A d \in Where : RingLeads(c, d) => RingLeads(c, d)'
      <4>1. Now' = Now
        BY <2>1 DEF Now
      <4>2. \A i \in Slots : Undone(i)' => Undone(i) /\ i # ceqHead
        BY <2>1, PendingKept, PendingIs DEF Undone, Typed
      <4>3. \A i \in Slots : i # ceqHead => ceq'[i] = ceq[i]
        BY <2>1 DEF Typed, RingTyped
      <4> QED
        BY <2>1, <4>1, <4>2, <4>3, RingLeadsKept DEF Typed
    <3>3. \A d, e \in Where : MsgsLead(d, e) => MsgsLead(d, e)'
      BY <2>1, MsgsLeadKept
    <3> QED
      BY <2>1, <3>1, <3>2, <3>3 DEF Leads
  <2> QED
    BY <2>1, <2>2, PixelsKept DEF Path
<1>9. CASE Publish
  <2>1. /\ UNCHANGED <<ceq, ceqTail, shown, wpc, msgs, spc>> /\ wpc = "free" /\ spc = "receive"
        /\ UNCHANGED <<nd_saveRect, nd_saveData, screen, ink>> /\ hpc = "publish" /\ hpc' = "idle"
        /\ ceqHead' = NextSlot(ceqHead) /\ NextSlot(ceqHead) # ceqTail /\ ceq[ceqHead] = ce
    BY <1>9 DEF Publish, window, service, pixels, Turn, Events
  <2>2. PICK d \in Where : RingLeads(c, d) /\ Legal(ce, d) /\ After(ce, d) = shown
    BY <2>1 DEF Leads, RingFirst, Believed
  <2>3. PICK e \in Where : e = shown
    BY ExpectedRange DEF Typed
  <2>4. RingLeads(c, e)'
    BY <2>1, <2>2, <2>3, RingLeadsGrows DEF Typed, HostTyped
  <2>5. MsgsLead(shown, Expected)'
    <3>1. MsgsLead(e, e)
      BY <2>1, <2>3 DEF Leads, RingFirst, Expected
    <3> QED
      BY <2>1, <2>3, <3>1, MsgsLeadKept DEF Expected
  <2>6. Leads(c)'
    BY <2>1, <2>3, <2>4, <2>5 DEF RingFirst, Believed, Leads
  <2> QED
    BY <2>1, <2>6, PixelsKept DEF Path
<1>10. CASE DropEvent
  BY <1>10 DEF DropEvent
<1>11. CASE TakeCursor
  <2> DEFINE r == Say("sync_a", 0, 0)
  <2>1. Longer(r)
    BY <1>11, TakeCursorSends
  <2>2. /\ UNCHANGED <<ceq, ceqHead, ceqTail, hpc, ce, shown, spc>>
        /\ UNCHANGED <<nd_saveRect, nd_saveData, screen, ink>>
    BY <1>11 DEF TakeCursor, Send, ring, host, service, pixels
  <2>3. /\ r \in CursorRequest /\ LegalMsg(r, Expected) /\ AfterMsg(r, Expected) = Expected'
        /\ wpc' # "free"
    <3>1. Len(msgs') \in Nat \ {0} /\ msgs' \in Seq(CursorRequest) /\ r = msgs'[Len(msgs')]
      BY <2>1 DEF Longer
    <3>2. r \in CursorRequest
      BY <3>1, ElementOfSeq
    <3> QED
      BY <1>11, <2>2, <3>2, PlaceIs DEF TakeCursor, Say, LegalMsg, AfterMsg, Expected, Turn, Places, window
  <2>4. RingFirst' <=> RingFirst
    BY <1>11, <2>1, <2>3, PlaceIs DEF TakeCursor, Longer, RingFirst, Say, Turn, window
  <2> HIDE DEF r
  <2> QED
    BY <2>1, <2>2, <2>3, <2>4, LeadsSent, PixelsKept DEF Path
<1>12. CASE NDRemoveCursor
  <2> DEFINE r == Say("remove", 0, 0)
  <2>1. Longer(r)
    BY <1>12, NDRemoveCursorSends
  <2>2. /\ UNCHANGED <<ceq, ceqHead, ceqTail, hpc, ce, shown, spc>>
        /\ UNCHANGED <<nd_saveRect, nd_saveData, screen, ink>>
    BY <1>12 DEF NDRemoveCursor, Send, ring, host, service, pixels
  <2>3. /\ r \in CursorRequest /\ LegalMsg(r, Expected) /\ AfterMsg(r, Expected) = Expected'
        /\ wpc' # "free"
    <3>1. Len(msgs') \in Nat \ {0} /\ msgs' \in Seq(CursorRequest) /\ r = msgs'[Len(msgs')]
      BY <2>1 DEF Longer
    <3>2. r \in CursorRequest
      BY <3>1, ElementOfSeq
    <3> QED
      BY <1>12, <2>2, <3>2, PlaceIs DEF NDRemoveCursor, Say, LegalMsg, AfterMsg, Expected, Turn, Places, window
  <2>4. RingFirst' <=> RingFirst
    BY <1>12, <2>1, <2>3, PlaceIs DEF NDRemoveCursor, Longer, RingFirst, Say, Turn, window
  <2> HIDE DEF r
  <2> QED
    BY <2>1, <2>2, <2>3, <2>4, LeadsSent, PixelsKept DEF Path
<1>13. CASE NDSetCursor
  <2> DEFINE r == Say("set", MaxEvents + turns, 0)
  <2>1. Longer(r)
    BY <1>13, NDSetCursorSends
  <2>2. /\ UNCHANGED <<ceq, ceqHead, ceqTail, hpc, ce, shown, spc>>
        /\ UNCHANGED <<nd_saveRect, nd_saveData, screen, ink>>
    BY <1>13 DEF NDSetCursor, Send, ring, host, service, pixels
  <2>3. /\ r \in CursorRequest /\ LegalMsg(r, Expected) /\ AfterMsg(r, Expected) = Expected'
        /\ wpc' # "free"
    <3>1. Len(msgs') \in Nat \ {0} /\ msgs' \in Seq(CursorRequest) /\ r = msgs'[Len(msgs')]
      BY <2>1 DEF Longer
    <3>2. r \in CursorRequest
      BY <3>1, ElementOfSeq
    <3> QED
      BY <1>13, <2>2, <3>2, PlaceIs DEF NDSetCursor, Say, LegalMsg, AfterMsg, Expected, Turn, Places, window
  <2>4. RingFirst' <=> RingFirst
    BY <1>13, <2>1, <2>3, PlaceIs DEF NDSetCursor, Longer, RingFirst, Say, Turn, window
  <2> HIDE DEF r
  <2> QED
    BY <2>1, <2>2, <2>3, <2>4, LeadsSent, PixelsKept DEF Path
<1>14. ASSUME NEW p \in Places, Draw(p) PROVE Inked' /\ Path'
  <2> DEFINE r == Say("draw", draws + 1, p)
  <2>1. Longer(r)
    BY <1>14, DrawSends
  <2>2. /\ UNCHANGED <<ceq, ceqHead, ceqTail, hpc, ce, shown, spc>>
        /\ UNCHANGED <<nd_saveRect, nd_saveData, screen, ink>>
    BY <1>14 DEF Draw, Send, ring, host, service, pixels
  <2>3. /\ r \in CursorRequest /\ LegalMsg(r, Expected) /\ AfterMsg(r, Expected) = Expected'
        /\ wpc' # "free"
    <3>1. Len(msgs') \in Nat \ {0} /\ msgs' \in Seq(CursorRequest) /\ r = msgs'[Len(msgs')]
      BY <2>1 DEF Longer
    <3>2. r \in CursorRequest
      BY <3>1, ElementOfSeq
    <3> QED
      BY <1>14, <2>2, <3>2, PlaceIs DEF Draw, Say, LegalMsg, AfterMsg, Expected, Turn, Places, window
  <2>4. RingFirst' <=> RingFirst
    BY <1>14, <2>1, <2>3, PlaceIs DEF Draw, Longer, RingFirst, Say, Turn, window
  <2> HIDE DEF r
  <2> QED
    BY <2>1, <2>2, <2>3, <2>4, LeadsSent, PixelsKept DEF Path
<1>15. CASE NDDisplayCursor
  <2> DEFINE r == Say("display", 0, shown)
  <2>1. Longer(r)
    BY <1>15, NDDisplayCursorSends
  <2>2. /\ UNCHANGED <<ceq, ceqHead, ceqTail, hpc, ce, shown, spc>>
        /\ UNCHANGED <<nd_saveRect, nd_saveData, screen, ink>>
    BY <1>15 DEF NDDisplayCursor, Send, ring, host, service, pixels
  <2>3. /\ r \in CursorRequest /\ LegalMsg(r, Expected) /\ AfterMsg(r, Expected) = Expected'
        /\ wpc' # "free"
    <3>1. Len(msgs') \in Nat \ {0} /\ msgs' \in Seq(CursorRequest) /\ r = msgs'[Len(msgs')]
      BY <2>1 DEF Longer
    <3>2. r \in CursorRequest
      BY <3>1, ElementOfSeq
    <3> QED
      BY <1>15, <2>2, <3>2, PlaceIs DEF NDDisplayCursor, Say, LegalMsg, AfterMsg, Expected, Turn, Places, window
  <2>4. RingFirst' <=> RingFirst
    BY <1>15, <2>1, <2>3, PlaceIs DEF NDDisplayCursor, Longer, RingFirst, Say, Turn, window
  <2> HIDE DEF r
  <2> QED
    BY <2>1, <2>2, <2>3, <2>4, LeadsSent, PixelsKept DEF Path
<1>16. CASE LeaveCursor
  <2> DEFINE r == Say("sync", 0, 0)
  <2>1. Longer(r)
    BY <1>16, LeaveCursorSends
  <2>2. /\ UNCHANGED <<ceq, ceqHead, ceqTail, hpc, ce, shown, spc>>
        /\ UNCHANGED <<nd_saveRect, nd_saveData, screen, ink>>
    BY <1>16 DEF LeaveCursor, Send, ring, host, service, pixels
  <2>3. /\ r \in CursorRequest /\ LegalMsg(r, Expected) /\ AfterMsg(r, Expected) = Expected'
        /\ wpc' # "free"
    <3>1. Len(msgs') \in Nat \ {0} /\ msgs' \in Seq(CursorRequest) /\ r = msgs'[Len(msgs')]
      BY <2>1 DEF Longer
    <3>2. r \in CursorRequest
      BY <3>1, ElementOfSeq
    <3> QED
      BY <1>16, <2>2, <3>2, PlaceIs DEF LeaveCursor, Say, LegalMsg, AfterMsg, Expected, Turn, Places, window
  <2>4. RingFirst' <=> RingFirst
    BY <1>16, <2>1, <2>3, PlaceIs DEF LeaveCursor, Longer, RingFirst, Say, Turn, window
  <2> HIDE DEF r
  <2> QED
    BY <2>1, <2>2, <2>3, <2>4, LeadsSent, PixelsKept DEF Path
<1>17. CASE CursorTask
  <2>1. /\ UNCHANGED <<ceq, ceqHead, ceqTail, hpc, ce, shown, wpc, msgs>>
        /\ UNCHANGED <<nd_saveRect, nd_saveData, screen, ink>>
        /\ (spc' = "advance") <=> (spc = "advance")
    BY <1>17 DEF CursorTask, ring, host, window, service, pixels
  <2> QED
    BY <2>1, LeadsKept, PixelsKept DEF Path
<1>18. CASE RetraceEvent
  <2>1. /\ ceq[ceqTail] \in Event /\ Placed(ceq[ceqTail]) /\ Execute(ceq[ceqTail]) /\ UNCHANGED ink
        /\ UNCHANGED <<ceq, ceqHead, hpc, ce, shown, wpc, msgs>> /\ RingFirst /\ ceqTail # ceqHead
        /\ spc # "advance"
    BY <1>18 DEF RetraceEvent, RingTyped, Typed, BoardTyped, Turn, Flush, Flushing, Events, host, window
  <2>2. PICK d \in Where : RingLeads(c, d) /\ Believed(d)
    BY <2>1 DEF Leads
  <2>3. PICK e \in Where : e = After(ceq[ceqTail], c)
    BY <2>1, AfterRange
  <2>4. Now = ceqTail /\ Undone(ceqTail) /\ Now' = NextSlot(ceqTail)
        /\ \A i \in Slots : Undone(i)' => Undone(i)
    <3>1. ceqTail' = NextSlot(ceqTail) /\ spc' = spc
      BY <1>18 DEF RetraceEvent, service
    <3>2. \A i \in Slots : Pending(i)' => Pending(i)
      BY <2>1, <3>1, TailPasses DEF Typed
    <3> QED
      BY <2>1, <3>1, <3>2, PendingIs DEF Now, Undone, Typed, RingTyped
  <2>5. Legal(ceq[ceqTail], c) /\ RingLeads(e, d)'
    BY <2>1, <2>2, <2>3, <2>4, RingLeadsShrinks DEF Typed
  <2>6. ScreenAt(e)' /\ Inked'
    BY <2>1, <2>3, <2>5, ExecutePlaces DEF Typed
  <2>7. RingFirst' /\ Believed(d)' /\ Expected' = Expected
    BY <2>1, <2>2 DEF RingFirst, Believed, Expected
  <2>8. MsgsLead(shown, Expected)'
    <3>1. PICK g \in Where, k \in Where : g = shown /\ k = Expected
      BY ExpectedRange DEF Typed
    <3>2. MsgsLead(g, k)
      BY <2>1, <3>1 DEF Leads
    <3> QED
      BY <2>1, <2>7, <3>1, <3>2, MsgsLeadKept
  <2> QED
    BY <2>5, <2>6, <2>7, <2>8 DEF Path, Leads
<1>19. CASE ServeDraw
  <2>1. PICK d : d = AfterMsg(Head(msgs), c)
    OBVIOUS
  <2>2. msgs # <<>> /\ Shorter /\ UNCHANGED <<wpc, shown>> /\ ~RingFirst /\ Head(msgs).op = "draw"
    <3>1. msgs # <<>> /\ msgs' = Tail(msgs) /\ UNCHANGED <<wpc, shown>> /\ Head(msgs).op = "draw"
      BY <1>19 DEF ServeDraw, Serving, Return, host, window
    <3> QED
      BY <3>1, TakenIs DEF RingFirst, Turn, Typed
  <2>3. LegalMsg(Head(msgs), c) /\ Leads(d)' /\ d \in Where
    BY <2>1, <2>2, LeadsServed
  <2>4. ScreenAt(d)' /\ Inked'
    <3>1. Head(msgs).place \in Places
      BY <2>2, FirstIs, PlaceIs DEF Requests, CursorRequest, Typed, Where
    <3>2. Head(msgs).place # c /\ d = c
      BY <2>1, <2>2, <2>3 DEF LegalMsg, AfterMsg
    <3> QED
      BY <1>19, <3>1, <3>2, DrawPlaces DEF ServeDraw, Typed
  <2> QED
    BY <2>3, <2>4 DEF Path
<1>20. CASE FlushCEQ
  <2>1. /\ UNCHANGED <<ceq, ceqHead, ceqTail, hpc, ce, shown, wpc, msgs>>
        /\ UNCHANGED <<nd_saveRect, nd_saveData, screen, ink>>
        /\ (spc' = "advance") <=> (spc = "advance")
    BY <1>20 DEF FlushCEQ, ring, host, window, service, pixels
  <2> QED
    BY <2>1, LeadsKept, PixelsKept DEF Path
<1>21. CASE FlushEvent
  <2>1. /\ ceq[ceqTail] \in Event /\ Placed(ceq[ceqTail]) /\ Execute(ceq[ceqTail]) /\ UNCHANGED ink
        /\ UNCHANGED <<ceq, ceqHead, hpc, ce, shown, wpc, msgs>> /\ RingFirst /\ ceqTail # ceqHead
        /\ spc # "advance"
    BY <1>21 DEF FlushEvent, Emptied, RingTyped, Typed, Turn, Flush, Flushing, Events, ring, host, window
  <2>2. PICK d \in Where : RingLeads(c, d) /\ Believed(d)
    BY <2>1 DEF Leads
  <2>3. PICK e \in Where : e = After(ceq[ceqTail], c)
    BY <2>1, AfterRange
  <2>4. Now = ceqTail /\ Undone(ceqTail) /\ Now' = NextSlot(ceqTail)
        /\ \A i \in Slots : Undone(i)' => Undone(i)
    <3>1. spc' = "advance" /\ ceqTail' = ceqTail
      BY <1>21 DEF FlushEvent, ring
    <3>2. \A i \in Slots : Pending(i)' <=> Pending(i)
      BY <2>1, <3>1, PendingKept
    <3> QED
      BY <2>1, <3>1, <3>2, PendingIs DEF Now, Undone, Typed, RingTyped
  <2>5. Legal(ceq[ceqTail], c) /\ RingLeads(e, d)'
    BY <2>1, <2>2, <2>3, <2>4, RingLeadsShrinks DEF Typed
  <2>6. ScreenAt(e)' /\ Inked'
    BY <2>1, <2>3, <2>5, ExecutePlaces DEF Typed
  <2>7. RingFirst' /\ Believed(d)' /\ Expected' = Expected
    BY <2>1, <2>2 DEF RingFirst, Believed, Expected
  <2>8. MsgsLead(shown, Expected)'
    <3>1. PICK g \in Where, k \in Where : g = shown /\ k = Expected
      BY ExpectedRange DEF Typed
    <3>2. MsgsLead(g, k)
      BY <2>1, <3>1 DEF Leads
    <3> QED
      BY <2>1, <2>7, <3>1, <3>2, MsgsLeadKept
  <2> QED
    BY <2>5, <2>6, <2>7, <2>8 DEF Path, Leads
<1>22. CASE FlushAdvance
  <2>1. /\ UNCHANGED <<ceq, ceqHead, hpc, ce, shown, wpc, msgs>> /\ ceqTail # ceqHead
        /\ UNCHANGED <<nd_saveRect, nd_saveData, screen, ink>>
        /\ ceqTail' = NextSlot(ceqTail) /\ spc = "advance" /\ spc' = "process"
    BY <1>22 DEF FlushAdvance, Flush, Flushing, host, window, pixels
  <2>2. Now' = Now
    BY <2>1 DEF Now
  <2>3. \A i \in Slots : Undone(i)' => Undone(i)
    BY <2>1, TailPasses DEF Undone, Typed
  <2>4. \A d \in Where : RingLeads(c, d) => RingLeads(c, d)'
    BY <2>1, <2>2, <2>3, RingLeadsKept DEF Typed
  <2>5. Leads(c)'
    <3>1. (RingFirst' <=> RingFirst) /\ Expected' = Expected /\ Expected \in Where /\ shown \in Where
          /\ \A d \in Where : Believed(d)' <=> Believed(d)
      BY <2>1, ExpectedRange DEF RingFirst, Expected, Believed, Typed
    <3>2. \A d, e \in Where : MsgsLead(d, e) => MsgsLead(d, e)'
      BY <2>1, MsgsLeadKept
    <3> QED
      BY <2>1, <2>4, <3>1, <3>2 DEF Leads
  <2> QED
    BY <2>1, <2>5, PixelsKept DEF Path
<1>23. CASE Flushed
  <2>0. /\ UNCHANGED <<ceq, ceqHead, ceqTail, hpc, ce, shown>> /\ ceqHead = ceqTail
        /\ UNCHANGED <<nd_saveRect, nd_saveData, screen, ink>>
        /\ spc = "process" /\ spc' # "advance" /\ msgs # <<>> /\ wpc # "free" /\ hpc = "idle"
    BY <1>23 DEF Flushed, Emptied, ring, host, pixels, Flush, Flushing, Turn, Serving, Return
  <2>1. CASE Head(msgs).op = "sync"
    <3>1. Shorter /\ wpc' = "free" /\ wpc = "wait" /\ ~RingFirst
      BY <1>23, <2>0, <2>1, TakenIs DEF Flushed, Serving, Return, Typed, Turn, RingFirst
    <3>2. Len(msgs) = 1
      BY <2>0, <2>1, SyncIsLast DEF Typed
    <3>3. msgs' = <<>>
      BY <3>1, <3>2, EmptySeq DEF Shorter
    <3>4. c = shown
      <4>1. PICK e \in Where : e = Expected /\ e = shown /\ MsgsLead(c, e)
        BY <3>1, ExpectedRange DEF Leads, Expected, Typed
      <4>2. PICK g : g = AfterMsg(Head(msgs), c)
        OBVIOUS
      <4>3. g = c
        BY <2>1, <4>2 DEF AfterMsg
      <4>4. MsgsLead(c, e)'
        BY <2>0, <3>1, <4>1, <4>2, <4>3, MsgsLeadShrinks DEF Typed
      <4>5. c = e
        BY <3>3, <4>4, EmptySeq DEF MsgsLead
      <4> QED
        BY <4>1, <4>5
    <3>5. RingLeads(c, c)'
      <4>1. RingLeads(c, c)
        BY <2>0, EmptyRingLeads DEF Typed
      <4> QED
        BY <2>0, <4>1, RingKept DEF Typed
    <3>6. MsgsLead(c, c)'
      BY <3>3, NoMsgsLeft
    <3>7. Leads(c)'
      BY <2>0, <3>1, <3>4, <3>5, <3>6 DEF RingFirst, Believed, Expected, Leads
    <3> QED
      BY <2>0, <3>7, PixelsKept DEF Path
  <2>2. CASE Head(msgs).op = "sync_a"
    <3>1. Shorter /\ wpc' = wpc /\ RingFirst
      BY <1>23, <2>0, <2>2, TakenIs DEF Flushed, Serving, Return, Typed, RingFirst
    <3>2. PICK d \in Where : RingLeads(c, d) /\ d = shown
      BY <2>0, <3>1 DEF Leads, Believed
    <3>3. c = d
      BY <2>0, <3>2, EmptyRingLeads DEF Typed
    <3>4. PICK e \in Where : e = Expected /\ e = Expected'
      BY <2>0, <3>1, ExpectedRange DEF Expected, Typed
    <3>5. MsgsLead(c, e)
      BY <3>1, <3>2, <3>3, <3>4 DEF Leads
    <3>6. PICK g : g = AfterMsg(Head(msgs), c)
      OBVIOUS
    <3>7. g = c
      BY <2>2, <3>6 DEF AfterMsg
    <3>8. MsgsLead(c, e)'
      BY <2>0, <3>1, <3>5, <3>6, <3>7, MsgsLeadShrinks DEF Typed
    <3>9. ~RingFirst'
      <4>1. msgs' # <<>> => Head(msgs') = msgs'[1] /\ 1 \in 1..Len(msgs')
        BY <3>1, LenProperties DEF Shorter
      <4> QED
        BY <2>0, <3>1, <4>1, RestOfTurn DEF RingFirst
    <3>10. Leads(c)'
      BY <3>4, <3>8, <3>9 DEF Leads
    <3> QED
      BY <2>0, <3>10, PixelsKept DEF Path
  <2>3. CASE Head(msgs).op \notin {"sync", "sync_a"}
    <3>1. msgs' = msgs /\ wpc' = wpc
      BY <1>23, <2>0, <2>3 DEF Flushed, Serving
    <3>2. Leads(c)'
      BY <2>0, <3>1, LeadsKept
    <3> QED
      BY <2>0, <3>2, PixelsKept DEF Path
  <2> QED
    BY <2>1, <2>2, <2>3
<1>24. CASE HandlerRemoves
  <2>1. PICK d : d = AfterMsg(Head(msgs), c)
    OBVIOUS
  <2>2. msgs # <<>> /\ Shorter /\ UNCHANGED <<wpc, shown>> /\ ~RingFirst /\ Head(msgs).op = "remove"
    <3>1. msgs # <<>> /\ msgs' = Tail(msgs) /\ UNCHANGED <<wpc, shown>> /\ Head(msgs).op = "remove"
      BY <1>24 DEF HandlerRemoves, Serving, Return, host, window
    <3> QED
      BY <3>1, TakenIs DEF RingFirst, Turn, Typed
  <2>3. LegalMsg(Head(msgs), c) /\ Leads(d)' /\ d \in Where
    BY <2>1, <2>2, LeadsServed
  <2>4. ScreenAt(d)' /\ Inked'
    <3>2. c # 0 /\ d = 0
      BY <2>1, <2>2, <2>3 DEF LegalMsg, AfterMsg
    <3> QED
      BY <1>24, <3>2, RemovePlaces DEF HandlerRemoves, Typed
  <2> QED
    BY <2>3, <2>4 DEF Path
<1>25. CASE HandlerDisplays
  <2>1. PICK d : d = AfterMsg(Head(msgs), c)
    OBVIOUS
  <2>2. msgs # <<>> /\ Shorter /\ UNCHANGED <<wpc, shown>> /\ ~RingFirst /\ Head(msgs).op = "display"
    <3>1. msgs # <<>> /\ msgs' = Tail(msgs) /\ UNCHANGED <<wpc, shown>> /\ Head(msgs).op = "display"
      BY <1>25 DEF HandlerDisplays, Serving, Return, host, window
    <3> QED
      BY <3>1, TakenIs DEF RingFirst, Turn, Typed
  <2>3. LegalMsg(Head(msgs), c) /\ Leads(d)' /\ d \in Where
    BY <2>1, <2>2, LeadsServed
  <2>4. ScreenAt(d)' /\ Inked'
    <3>1. Head(msgs).place \in Places
      BY <2>2, FirstIs, PlaceIs DEF Requests, CursorRequest, Typed, Where
    <3>2. c = 0 /\ d = Head(msgs).place
      BY <2>1, <2>2, <2>3 DEF LegalMsg, AfterMsg
    <3>3. Bare(screen)
      BY <3>2, EmptyScreenBare DEF Typed
    <3>4. nd_cursorFrame \in Frames
      BY DEF Typed, PixelsTyped
    <3>5. nd_saveRect' = d /\ nd_saveData' = screen[d] /\ screen' = Over(screen, d, nd_cursorFrame)
          /\ ink' = ink
      BY <1>25, <3>2 DEF HandlerDisplays, DisplayOn
    <3> QED
      BY <3>1, <3>2, <3>3, <3>4, <3>5, DisplayPlaces DEF Typed
  <2> QED
    BY <2>3, <2>4 DEF Path
<1>26. CASE HandlerSets
  <2>1. CASE spc = "done"
    <3>1. /\ UNCHANGED <<ceq, ceqHead, ceqTail, hpc, ce, shown, wpc, msgs>>
          /\ UNCHANGED <<nd_saveRect, nd_saveData, screen, ink>>
          /\ (spc' = "advance") <=> (spc = "advance")
      BY <1>26, <2>1 DEF HandlerSets, ring, host, window, service, pixels
    <3> QED
      BY <3>1, LeadsKept, PixelsKept DEF Path
  <2>2. CASE spc = "mask"
    <3>1. PICK d : d = AfterMsg(Head(msgs), c)
      OBVIOUS
    <3>2. msgs # <<>> /\ Shorter /\ UNCHANGED <<wpc, shown>> /\ ~RingFirst /\ Head(msgs).op = "set"
      <4>1. msgs # <<>> /\ msgs' = Tail(msgs) /\ UNCHANGED <<wpc, shown>> /\ Head(msgs).op = "set"
        BY <1>26, <2>2 DEF HandlerSets, Serving, Return, host, window
      <4> QED
        BY <4>1, TakenIs DEF RingFirst, Turn, Typed
    <3>3. LegalMsg(Head(msgs), c) /\ Leads(d)' /\ d \in Where
      BY <3>1, <3>2, LeadsServed
    <3>4. ScreenAt(d)' /\ Inked'
      <4>2. d = c
        BY <3>1, <3>2 DEF AfterMsg
      <4> QED
        BY <1>26, <4>2, PixelsKept DEF HandlerSets
    <3> QED
      BY <3>3, <3>4 DEF Path
  <2> QED
    BY <1>26, <2>1, <2>2 DEF HandlerSets
<1> QED
  BY <1>1, <1>2, <1>3, <1>4, <1>5, <1>6, <1>7, <1>8, <1>9, <1>10, <1>11, <1>12, <1>13, <1>14, <1>15, <1>16, <1>17, <1>18, <1>19, <1>20, <1>21, <1>22, <1>23, <1>24, <1>25, <1>26, <1>27, <1>28
     DEF CursorNext, HostCalls, HostRuns, WindowServer, Retrace, ServerRuns

\* A new image for frame f waits in the ring, or in the host on its way to it.
RingSet(i, f) == Undone(i) /\ ceq[i].what = "set" /\ ceq[i].frame = f
CeSet(f) == hpc # "idle" /\ ce.what = "set" /\ ce.frame = f

\* A new regular image is on its way in a request.
SetSaid == \E i \in 1..Len(msgs) : msgs[i].op = "set"

\* There is one place for an image in shared memory: while no image overtakes
\* another, at most one event that will use it is under way.
SetOnWay == \A i, j \in Slots : Undone(i) /\ Undone(j) /\ ceq[i].what = "set" /\ ceq[j].what = "set" => i = j
OneImage == /\ SetOnWay
            /\ \A i \in Slots : Undone(i) /\ ceq[i].what = "set" => hpc = "idle" \/ ce.what # "set"
            /\ hpc = "mask" => ce.what = "set" /\ cursorData = calls

\* The image that waits for frame f is the one asked for last.
RingImages == \A i \in Slots, f \in Frames :
                RingSet(i, f) => (f = 0 /\ SetSaid) \/ want[f] = <<cursorData, cursorMask>>
CeImages == \A f \in Frames :
              CeSet(f) => want[f] = <<cursorData, IF hpc = "mask" THEN cursorData ELSE cursorMask>>

\* A frame for which none waits has the image that was asked for.
LoadedImages == \A f \in Frames :
                  (\A i \in Slots : ~RingSet(i, f)) /\ ~CeSet(f) /\ ~(f = 0 /\ SetSaid) =>
                    nd_cursorData[f] = want[f]

\* The same for the regular image in a request; the server is between the two
\* copies while it holds half of it.
SaidImages == /\ \A i, j \in 1..Len(msgs) : msgs[i].op = "set" /\ msgs[j].op = "set" => i = j
              /\ \A i \in 1..Len(msgs) : msgs[i].op = "set" =>
                   msgs[i].arg = MaxEvents + turns /\ want[0] = <<msgs[i].arg, msgs[i].arg>>
HalfImage == spc = "mask" => nd_cursorData[0][1] = Head(msgs).arg
RingPart == OneImage /\ RingImages /\ CeImages /\ LoadedImages
Images == RingPart /\ SaidImages /\ HalfImage

\* As long as no event is dropped and no image lost.
ImageInv == ~dropped /\ ~imageLost => Images

\* The host is not handing over an image.
CeIdle == hpc = "idle" \/ (hpc # "mask" /\ ce.what # "set")

\* The images: steps that hand over none.
LEMMA RingPartKept ==
  ASSUME RingPart,
         \A i \in Slots : Undone(i)' => Undone(i) /\ ceq'[i] = ceq[i],
         \A i \in Slots : Undone(i) /\ ceq[i].what = "set" => Undone(i)',
         SetSaid' <=> SetSaid,
         UNCHANGED <<want, nd_cursorData, cursorData, cursorMask>>,
         \/ UNCHANGED <<hpc, ce, calls>>
         \/ CeIdle /\ CeIdle'
         \/ hpc = "push" /\ hpc' = "publish" /\ ce' = ce
  PROVE  RingPart'
<1>1. \A i \in Slots, f \in Frames : RingSet(i, f)' <=> RingSet(i, f)
  BY DEF RingSet
<1>2. \A f \in Frames : CeSet(f)' <=> CeSet(f)
  BY DEF CeSet, CeIdle
<1>3. OneImage'
  <2>1. SetOnWay'
    BY DEF RingPart, OneImage, SetOnWay
  <2>2. \A i \in Slots : Undone(i)' /\ ceq'[i].what = "set" => hpc' = "idle" \/ ce'.what # "set"
    BY DEF RingPart, OneImage, CeIdle
  <2>3. hpc' = "mask" => ce'.what = "set" /\ cursorData' = calls'
    BY DEF RingPart, OneImage, CeIdle
  <2> QED
    BY <2>1, <2>2, <2>3 DEF OneImage
<1>4. RingImages'
  BY <1>1 DEF RingPart, RingImages
<1>5. CeImages'
  <2>1. SUFFICES ASSUME NEW f \in Frames, CeSet(f)
                 PROVE  want[f] = <<cursorData, IF hpc' = "mask" THEN cursorData ELSE cursorMask>>
    BY <1>2 DEF CeImages
  <2>2. hpc' = "mask" <=> hpc = "mask"
    BY <2>1 DEF CeSet, CeIdle
  <2> QED
    BY <2>1, <2>2 DEF RingPart, CeImages
<1>6. LoadedImages'
  BY <1>1, <1>2 DEF RingPart, LoadedImages
<1> QED
  BY <1>3, <1>4, <1>5, <1>6 DEF RingPart

\* A request is sent or served.
LEMMA SaidKept ==
  ASSUME SaidImages, UNCHANGED <<msgs, turns, want>>
  PROVE  SaidImages' /\ (SetSaid' <=> SetSaid)
BY DEF SaidImages, SetSaid

LEMMA SaidLonger ==
  ASSUME SaidImages, NEW r, Longer(r), r.op # "set",
         UNCHANGED want, turns' = turns \/ msgs = <<>>
  PROVE  SaidImages' /\ (SetSaid' <=> SetSaid)
<1>1. \A i \in 1..Len(msgs') : msgs'[i].op = "set" => i \in 1..Len(msgs) /\ msgs[i] = msgs'[i]
  BY DEF Longer
<1>2. \A i \in 1..Len(msgs) : i \in 1..Len(msgs') /\ msgs'[i] = msgs[i]
  BY DEF Longer
<1>3. 1..Len(msgs) # {} => msgs # <<>>
  BY EmptySeq
<1> QED
  BY <1>1, <1>2, <1>3 DEF SaidImages, SetSaid

LEMMA SaidShorter ==
  ASSUME SaidImages, WindowTyped, msgs # <<>>, Shorter, UNCHANGED <<turns, want>>
  PROVE  /\ SaidImages'
         /\ Head(msgs).op # "set" => (SetSaid' <=> SetSaid)
         /\ Head(msgs).op = "set" => ~SetSaid'
<1>1. \A i \in 1..Len(msgs') : i + 1 \in 1..Len(msgs) /\ msgs'[i] = msgs[i + 1] /\ i \in Nat /\ i # 0
  BY DEF Shorter
<1>2. \A i \in 1..Len(msgs) : i = 1 \/ (i - 1 \in 1..Len(msgs') /\ msgs'[i - 1] = msgs[i])
  BY DEF Shorter
<1>3. Head(msgs) = msgs[1] /\ 1 \in 1..Len(msgs)
  BY FirstIs
<1>4. \A i, j \in 1..Len(msgs') : msgs'[i].op = "set" /\ msgs'[j].op = "set" => i = j
  <2>1. SUFFICES ASSUME NEW i \in 1..Len(msgs'), NEW j \in 1..Len(msgs'), msgs'[i].op = "set", msgs'[j].op = "set"
                 PROVE  i = j
    OBVIOUS
  <2>2. i + 1 = j + 1
    BY <1>1, <2>1 DEF SaidImages
  <2> QED
    BY <1>1, <2>2
<1>5. \A i \in 1..Len(msgs') : msgs'[i].op = "set" =>
         msgs'[i].arg = MaxEvents + turns' /\ want'[0] = <<msgs'[i].arg, msgs'[i].arg>>
  BY <1>1 DEF SaidImages
<1>6. Head(msgs).op # "set" => (SetSaid' <=> SetSaid)
  BY ZenonT(60), <1>1, <1>2, <1>3 DEF SetSaid
<1>7. ASSUME Head(msgs).op = "set", NEW i \in 1..Len(msgs'), msgs'[i].op = "set"
      PROVE  FALSE
  <2>1. i + 1 = 1
    BY <1>1, <1>3, <1>7 DEF SaidImages
  <2> QED
    BY <1>1, <2>1
<1> QED
  BY <1>4, <1>5, <1>6, <1>7 DEF SaidImages, SetSaid

\* Every step keeps the images.
LEMMA ImagesStep ==
  ASSUME Typed, Turn, Flush, Events, Requests, SyncFirst, SyncLast, Images,
         HostTyped', ~dropped', ~imageLost', [CursorNext]_cursorVars
  PROVE  Images'
<1>1. CASE UNCHANGED cursorVars
  <2>1. /\ UNCHANGED <<want, nd_cursorData, cursorData, cursorMask, turns, msgs>>
        /\ UNCHANGED <<ceq, ceqHead, ceqTail>>
        /\ (spc' = "advance") <=> (spc = "advance")
        /\ (spc' = "mask") <=> (spc = "mask")
        /\ UNCHANGED <<hpc, ce, calls>>
    BY <1>1 DEF cursorVars, CeIdle, ring, host, window, service, pixels, hist
  <2>2. \A i \in Slots : Undone(i)' <=> Undone(i)
    BY <2>1, PendingKept DEF Undone
  <2>3. SaidImages' /\ (SetSaid' <=> SetSaid)
    BY <2>1, SaidKept DEF Images
  <2>4. RingPart'
    BY <2>1, <2>2, <2>3, RingPartKept DEF Images
  <2>5. HalfImage'
    BY <2>1 DEF HalfImage, Images
  <2> QED
    BY <2>3, <2>4, <2>5 DEF Images
<1>2. ASSUME NEW p \in Places, NEW f \in Showable, ND_MoveCursor(p, f) PROVE Images'
  <2>1. /\ UNCHANGED <<want, nd_cursorData, cursorData, cursorMask, turns, msgs>>
        /\ UNCHANGED <<ceq, ceqHead, ceqTail>>
        /\ (spc' = "advance") <=> (spc = "advance")
        /\ (spc' = "mask") <=> (spc = "mask")
        /\ CeIdle /\ CeIdle'
    BY <1>2 DEF ND_MoveCursor, MayCall, Push, CeIdle, ring, host, window, service, pixels, hist
  <2>2. \A i \in Slots : Undone(i)' <=> Undone(i)
    BY <2>1, PendingKept DEF Undone
  <2>3. SaidImages' /\ (SetSaid' <=> SetSaid)
    BY <2>1, SaidKept DEF Images
  <2>4. RingPart'
    BY <2>1, <2>2, <2>3, RingPartKept DEF Images
  <2>5. HalfImage'
    BY <2>1 DEF HalfImage, Images
  <2> QED
    BY <2>3, <2>4, <2>5 DEF Images
<1>3. ASSUME NEW p \in Places, NEW f \in Showable, ND_DisplayCursor(p, f) PROVE Images'
  <2>1. /\ UNCHANGED <<want, nd_cursorData, cursorData, cursorMask, turns, msgs>>
        /\ UNCHANGED <<ceq, ceqHead, ceqTail>>
        /\ (spc' = "advance") <=> (spc = "advance")
        /\ (spc' = "mask") <=> (spc = "mask")
        /\ CeIdle /\ CeIdle'
    BY <1>3 DEF ND_DisplayCursor, MayCall, Push, CeIdle, ring, host, window, service, pixels, hist
  <2>2. \A i \in Slots : Undone(i)' <=> Undone(i)
    BY <2>1, PendingKept DEF Undone
  <2>3. SaidImages' /\ (SetSaid' <=> SetSaid)
    BY <2>1, SaidKept DEF Images
  <2>4. RingPart'
    BY <2>1, <2>2, <2>3, RingPartKept DEF Images
  <2>5. HalfImage'
    BY <2>1 DEF HalfImage, Images
  <2> QED
    BY <2>3, <2>4, <2>5 DEF Images
<1>4. CASE ND_RemoveCursor
  <2>1. /\ UNCHANGED <<want, nd_cursorData, cursorData, cursorMask, turns, msgs>>
        /\ UNCHANGED <<ceq, ceqHead, ceqTail>>
        /\ (spc' = "advance") <=> (spc = "advance")
        /\ (spc' = "mask") <=> (spc = "mask")
        /\ CeIdle /\ CeIdle'
    BY <1>4 DEF ND_RemoveCursor, MayCall, Push, CeIdle, ring, host, window, service, pixels, hist
  <2>2. \A i \in Slots : Undone(i)' <=> Undone(i)
    BY <2>1, PendingKept DEF Undone
  <2>3. SaidImages' /\ (SetSaid' <=> SetSaid)
    BY <2>1, SaidKept DEF Images
  <2>4. RingPart'
    BY <2>1, <2>2, <2>3, RingPartKept DEF Images
  <2>5. HalfImage'
    BY <2>1 DEF HalfImage, Images
  <2> QED
    BY <2>3, <2>4, <2>5 DEF Images
<1>5. ASSUME NEW f \in Frames, ND_SetCursor(f) PROVE Images'
  <2>1. /\ wpc = "free" /\ hpc = "idle" /\ hpc' = "mask" /\ calls' = calls + 1 /\ cursorData' = calls'
        /\ ce' = [what |-> "set", frame |-> f, place |-> 0] /\ spc = "receive"
        /\ want' = [want EXCEPT ![f] = <<calls', calls'>>] /\ ~SetWaits /\ ~imageLost /\ msgs = <<>>
        /\ UNCHANGED <<ceq, ceqHead, ceqTail, nd_cursorData, msgs, spc, turns>>
    BY <1>5 DEF ND_SetCursor, MayCall, Turn, window, service, pixels
  <2>2. \A i \in Slots : (Undone(i)' <=> Undone(i)) /\ ~(Undone(i) /\ ceq[i].what = "set")
    BY <2>1, PendingKept, PendingIs DEF Undone, SetWaits, Typed, Slots
  <2>3. ~SetSaid /\ ~SetSaid'
    BY <2>1, EmptySeq DEF SetSaid
  <2>4. \A g \in Frames : nd_cursorData[g] = want[g]
    BY <2>1, <2>2, <2>3 DEF Images, RingPart, LoadedImages, RingSet, CeSet
  <2>5. want'[f] = <<cursorData', cursorData'>> /\ \A g \in Frames : g # f => want'[g] = want[g]
    BY <2>1 DEF Typed, HistTyped
  <2>6. OneImage' /\ RingImages'
    BY <2>1, <2>2 DEF OneImage, SetOnWay, RingImages, RingSet
  <2>7. CeImages'
    BY <2>1, <2>5 DEF CeImages, CeSet
  <2>8. LoadedImages'
    BY <2>1, <2>4, <2>5 DEF LoadedImages, CeSet
  <2>9. SaidImages' /\ HalfImage'
    BY <2>1, <2>3 DEF SaidImages, HalfImage, SetSaid
  <2> QED
    BY <2>6, <2>7, <2>8, <2>9 DEF Images, RingPart
<1>6. CASE ND_RegisterThyself
  <2>1. /\ UNCHANGED <<want, nd_cursorData, cursorData, cursorMask, turns, msgs>>
        /\ UNCHANGED <<ceq, ceqHead, ceqTail>>
        /\ (spc' = "advance") <=> (spc = "advance")
        /\ (spc' = "mask") <=> (spc = "mask")
        /\ CeIdle /\ CeIdle'
    BY <1>6 DEF ND_RegisterThyself, MayCall, CeIdle, ring, host, window, service, pixels, hist
  <2>2. \A i \in Slots : Undone(i)' <=> Undone(i)
    BY <2>1, PendingKept DEF Undone
  <2>3. SaidImages' /\ (SetSaid' <=> SetSaid)
    BY <2>1, SaidKept DEF Images
  <2>4. RingPart'
    BY <2>1, <2>2, <2>3, RingPartKept DEF Images
  <2>5. HalfImage'
    BY <2>1 DEF HalfImage, Images
  <2> QED
    BY <2>3, <2>4, <2>5 DEF Images
<1>27. ASSUME NEW f \in Frames, SetElsewhere(f) PROVE Images'
  <2>1. /\ UNCHANGED <<want, nd_cursorData, cursorData, cursorMask, turns, msgs>>
        /\ UNCHANGED <<ceq, ceqHead, ceqTail>>
        /\ (spc' = "advance") <=> (spc = "advance")
        /\ (spc' = "mask") <=> (spc = "mask")
        /\ CeIdle /\ CeIdle'
    BY <1>27 DEF SetElsewhere, MayCall, CeIdle, ring, host, window, service, pixels, hist
  <2>2. \A i \in Slots : Undone(i)' <=> Undone(i)
    BY <2>1, PendingKept DEF Undone
  <2>3. SaidImages' /\ (SetSaid' <=> SetSaid)
    BY <2>1, SaidKept DEF Images
  <2>4. RingPart'
    BY <2>1, <2>2, <2>3, RingPartKept DEF Images
  <2>5. HalfImage'
    BY <2>1 DEF HalfImage, Images
  <2> QED
    BY <2>3, <2>4, <2>5 DEF Images
<1>28. ASSUME NEW f \in Frames, NotSent(f) PROVE Images'
  <2>1. /\ UNCHANGED <<want, nd_cursorData, cursorData, cursorMask, turns, msgs>>
        /\ UNCHANGED <<ceq, ceqHead, ceqTail>>
        /\ (spc' = "advance") <=> (spc = "advance")
        /\ (spc' = "mask") <=> (spc = "mask")
        /\ CeIdle /\ CeIdle'
    BY <1>28 DEF NotSent, MayCall, CeIdle, ring, host, window, service, pixels, hist
  <2>2. \A i \in Slots : Undone(i)' <=> Undone(i)
    BY <2>1, PendingKept DEF Undone
  <2>3. SaidImages' /\ (SetSaid' <=> SetSaid)
    BY <2>1, SaidKept DEF Images
  <2>4. RingPart'
    BY <2>1, <2>2, <2>3, RingPartKept DEF Images
  <2>5. HalfImage'
    BY <2>1 DEF HalfImage, Images
  <2> QED
    BY <2>3, <2>4, <2>5 DEF Images
<1>7. CASE CopyMask
  <2>1. /\ hpc = "mask" /\ hpc' = "push" /\ cursorMask' = calls /\ cursorData = calls /\ ce.what = "set"
        /\ UNCHANGED <<ceq, ceqHead, ceqTail, cursorData, ce, want, nd_cursorData, msgs, spc, turns>>
    BY <1>7 DEF CopyMask, window, service, pixels, hist, Images, RingPart, OneImage
  <2>2. \A i \in Slots : (Undone(i)' <=> Undone(i)) /\ ~(Undone(i) /\ ceq[i].what = "set")
    BY <2>1, PendingKept DEF Undone, Images, RingPart, OneImage
  <2>3. SaidImages' /\ (SetSaid' <=> SetSaid)
    BY <2>1, SaidKept DEF Images
  <2>4. OneImage' /\ RingImages'
    BY <2>1, <2>2 DEF OneImage, SetOnWay, RingImages, RingSet
  <2>5. CeImages'
    BY <2>1 DEF CeImages, CeSet, Images, RingPart
  <2>6. LoadedImages'
    BY <2>1, <2>2, <2>3 DEF LoadedImages, CeSet, RingSet, Images, RingPart
  <2>7. HalfImage'
    BY <2>1 DEF HalfImage, Images
  <2> QED
    BY <2>3, <2>4, <2>5, <2>6, <2>7 DEF Images, RingPart
<1>8. CASE StoreEvent
  <2>1. /\ UNCHANGED <<want, nd_cursorData, cursorData, cursorMask, turns, msgs, ceqHead, ceqTail, spc>>
        /\ hpc = "push" /\ hpc' = "publish" /\ ce' = ce /\ ceq' = [ceq EXCEPT ![ceqHead] = ce]
    BY <1>8 DEF StoreEvent, window, service, pixels, hist
  <2>2. \A i \in Slots : (Undone(i)' <=> Undone(i)) /\ (Undone(i) => i # ceqHead)
    BY <2>1, PendingKept, PendingIs DEF Undone, Typed
  <2>3. \A i \in Slots : i # ceqHead => ceq'[i] = ceq[i]
    BY <2>1 DEF Typed, RingTyped
  <2>4. SaidImages' /\ (SetSaid' <=> SetSaid)
    BY <2>1, SaidKept DEF Images
  <2>5. RingPart'
    BY <2>1, <2>2, <2>3, <2>4, RingPartKept DEF Images
  <2>6. HalfImage'
    BY <2>1 DEF HalfImage, Images
  <2> QED
    BY <2>4, <2>5, <2>6 DEF Images
<1>9. CASE Publish
  <2>1. /\ UNCHANGED <<want, nd_cursorData, cursorData, cursorMask, turns, msgs, ceq, ceqTail, spc>>
        /\ hpc = "publish" /\ hpc' = "idle" /\ ceqHead' = NextSlot(ceqHead) /\ NextSlot(ceqHead) # ceqTail
        /\ ceq[ceqHead] = ce /\ spc = "receive" /\ ceqHead \in Slots
    BY <1>9 DEF Publish, Events, Turn, window, service, pixels, hist, Typed, RingTyped
  <2>2. \A i \in Slots : Undone(i)' <=> Undone(i) \/ i = ceqHead
    BY <2>1, HeadPasses DEF Undone, Typed
  <2>3. SaidImages' /\ (SetSaid' <=> SetSaid)
    BY <2>1, SaidKept DEF Images
  <2>4. \A f \in Frames, i \in Slots : RingSet(i, f)' <=> RingSet(i, f) \/ (i = ceqHead /\ CeSet(f))
    BY <2>1, <2>2 DEF RingSet, CeSet
  <2>5. OneImage'
    <3>1. \A i \in Slots : Undone(i) /\ ceq[i].what = "set" => ce.what # "set"
      BY <2>1 DEF Images, RingPart, OneImage
    <3>2. SetOnWay'
      BY <2>1, <2>2, <3>1 DEF SetOnWay, Images, RingPart, OneImage
    <3> QED
      BY <2>1, <3>2 DEF OneImage
  <2>6. RingImages'
    BY <2>1, <2>3, <2>4 DEF RingImages, CeImages, Images, RingPart
  <2>7. CeImages'
    BY <2>1 DEF CeImages, CeSet
  <2>8. LoadedImages'
    BY <2>1, <2>3, <2>4 DEF LoadedImages, Images, RingPart
  <2>9. HalfImage'
    BY <2>1 DEF HalfImage, Images
  <2> QED
    BY <2>3, <2>5, <2>6, <2>7, <2>8, <2>9 DEF Images, RingPart
<1>10. CASE DropEvent
  BY <1>10 DEF DropEvent
<1>11. CASE TakeCursor
  <2> DEFINE r == Say("sync_a", 0, 0)
  <2>1. /\ UNCHANGED <<want, nd_cursorData, cursorData, cursorMask, ceq, ceqHead, ceqTail, hpc, ce, calls, spc>>
        /\ turns' = turns \/ msgs = <<>>
    BY <1>11 DEF TakeCursor, Send, Turn, ring, host, service, pixels, hist, window
  <2>2. Longer(r) /\ r.op # "set"
    BY <1>11, TakeCursorSends DEF Say
  <2>3. \A i \in Slots : Undone(i)' <=> Undone(i)
    BY <2>1, PendingKept DEF Undone
  <2> HIDE DEF r
  <2>4. SaidImages' /\ (SetSaid' <=> SetSaid)
    BY <2>1, <2>2, SaidLonger DEF Images
  <2>5. RingPart'
    BY <2>1, <2>3, <2>4, RingPartKept DEF Images
  <2>6. HalfImage'
    BY <2>1, <2>2 DEF Longer, HalfImage, Images, Flush
  <2> QED
    BY <2>4, <2>5, <2>6 DEF Images
<1>12. CASE NDRemoveCursor
  <2> DEFINE r == Say("remove", 0, 0)
  <2>1. /\ UNCHANGED <<want, nd_cursorData, cursorData, cursorMask, ceq, ceqHead, ceqTail, hpc, ce, calls, spc>>
        /\ turns' = turns \/ msgs = <<>>
    BY <1>12 DEF NDRemoveCursor, Send, Turn, ring, host, service, pixels, hist, window
  <2>2. Longer(r) /\ r.op # "set"
    BY <1>12, NDRemoveCursorSends DEF Say
  <2>3. \A i \in Slots : Undone(i)' <=> Undone(i)
    BY <2>1, PendingKept DEF Undone
  <2> HIDE DEF r
  <2>4. SaidImages' /\ (SetSaid' <=> SetSaid)
    BY <2>1, <2>2, SaidLonger DEF Images
  <2>5. RingPart'
    BY <2>1, <2>3, <2>4, RingPartKept DEF Images
  <2>6. HalfImage'
    BY <2>1, <2>2 DEF Longer, HalfImage, Images, Flush
  <2> QED
    BY <2>4, <2>5, <2>6 DEF Images
<1>13. CASE NDSetCursor
  <2> DEFINE k == MaxEvents + turns
             r == Say("set", k, 0)
  <2>1. /\ UNCHANGED <<nd_cursorData, cursorData, cursorMask, ceq, ceqHead, ceqTail, hpc, ce, spc, turns>>
        /\ want' = [want EXCEPT ![0] = <<k, k>>] /\ want[0] # <<k, k>> /\ hpc = "idle"
    BY <1>13 DEF NDSetCursor, Send, Turn, ring, host, service, pixels, hist, window
  <2>2. Longer(r) /\ r.op = "set" /\ r.arg = k
    BY <1>13, NDSetCursorSends DEF Say
  <2>3. \A i \in Slots : Undone(i)' <=> Undone(i)
    BY <2>1, PendingKept DEF Undone
  <2>4. \A i \in 1..Len(msgs) : msgs[i].op # "set"
    BY <2>1 DEF Images, SaidImages
  <2>5. want'[0] = <<k, k>> /\ \A f \in Frames : f # 0 => want'[f] = want[f]
    BY <2>1, BoundsAreNatural DEF Typed, HistTyped
  <2> HIDE DEF r, k
  <2>6. Len(msgs) + 1 \in 1..Len(msgs') /\ msgs'[Len(msgs) + 1] = r
        /\ \A i \in 1..Len(msgs') : i # Len(msgs) + 1 => i \in 1..Len(msgs) /\ msgs'[i] = msgs[i]
    BY <2>2 DEF Longer
  <2>7. SetSaid' /\ SaidImages'
    BY SMTT(30), <2>1, <2>2, <2>4, <2>5, <2>6 DEF SetSaid, SaidImages, k
  <2>8. OneImage'
    BY <2>1, <2>3 DEF Images, RingPart, OneImage, SetOnWay
  <2>9. RingImages' /\ CeImages'
    BY <2>1, <2>3, <2>5, <2>7 DEF Images, RingPart, RingImages, CeImages, RingSet, CeSet
  <2>10. LoadedImages'
    BY <2>1, <2>3, <2>5, <2>7 DEF Images, RingPart, LoadedImages, RingSet, CeSet
  <2>11. HalfImage'
    <3>1. spc # "mask"
      <4>1. SUFFICES ASSUME spc = "mask" PROVE FALSE
        OBVIOUS
      <4>2. msgs # <<>> /\ Head(msgs).op = "set"
        BY <4>1 DEF Flush
      <4>3. Head(msgs) = msgs[1] /\ 1 \in 1..Len(msgs)
        BY <4>2, FirstIs DEF Typed
      <4> QED
        BY <2>4, <4>2, <4>3
    <3> QED
      BY <2>1, <3>1 DEF HalfImage
  <2> QED
    BY <2>7, <2>8, <2>9, <2>10, <2>11 DEF Images, RingPart
<1>14. ASSUME NEW p \in Places, Draw(p) PROVE Images'
  <2> DEFINE r == Say("draw", draws + 1, p)
  <2>1. /\ UNCHANGED <<want, nd_cursorData, cursorData, cursorMask, ceq, ceqHead, ceqTail, hpc, ce, calls, spc>>
        /\ turns' = turns \/ msgs = <<>>
    BY <1>14 DEF Draw, Send, Turn, ring, host, service, pixels, hist, window
  <2>2. Longer(r) /\ r.op # "set"
    BY <1>14, DrawSends DEF Say
  <2>3. \A i \in Slots : Undone(i)' <=> Undone(i)
    BY <2>1, PendingKept DEF Undone
  <2> HIDE DEF r
  <2>4. SaidImages' /\ (SetSaid' <=> SetSaid)
    BY <2>1, <2>2, SaidLonger DEF Images
  <2>5. RingPart'
    BY <2>1, <2>3, <2>4, RingPartKept DEF Images
  <2>6. HalfImage'
    BY <2>1, <2>2 DEF Longer, HalfImage, Images, Flush
  <2> QED
    BY <2>4, <2>5, <2>6 DEF Images
<1>15. CASE NDDisplayCursor
  <2> DEFINE r == Say("display", 0, shown)
  <2>1. /\ UNCHANGED <<want, nd_cursorData, cursorData, cursorMask, ceq, ceqHead, ceqTail, hpc, ce, calls, spc>>
        /\ turns' = turns \/ msgs = <<>>
    BY <1>15 DEF NDDisplayCursor, Send, Turn, ring, host, service, pixels, hist, window
  <2>2. Longer(r) /\ r.op # "set"
    BY <1>15, NDDisplayCursorSends DEF Say
  <2>3. \A i \in Slots : Undone(i)' <=> Undone(i)
    BY <2>1, PendingKept DEF Undone
  <2> HIDE DEF r
  <2>4. SaidImages' /\ (SetSaid' <=> SetSaid)
    BY <2>1, <2>2, SaidLonger DEF Images
  <2>5. RingPart'
    BY <2>1, <2>3, <2>4, RingPartKept DEF Images
  <2>6. HalfImage'
    BY <2>1, <2>2 DEF Longer, HalfImage, Images, Flush
  <2> QED
    BY <2>4, <2>5, <2>6 DEF Images
<1>16. CASE LeaveCursor
  <2> DEFINE r == Say("sync", 0, 0)
  <2>1. /\ UNCHANGED <<want, nd_cursorData, cursorData, cursorMask, ceq, ceqHead, ceqTail, hpc, ce, calls, spc>>
        /\ turns' = turns \/ msgs = <<>>
    BY <1>16 DEF LeaveCursor, Send, Turn, ring, host, service, pixels, hist, window
  <2>2. Longer(r) /\ r.op # "set"
    BY <1>16, LeaveCursorSends DEF Say
  <2>3. \A i \in Slots : Undone(i)' <=> Undone(i)
    BY <2>1, PendingKept DEF Undone
  <2> HIDE DEF r
  <2>4. SaidImages' /\ (SetSaid' <=> SetSaid)
    BY <2>1, <2>2, SaidLonger DEF Images
  <2>5. RingPart'
    BY <2>1, <2>3, <2>4, RingPartKept DEF Images
  <2>6. HalfImage'
    BY <2>1, <2>2 DEF Longer, HalfImage, Images, Flush
  <2> QED
    BY <2>4, <2>5, <2>6 DEF Images
<1>17. CASE CursorTask
  <2>1. /\ UNCHANGED <<want, nd_cursorData, cursorData, cursorMask, turns, msgs>>
        /\ UNCHANGED <<ceq, ceqHead, ceqTail>>
        /\ (spc' = "advance") <=> (spc = "advance")
        /\ (spc' = "mask") <=> (spc = "mask")
        /\ UNCHANGED <<hpc, ce, calls>>
    BY <1>17 DEF CursorTask, CeIdle, ring, host, window, service, pixels, hist
  <2>2. \A i \in Slots : Undone(i)' <=> Undone(i)
    BY <2>1, PendingKept DEF Undone
  <2>3. SaidImages' /\ (SetSaid' <=> SetSaid)
    BY <2>1, SaidKept DEF Images
  <2>4. RingPart'
    BY <2>1, <2>2, <2>3, RingPartKept DEF Images
  <2>5. HalfImage'
    BY <2>1 DEF HalfImage, Images
  <2> QED
    BY <2>3, <2>4, <2>5 DEF Images
<1>18. CASE RetraceEvent
  <2> DEFINE e == ceq[ceqTail]
  <2>1. /\ e \in Event /\ Execute(e) /\ ceqTail \in Slots
        /\ UNCHANGED <<ceq, ceqHead, hpc, ce, calls, want, cursorData, cursorMask, msgs, turns>>
        /\ ceqTail # ceqHead /\ spc # "advance" /\ spc # "mask" /\ spc' # "mask"
    BY <1>18 DEF RetraceEvent, service, RingTyped, Typed, BoardTyped, Turn, RingFirst, Flush, Flushing, host, window, hist
  <2>2. Undone(ceqTail) /\ e.what # "none" /\ \A i \in Slots : Undone(i)' <=> Undone(i) /\ i # ceqTail
    <3>1. ceqTail' = NextSlot(ceqTail) /\ spc' = spc
      BY <1>18 DEF RetraceEvent, service
    <3>2. \A i \in Slots : Pending(i)' <=> Pending(i) /\ i # ceqTail
      BY <2>1, <3>1, TailPasses DEF Typed
    <3> QED
      BY <2>1, <3>1, <3>2, PendingIs DEF Undone, Typed, Events
  <2>3. SaidImages' /\ (SetSaid' <=> SetSaid)
    BY <2>1, SaidKept DEF Images
  <2>4. HalfImage'
    BY <2>1 DEF HalfImage
  <2> HIDE DEF e
  <2>5. CASE e.what # "set"
    <3>1. nd_cursorData' = nd_cursorData
      BY <2>1, <2>2, <2>5 DEF Execute, Event
    <3>2. RingPart'
      BY <2>1, <2>2, <2>3, <2>5, <3>1, RingPartKept DEF Images, e
    <3> QED
      BY <2>3, <2>4, <3>2 DEF Images
  <2>6. CASE e.what = "set"
    <3>1. nd_cursorData' = [nd_cursorData EXCEPT ![e.frame] = <<cursorData, cursorMask>>] /\ e.frame \in Frames
      BY <2>1, <2>6 DEF Execute, SetCursor, Event
    <3>2. RingSet(ceqTail, e.frame)
      BY <2>1, <2>2, <2>6 DEF RingSet, e
    <3>3. \A i \in Slots : ~(Undone(i)' /\ ceq[i].what = "set")
      BY <2>1, <2>2, <2>6 DEF Images, RingPart, OneImage, SetOnWay, e
    <3>4. OneImage' /\ RingImages'
      BY <2>1, <3>3 DEF OneImage, SetOnWay, RingImages, RingSet, Images, RingPart
    <3>5. CeImages'
      BY <2>1 DEF CeImages, CeSet, Images, RingPart
    <3>6. LoadedImages'
      <4>1. SUFFICES ASSUME NEW f \in Frames, ~CeSet(f), ~(f = 0 /\ SetSaid)
                     PROVE  nd_cursorData'[f] = want[f]
        BY <2>1, <2>3 DEF LoadedImages, CeSet
      <4>2. CASE f = e.frame
        <5>1. want[f] = <<cursorData, cursorMask>>
          BY <2>1, <3>2, <4>1, <4>2 DEF Images, RingPart, RingImages
        <5> QED
          BY <3>1, <4>2, <5>1 DEF Typed, PixelsTyped
      <4>3. CASE f # e.frame
        <5>1. \A i \in Slots : ~RingSet(i, f)
          BY <2>1, <2>2, <3>3, <4>3 DEF RingSet, e
        <5>2. nd_cursorData[f] = want[f]
          BY <4>1, <5>1 DEF Images, RingPart, LoadedImages
        <5> QED
          BY <3>1, <4>3, <5>2 DEF Typed, PixelsTyped
      <4> QED
        BY <4>2, <4>3
    <3> QED
      BY <2>3, <2>4, <3>4, <3>5, <3>6 DEF Images, RingPart
  <2> QED
    BY <2>5, <2>6
<1>19. CASE ServeDraw
  <2>1. /\ UNCHANGED <<want, nd_cursorData, cursorData, cursorMask, ceq, ceqHead, ceqTail, hpc, ce, calls, turns>>
        /\ spc # "advance" /\ spc' \notin {"advance", "mask"}
    BY <1>19 DEF ServeDraw, Serving, Return, DisplayOn, ring, host, window, hist
  <2>2. Shorter /\ msgs # <<>> /\ Head(msgs).op # "set"
    BY <1>19, TakenIs DEF ServeDraw, Serving, Return, Typed
  <2>3. \A i \in Slots : Undone(i)' <=> Undone(i)
    BY <2>1, PendingKept DEF Undone
  <2>4. SaidImages' /\ (SetSaid' <=> SetSaid)
    BY <2>1, <2>2, SaidShorter DEF Images, Typed
  <2>5. RingPart'
    BY <2>1, <2>3, <2>4, RingPartKept DEF Images
  <2>6. HalfImage'
    BY <2>1 DEF HalfImage
  <2> QED
    BY <2>4, <2>5, <2>6 DEF Images
<1>20. CASE FlushCEQ
  <2>1. /\ UNCHANGED <<want, nd_cursorData, cursorData, cursorMask, turns, msgs>>
        /\ UNCHANGED <<ceq, ceqHead, ceqTail>>
        /\ (spc' = "advance") <=> (spc = "advance")
        /\ (spc' = "mask") <=> (spc = "mask")
        /\ UNCHANGED <<hpc, ce, calls>>
    BY <1>20 DEF FlushCEQ, CeIdle, ring, host, window, service, pixels, hist
  <2>2. \A i \in Slots : Undone(i)' <=> Undone(i)
    BY <2>1, PendingKept DEF Undone
  <2>3. SaidImages' /\ (SetSaid' <=> SetSaid)
    BY <2>1, SaidKept DEF Images
  <2>4. RingPart'
    BY <2>1, <2>2, <2>3, RingPartKept DEF Images
  <2>5. HalfImage'
    BY <2>1 DEF HalfImage, Images
  <2> QED
    BY <2>3, <2>4, <2>5 DEF Images
<1>21. CASE FlushEvent
  <2> DEFINE e == ceq[ceqTail]
  <2>1. /\ e \in Event /\ Execute(e) /\ ceqTail \in Slots
        /\ UNCHANGED <<ceq, ceqHead, hpc, ce, calls, want, cursorData, cursorMask, msgs, turns>>
        /\ ceqTail # ceqHead /\ spc # "advance" /\ spc # "mask" /\ spc' # "mask"
    BY <1>21 DEF FlushEvent, Emptied, ring, RingTyped, Typed, BoardTyped, Turn, RingFirst, Flush, Flushing, host, window, hist
  <2>2. Undone(ceqTail) /\ e.what # "none" /\ \A i \in Slots : Undone(i)' <=> Undone(i) /\ i # ceqTail
    <3>1. spc' = "advance" /\ ceqTail' = ceqTail
      BY <1>21 DEF FlushEvent, ring
    <3>2. \A i \in Slots : Pending(i)' <=> Pending(i)
      BY <2>1, <3>1, PendingKept
    <3> QED
      BY <2>1, <3>1, <3>2, PendingIs DEF Undone, Typed, Events
  <2>3. SaidImages' /\ (SetSaid' <=> SetSaid)
    BY <2>1, SaidKept DEF Images
  <2>4. HalfImage'
    BY <2>1 DEF HalfImage
  <2> HIDE DEF e
  <2>5. CASE e.what # "set"
    <3>1. nd_cursorData' = nd_cursorData
      BY <2>1, <2>2, <2>5 DEF Execute, Event
    <3>2. RingPart'
      BY <2>1, <2>2, <2>3, <2>5, <3>1, RingPartKept DEF Images, e
    <3> QED
      BY <2>3, <2>4, <3>2 DEF Images
  <2>6. CASE e.what = "set"
    <3>1. nd_cursorData' = [nd_cursorData EXCEPT ![e.frame] = <<cursorData, cursorMask>>] /\ e.frame \in Frames
      BY <2>1, <2>6 DEF Execute, SetCursor, Event
    <3>2. RingSet(ceqTail, e.frame)
      BY <2>1, <2>2, <2>6 DEF RingSet, e
    <3>3. \A i \in Slots : ~(Undone(i)' /\ ceq[i].what = "set")
      BY <2>1, <2>2, <2>6 DEF Images, RingPart, OneImage, SetOnWay, e
    <3>4. OneImage' /\ RingImages'
      BY <2>1, <3>3 DEF OneImage, SetOnWay, RingImages, RingSet, Images, RingPart
    <3>5. CeImages'
      BY <2>1 DEF CeImages, CeSet, Images, RingPart
    <3>6. LoadedImages'
      <4>1. SUFFICES ASSUME NEW f \in Frames, ~CeSet(f), ~(f = 0 /\ SetSaid)
                     PROVE  nd_cursorData'[f] = want[f]
        BY <2>1, <2>3 DEF LoadedImages, CeSet
      <4>2. CASE f = e.frame
        <5>1. want[f] = <<cursorData, cursorMask>>
          BY <2>1, <3>2, <4>1, <4>2 DEF Images, RingPart, RingImages
        <5> QED
          BY <3>1, <4>2, <5>1 DEF Typed, PixelsTyped
      <4>3. CASE f # e.frame
        <5>1. \A i \in Slots : ~RingSet(i, f)
          BY <2>1, <2>2, <3>3, <4>3 DEF RingSet, e
        <5>2. nd_cursorData[f] = want[f]
          BY <4>1, <5>1 DEF Images, RingPart, LoadedImages
        <5> QED
          BY <3>1, <4>3, <5>2 DEF Typed, PixelsTyped
      <4> QED
        BY <4>2, <4>3
    <3> QED
      BY <2>3, <2>4, <3>4, <3>5, <3>6 DEF Images, RingPart
  <2> QED
    BY <2>5, <2>6
<1>22. CASE FlushAdvance
  <2>1. /\ UNCHANGED <<want, nd_cursorData, cursorData, cursorMask, turns, msgs, ceq, ceqHead, hpc, ce, calls>>
        /\ ceqTail # ceqHead /\ ceqTail' = NextSlot(ceqTail) /\ spc = "advance" /\ spc' = "process"
    BY <1>22 DEF FlushAdvance, Flush, Flushing, host, window, pixels, hist
  <2>2. \A i \in Slots : Undone(i)' <=> Undone(i)
    BY <2>1, TailPasses DEF Undone, Typed
  <2>3. SaidImages' /\ (SetSaid' <=> SetSaid)
    BY <2>1, SaidKept DEF Images
  <2>4. RingPart'
    BY <2>1, <2>2, <2>3, RingPartKept DEF Images
  <2>5. HalfImage'
    BY <2>1 DEF HalfImage
  <2> QED
    BY <2>3, <2>4, <2>5 DEF Images
<1>23. CASE Flushed
  <2>0. /\ UNCHANGED <<want, nd_cursorData, cursorData, cursorMask, ceq, ceqHead, ceqTail, hpc, ce, calls, turns>>
        /\ spc = "process" /\ spc' \notin {"advance", "mask"} /\ msgs # <<>> /\ ~inRetrace
    BY <1>23 DEF Flushed, Serving, Return, Flush, Flushing, ring, host, hist, pixels
  <2>1. \A i \in Slots : Undone(i)' <=> Undone(i)
    BY <2>0, PendingKept DEF Undone
  <2>2. SaidImages' /\ (SetSaid' <=> SetSaid)
    <3>1. CASE Head(msgs).op \in {"sync", "sync_a"}
      <4>1. Shorter
        BY <1>23, <2>0, <3>1, TakenIs DEF Flushed, Serving, Return, Typed
      <4> QED
        BY <2>0, <3>1, <4>1, SaidShorter DEF Images, Typed
    <3>2. CASE Head(msgs).op \notin {"sync", "sync_a"}
      <4>1. msgs' = msgs
        BY <1>23, <3>2 DEF Flushed, Serving
      <4> QED
        BY <2>0, <4>1, SaidKept DEF Images
    <3> QED
      BY <3>1, <3>2
  <2>3. RingPart'
    BY <2>0, <2>1, <2>2, RingPartKept DEF Images
  <2>4. HalfImage'
    BY <2>0 DEF HalfImage
  <2> QED
    BY <2>2, <2>3, <2>4 DEF Images
<1>24. CASE HandlerRemoves
  <2>1. /\ UNCHANGED <<want, nd_cursorData, cursorData, cursorMask, ceq, ceqHead, ceqTail, hpc, ce, calls, turns>>
        /\ spc # "advance" /\ spc' \notin {"advance", "mask"}
    BY <1>24 DEF HandlerRemoves, Serving, Return, DisplayOn, ring, host, window, hist
  <2>2. Shorter /\ msgs # <<>> /\ Head(msgs).op # "set"
    BY <1>24, TakenIs DEF HandlerRemoves, Serving, Return, Typed
  <2>3. \A i \in Slots : Undone(i)' <=> Undone(i)
    BY <2>1, PendingKept DEF Undone
  <2>4. SaidImages' /\ (SetSaid' <=> SetSaid)
    BY <2>1, <2>2, SaidShorter DEF Images, Typed
  <2>5. RingPart'
    BY <2>1, <2>3, <2>4, RingPartKept DEF Images
  <2>6. HalfImage'
    BY <2>1 DEF HalfImage
  <2> QED
    BY <2>4, <2>5, <2>6 DEF Images
<1>25. CASE HandlerDisplays
  <2>1. /\ UNCHANGED <<want, nd_cursorData, cursorData, cursorMask, ceq, ceqHead, ceqTail, hpc, ce, calls, turns>>
        /\ spc # "advance" /\ spc' \notin {"advance", "mask"}
    BY <1>25 DEF HandlerDisplays, Serving, Return, DisplayOn, ring, host, window, hist
  <2>2. Shorter /\ msgs # <<>> /\ Head(msgs).op # "set"
    BY <1>25, TakenIs DEF HandlerDisplays, Serving, Return, Typed
  <2>3. \A i \in Slots : Undone(i)' <=> Undone(i)
    BY <2>1, PendingKept DEF Undone
  <2>4. SaidImages' /\ (SetSaid' <=> SetSaid)
    BY <2>1, <2>2, SaidShorter DEF Images, Typed
  <2>5. RingPart'
    BY <2>1, <2>3, <2>4, RingPartKept DEF Images
  <2>6. HalfImage'
    BY <2>1 DEF HalfImage
  <2> QED
    BY <2>4, <2>5, <2>6 DEF Images
<1>26. CASE HandlerSets
  <2>1. /\ UNCHANGED <<want, cursorData, cursorMask, ceq, ceqHead, ceqTail, hpc, ce, calls, turns>>
        /\ spc # "advance" /\ spc' # "advance" /\ hpc = "idle" /\ ceqHead = ceqTail
        /\ msgs # <<>> /\ Head(msgs).op = "set" /\ spc \in {"done", "mask"}
    BY <1>26 DEF HandlerSets, Serving, Return, Turn, RingFirst, ring, host, window, hist
  <2>2. \A i \in Slots : ~Undone(i) /\ ~Undone(i)'
    BY <2>1, PendingKept, PendingIs DEF Undone, Typed
  <2>3. 0 \in Frames /\ Head(msgs) = msgs[1] /\ 1 \in 1..Len(msgs) /\ SetSaid
    <3>1. Head(msgs) = msgs[1] /\ 1 \in 1..Len(msgs)
      BY <2>1, FirstIs DEF Typed
    <3> QED
      BY <2>1, <3>1, BoundsAreNatural DEF SetSaid
  <2>4. \A f \in Frames : f # 0 => nd_cursorData'[f] = nd_cursorData[f] /\ nd_cursorData[f] = want[f]
    <3>1. \A f \in Frames : f # 0 => nd_cursorData'[f] = nd_cursorData[f]
      BY <1>26 DEF HandlerSets, Typed, PixelsTyped
    <3>2. \A f \in Frames : f # 0 => nd_cursorData[f] = want[f]
      BY <2>1, <2>2 DEF RingSet, CeSet, Images, RingPart, LoadedImages
    <3> QED
      BY <3>1, <3>2
  <2>5. OneImage' /\ RingImages' /\ CeImages'
    BY <2>1, <2>2 DEF OneImage, SetOnWay, RingImages, CeImages, RingSet, CeSet
  <2>6. PICK a \in 0..MaxEvents + MaxTurns, b \in 0..MaxEvents + MaxTurns : nd_cursorData[0] = <<a, b>>
    BY <2>3 DEF Image, Typed, PixelsTyped
  <2>7. CASE spc = "done"
    <3>1. spc' = "mask" /\ msgs' = msgs /\ nd_cursorData' = [nd_cursorData EXCEPT ![0][1] = Head(msgs).arg]
      BY <1>26, <2>7 DEF HandlerSets
    <3>2. SaidImages' /\ SetSaid'
      BY <2>1, <2>3, <3>1, SaidKept DEF Images
    <3>3. nd_cursorData'[0] = <<Head(msgs).arg, b>>
      BY <2>3, <2>6, <3>1 DEF Typed, PixelsTyped
    <3>4. HalfImage'
      BY <3>1, <3>3 DEF HalfImage
    <3>5. LoadedImages'
      BY <2>1, <2>4, <3>2 DEF LoadedImages
    <3> QED
      BY <2>5, <3>2, <3>4, <3>5 DEF Images, RingPart
  <2>8. CASE spc = "mask"
    <3>1. spc' = "receive" /\ Shorter /\ nd_cursorData' = [nd_cursorData EXCEPT ![0][2] = Head(msgs).arg]
      BY <1>26, <2>1, <2>8, TakenIs DEF HandlerSets, Return, Typed
    <3>2. SaidImages' /\ ~SetSaid'
      BY <2>1, <3>1, SaidShorter DEF Images, Typed
    <3>3. nd_cursorData'[0] = <<a, Head(msgs).arg>>
      BY <2>3, <2>6, <3>1 DEF Typed, PixelsTyped
    <3>4. HalfImage'
      BY <3>1 DEF HalfImage
    <3>5. nd_cursorData'[0] = want[0]
      <4>1. a = Head(msgs).arg
        BY <2>6, <2>8 DEF Images, HalfImage
      <4>2. want[0] = <<Head(msgs).arg, Head(msgs).arg>>
        BY <2>1, <2>3 DEF Images, SaidImages
      <4> QED
        BY <3>3, <4>1, <4>2
    <3>6. LoadedImages'
      BY <2>1, <2>4, <3>5 DEF LoadedImages
    <3> QED
      BY <2>5, <3>2, <3>4, <3>6 DEF Images, RingPart
  <2> QED
    BY <2>1, <2>7, <2>8
<1> QED
  BY <1>1, <1>2, <1>3, <1>4, <1>5, <1>6, <1>7, <1>8, <1>9, <1>10, <1>11, <1>12, <1>13, <1>14, <1>15, <1>16, <1>17, <1>18, <1>19, <1>20, <1>21, <1>22, <1>23, <1>24, <1>25, <1>26, <1>27, <1>28
     DEF CursorNext, HostCalls, HostRuns, WindowServer, Retrace, ServerRuns

\* The inductive invariant.
CursorIInv == Typed /\ Turn /\ Flush /\ Events /\ Requests /\ PathInv /\ ImageInv

\* The invariant holds at the beginning ...
LEMMA CursorIInvInit ==
  ASSUME CursorInit
  PROVE  CursorIInv
<1> USE DEF CursorInit
<1>1. Blank \in Image /\ Clear \in Pixel /\ NoEvent \in Event /\ 0 \in Slots
  BY CursorAssumption, BoundsAreNatural DEF Blank, Image, Clear, Pixel, NoEvent, Event, Slots
<1>2. RingTyped
  BY <1>1, BoundsAreNatural DEF RingTyped, Slots
<1>3. HostTyped /\ BoardTyped
  <2>1. 0 \in 0..MaxEvents /\ 0 \in Where
    BY BoundsAreNatural DEF Where
  <2> QED
    BY <1>1, <2>1 DEF HostTyped, BoardTyped
<1>4. WindowTyped /\ Len(msgs) = 0
  BY BoundsAreNatural, EmptySeq DEF WindowTyped
<1>5. PixelsTyped /\ HistTyped
  <2>1. 0 \in 0..MaxDraws /\ 0 \in Where /\ 0 \in Frames
    BY BoundsAreNatural DEF Where
  <2>2. screen \in [Places -> Pixel] /\ ink \in [Places -> 0..MaxDraws]
    BY <1>1, <2>1
  <2>3. nd_cursorData \in [Frames -> Image] /\ want \in [Frames -> Image]
    BY <1>1
  <2> QED
    BY <1>1, <2>1, <2>2, <2>3 DEF PixelsTyped, HistTyped
<1>6. Typed
  BY <1>2, <1>3, <1>4, <1>5 DEF Typed
<1>7. \A i \in Slots : ~Pending(i) /\ ~Undone(i)
  BY DEF Pending, Undone, Slots
<1>8. Turn /\ Flush /\ Requests
  BY <1>4 DEF Turn, Flush, Flushing, Requests, RingFirst
<1>9. Events
  BY <1>7 DEF Events, Placed, NoEvent, Slots
<1>10. Inked
  BY DEF Inked, Clear
<1>11. Path
  <2>1. ScreenAt(0) /\ 0 \in Where
    BY PlaceIs DEF ScreenAt, Clear
  <2>2. RingLeads(0, 0) /\ Believed(0)
    BY <1>2, <2>1, EmptyRingLeads DEF Believed
  <2>3. MsgsLead(0, 0)
    BY <2>1, NoMsgsLead
  <2>4. Leads(0)
    BY <2>1, <2>2, <2>3 DEF Leads, RingFirst, Expected
  <2> QED
    BY <2>1, <2>4 DEF Path
<1>12. Images
  BY <1>4, <1>7 DEF Images, RingPart, OneImage, SetOnWay, RingImages, CeImages, LoadedImages,
                    SaidImages, HalfImage, RingSet, CeSet
<1> QED
  BY <1>6, <1>8, <1>9, <1>10, <1>11, <1>12 DEF CursorIInv, PathInv, ImageInv

\* (once an event is dropped or an image lost, it stays so) ...
LEMMA HistoryStep ==
  ASSUME Typed, [CursorNext]_cursorVars
  PROVE  /\ ~dropped' => ~dropped
         /\ ~imageLost' => ~imageLost
<1> USE DEF Typed, HistTyped, hist
<1> QED
  BY DEF CursorNext, HostCalls, HostRuns, WindowServer, Retrace, ServerRuns, cursorVars,
     ND_MoveCursor, ND_DisplayCursor, ND_RemoveCursor, ND_SetCursor, SetElsewhere, NotSent, ND_RegisterThyself, CopyMask, StoreEvent, Publish, DropEvent, TakeCursor, NDRemoveCursor, NDSetCursor, Draw, NDDisplayCursor, LeaveCursor, CursorTask, RetraceEvent, ServeDraw, FlushCEQ, FlushEvent, FlushAdvance, Flushed, HandlerRemoves, HandlerDisplays, HandlerSets

\* ... is kept by every step ...
LEMMA CursorIInvStep ==
  ASSUME SyncFirst, SyncLast, CursorIInv, [CursorNext]_cursorVars
  PROVE  CursorIInv'
<1>1. Typed /\ Turn /\ Flush /\ Events /\ Requests /\ PathInv /\ ImageInv
  BY DEF CursorIInv
<1>2. HostTyped'
  BY <1>1, HostTypedStep
<1>3. Typed'
  BY <1>1, <1>2, RingTypedStep, WindowTypedStep, BoardTypedStep, PixelsTypedStep, HistTypedStep DEF Typed
<1>4. Turn' /\ Flush' /\ Events' /\ Requests'
  BY <1>1, TurnStep, FlushStep, EventsStep, RequestsStep
<1>5. PathInv'
  <2>1. SUFFICES ASSUME ~dropped'
                 PROVE  Inked' /\ Path'
    BY DEF PathInv
  <2>2. Inked /\ Path
    BY <1>1, <2>1, HistoryStep DEF PathInv
  <2>3. PICK c \in Where : ScreenAt(c) /\ Leads(c)
    BY <2>2 DEF Path
  <2> QED
    BY <1>1, <1>2, <2>1, <2>2, <2>3, PathStep
<1>6. ImageInv'
  <2>1. SUFFICES ASSUME ~dropped', ~imageLost'
                 PROVE  Images'
    BY DEF ImageInv
  <2>2. Images
    BY <1>1, <2>1, HistoryStep DEF ImageInv
  <2> QED
    BY <1>1, <1>2, <2>1, <2>2, ImagesStep
<1> QED
  BY <1>3, <1>4, <1>5, <1>6 DEF CursorIInv

\* ... and gives the properties.
LEMMA CursorIInvSound ==
  ASSUME CursorIInv
  PROVE  ScreenSound /\ DrawingKept
<1>1. Typed /\ Flush /\ PathInv /\ ImageInv
  BY DEF CursorIInv
<1>2. CursorTypeOK
  <2>1. nd_flushCEQ \in 0..1
    BY <1>1 DEF Flush
  <2>2. {ceqHead, ceqTail, theTail} \subseteq 0..CEQSIZE - 1 /\ {cursorData, cursorMask} \subseteq 0..MaxEvents
        /\ ceq \in [0..CEQSIZE - 1 -> Event]
    BY <1>1 DEF Typed, RingTyped, Slots
  <2>3. {dropped, imageLost} \subseteq BOOLEAN /\ want \in [Frames -> Image] /\ elsewhere \subseteq Frames
    BY <1>1 DEF Typed, HistTyped
  <2>4. shown \in 0..NPlaces /\ nd_saveRect \in 0..NPlaces
    BY <1>1 DEF Typed, HostTyped, PixelsTyped, Where
  <2> QED
    BY <1>1, <2>1, <2>2, <2>3, <2>4 DEF CursorTypeOK, Typed, HostTyped, WindowTyped, BoardTyped, PixelsTyped
<1>3. CursorWhereHostSays
  <2>1. SUFFICES ASSUME Quiet, ~dropped
                 PROVE  {p \in Places : screen[p].cur # {}} = IF shown = 0 THEN {} ELSE {shown}
    BY DEF CursorWhereHostSays
  <2>2. PICK c \in Where : ScreenAt(c) /\ Leads(c)
    BY <1>1, <2>1 DEF PathInv, Path
  <2>3. PICK d \in Where : RingLeads(c, d) /\ d = shown
    BY <2>1, <2>2 DEF Leads, RingFirst, Believed, Quiet
  <2>4. c = shown
    BY <1>1, <2>1, <2>3, EmptyRingLeads DEF Quiet, Typed
  <2> QED
    BY <2>2, <2>4, PlaceIs DEF ScreenAt
<1>4. ImagesAsSet
  <2>1. SUFFICES ASSUME Quiet, ~dropped, ~imageLost
                 PROVE  nd_cursorData = want
    BY DEF ImagesAsSet
  <2>2. Images
    BY <1>1, <2>1 DEF ImageInv
  <2>3. \A i \in Slots : ~Undone(i)
    BY <1>1, <2>1, PendingIs DEF Undone, Quiet, Typed
  <2>4. ~SetSaid
    BY <2>1, EmptySeq DEF Quiet, SetSaid
  <2>5. \A f \in Frames : nd_cursorData[f] = want[f]
    BY <2>1, <2>2, <2>3, <2>4 DEF Images, RingPart, LoadedImages, RingSet, CeSet, Quiet
  <2> QED
    BY <1>1, <2>5 DEF Typed, PixelsTyped, HistTyped
<1>5. DrawingKept
  BY <1>1 DEF DrawingKept, PathInv, Inked
<1> QED
  BY <1>2, <1>3, <1>4, <1>5 DEF ScreenSound

\* The inductive invariant holds throughout.
LEMMA CursorIInvCorrect ==
  ASSUME SyncFirst, SyncLast
  PROVE  CursorSpec => []CursorIInv
<1>1. CursorInit => CursorIInv
  BY CursorIInvInit
<1>2. CursorIInv /\ [CursorNext]_cursorVars => CursorIInv'
  BY CursorIInvStep
<1> QED
  BY <1>1, <1>2, PTL DEF CursorSpec

\* Whatever the size of the ring, the frames and the places: when all that was begun
\* has been carried out, the one cursor on the screen is where the host believes it
\* to be and every frame holds its image, unless an event was dropped, an image
\* overtaken or, waitCache holding it for another board, not sent (ND_PushCEQ,
\* ProcessCEQ, FlushCEQ, the handlers ps_*_cursor).
THEOREM ScreenCorrect ==
  ASSUME SyncFirst, SyncLast
  PROVE  CursorSpec => []ScreenSound
<1>1. CursorIInv => ScreenSound
  BY CursorIInvSound
<1> QED
  BY <1>1, CursorIInvCorrect, PTL

\* Nothing that the window server draws is lost under the cursor, whatever the
\* retrace interrupts between (NDSyncCursor, ND_RemoveCursor, ProcessCEQ).
THEOREM DrawingKeptCorrect ==
  ASSUME SyncFirst, SyncLast
  PROVE  CursorSpec => []DrawingKept
<1>1. CursorIInv => DrawingKept
  BY CursorIInvSound
<1> QED
  BY <1>1, CursorIInvCorrect, PTL

----------------------------------------------------------------------------
(* The argument streams.  Every message carries parts of one mark that     *)
(* follow each other; what the server has, what is on its way and what the *)
(* client holds make up one stream without a gap, so that a read that has  *)
(* enough words left returns exactly its argument.                         *)
\* The sizes of structures, and the packets of a message.
Sizes == {g.size : g \in Groups \cup {Request}}
PacketType == [inLine : BOOLEAN, number : Nat \ {0}, data : Seq(Structure)]

\* The server's stream.
ReadArgStream == [msgs : Seq(Message), ct : Nat, n : Nat, item : Nat]

\* Group b is the k-th of mark m; g is the m-th mark, v the marks.
GroupShaped(b, m, k) ==
  /\ b \in Seq(Structure) /\ Len(b) > 0
  /\ \E size \in Sizes : /\ Len(b) > 1 => size <= Threshold
                         /\ \A j \in 1..Len(b) : b[j] = [mark |-> m, arg |-> k, item |-> j, size |-> size]
Shaped(g, m) == /\ g \in Seq(Seq(Structure)) /\ Len(g) \in 1..MaxArgs + 1
                /\ \A k \in 1..Len(g) : GroupShaped(g[k], m, k)
MarksShaped(v) == /\ v \in Seq(Marks) /\ Len(v) <= MaxMarks
                  /\ \A m \in 1..Len(v) : Shaped(v[m], m)

\* Structure s is a part of mark g.  The part after it is the j-th structure of
\* argument k, or t.
IsPart(g, s) == s.arg \in 1..Len(g) /\ s.item \in 1..Len(g[s.arg]) /\ s = g[s.arg][s.item]
LeadsTo(g, s, k, j) == IF s.item < Len(g[s.arg]) THEN k = s.arg /\ j = s.item + 1
                       ELSE k = s.arg + 1 /\ j = 1
Follows(g, s, t) == LeadsTo(g, s, t.arg, t.item)

\* The parts d of mark g follow each other without a gap.
Run(g, d) ==
  /\ \A i \in 1..Len(d) : IsPart(g, d[i])
  /\ \A i \in 1..Len(d) - 1 : Follows(g, d[i], d[i + 1])
  /\ \A i, j \in 1..Len(d) : d[i].arg = d[j].arg => j - i = d[j].item - d[i].item
  /\ \A i, j \in 1..Len(d) : i < j => d[i].arg <= d[j].arg
  /\ \A i, j \in 1..Len(d) : d[i].arg < d[j].arg => j - i > Len(g[d[i].arg]) - d[i].item

\* The words that lie before each of the parts d, n in all.  Within one argument
\* they grow evenly.
Offsets(d, n, off) ==
  /\ off \in [0..Len(d) -> Nat] /\ off[0] = 0 /\ off[Len(d)] = n
  /\ \A i \in 1..Len(d) : off[i] = off[i - 1] + d[i].size
  /\ \A i, j \in 0..Len(d) : i < j => off[i] < off[j]
  /\ \A i, j \in 1..Len(d) : i <= j /\ d[i].arg = d[j].arg => off[j] = off[i] + (j - i) * d[j].size
Measured(d, n) == \E off : Offsets(d, n, off)

\* Packet pk carries parts of mark g that follow each other; a block that goes
\* out of line is alone in its packet.
PacketOK(g, pk) == /\ pk \in PacketType /\ Len(pk.data) > 0
                   /\ Run(g, pk.data) /\ Measured(pk.data, pk.number)
                   /\ ~pk.inLine => Len(pk.data) = 1 /\ pk.number > Threshold

\* The last and the first part in packets ps, each of which goes on where the one
\* before it ends.
EndOf(ps) == Last(Last(ps).data)
StartOf(ps) == ps[1].data[1]
PacketsOK(g, ps) == /\ ps \in Seq(PacketType)
                    /\ \A i \in 1..Len(ps) : PacketOK(g, ps[i])
                    /\ \A i \in 1..Len(ps) - 1 : Follows(g, Last(ps[i].data), ps[i + 1].data[1])

\* A message carries a part of one mark; the first one of a mark begins with the
\* request.
MarkAt(msg) == StartOf(msg.packets).mark
MessageOK(v, msg) == /\ msg \in Message /\ Len(msg.packets) > 0
                     /\ MarkAt(msg) \in 1..Len(v)
                     /\ PacketsOK(v[MarkAt(msg)], msg.packets)
                     /\ msg.first => StartOf(msg.packets).arg = 1 /\ StartOf(msg.packets).item = 1

\* Message n goes on where message l ends, in the same mark or with the next one.
Linked(v, l, n) == IF n.first THEN MarkAt(n) = MarkAt(l) + 1
                   ELSE MarkAt(n) = MarkAt(l) /\ Follows(v[MarkAt(l)], EndOf(l.packets), StartOf(n.packets))
Stream(v, S) == /\ S \in Seq(Message)
                /\ \A i \in 1..Len(S) : MessageOK(v, S[i])
                /\ \A i \in 1..Len(S) - 1 : Linked(v, S[i], S[i + 1])

\* What as_flushmsg would send now; the messages on their way, with that one.
Made(a) == IF a.p = a.ct THEN a.packets ELSE Append(a.packets, Inline(a))
Prepared(a) == [first |-> a.first, size |-> MsgSize(a), packets |-> Made(a)]
Sending(q, a) == IF a.p = 0 THEN q ELSE Append(q, Prepared(a))

\* The client at the request of a new mark; the mark that stream and messages
\* have come to before t is written.
Start == [group |-> 1, item |-> 1]
Before(v, t) == IF t = Start THEN Len(v) - 1 ELSE Len(v)
Ahead(v, l, t) == /\ MarkAt(l) = Before(v, t)
                  /\ t \notin {Done, Start} => LeadsTo(v[MarkAt(l)], EndOf(l.packets), t.group, t.item)

\* The pointer, the count and the packets of the client's stream agree.
StreamType == [p : Int, n : Int, ct : Int, open : Seq(Structure), packets : Seq(PacketType), first : BOOLEAN]
BufferOK(a) ==
  /\ a \in StreamType /\ a.p \in Nat /\ a.n \in Nat /\ a.ct \in Nat
  /\ a.p <= BufferSize /\ a.n = BufferSize - a.p /\ a.ct <= a.p
  /\ a.open = <<>> <=> a.p = a.ct
  /\ a.packets = <<>> <=> a.ct = 0

\* The client is at a part of the mark it makes, or behind the last one.
WriteAt(v, t) == /\ t \in [group : 0..MaxArgs+2, item : Nat]
                 /\ t # Done => /\ Len(v) > 0
                                /\ t.group \in 1..Len(v[Len(v)]) + 1
                                /\ t.group <= Len(v[Len(v)]) => t.item \in 1..Len(v[Len(v)][t.group])
                                /\ t.group > Len(v[Len(v)]) => t.item = 1

\* The client has sent, and has in its buffer, all parts before t of all marks.
Client(v, q, a, t) == /\ MarksShaped(v) /\ q \in Seq(Message)
                      /\ BufferOK(a) /\ WriteAt(v, t)
                      /\ Stream(v, Sending(q, a))
                      /\ a.p > 0 => MarkAt(Prepared(a)) = Len(v)
                      /\ t \in {Done, Start} => a = Fresh
                      /\ t \notin {Done, Start} /\ a.p = 0 => ~a.first
                      /\ Sending(q, a) # <<>> => Ahead(v, Last(Sending(q, a)), t)

\* What is on its way goes on where message l ends, or with the mark after c.
Precedes(v, l, q, a, t) == IF Sending(q, a) # <<>> THEN Linked(v, l, Sending(q, a)[1]) ELSE Ahead(v, l, t)
Expects(v, c, q, a, t) ==
  IF Sending(q, a) # <<>> THEN MarkAt(Sending(q, a)[1]) = IF Sending(q, a)[1].first THEN c + 1 ELSE c
  ELSE c = Before(v, t)

Remaining(d, i, total, n) == \E off : Offsets(d, total, off) /\ n = off[Len(d)] - off[i]

\* The words behind the i-th part of a packet.  The reader is there, n words are
\* left, and w is what it has read of mark g: whole arguments, all there is before.
ReadAt(g, pk, i, n, w) ==
  /\ PacketOK(g, pk) /\ i \in 0..Len(pk.data) /\ n \in Nat
  /\ Remaining(pk.data, i, pk.number, n)
  /\ w \in Seq(Seq(Structure)) /\ Len(w) <= Len(g) /\ \A k \in 1..Len(w) : w[k] = g[k]
  /\ i = 0 => pk.data[1].arg = Len(w) + 1 /\ pk.data[1].item = 1
  /\ i > 0 => /\ pk.data[i].arg = Len(w) /\ Len(w) > 0
              /\ pk.data[i].item = Len(g[Len(w)])

\* The server reads mark c from messages that carry no other.
Reader(v, r, w, c) ==
  /\ r \in ReadArgStream
  /\ Len(r.msgs) > 0 /\ c \in 1..Len(v)
  /\ \A i \in 1..Len(r.msgs) : MessageOK(v, r.msgs[i]) /\ MarkAt(r.msgs[i]) = c
  /\ r.ct \in 1..Len(Packets(r))
  /\ ReadAt(v[c], Packet(r), r.item, r.n, w)

\* While it reads: the mark is the one whose turn it is, the next message goes on
\* where the last one received ends, and the blocks of all of them are mapped.
ReadingSound == server = "reading" => /\ Reader(marks, rd, got, Len(outcome) + 1)
                                      /\ Precedes(marks, Last(rd.msgs), port, as, at)
                                      /\ held = skipped \cup Received

\* While it rests: the next message goes on with the mark settled last, of which
\* something may be left, or is the first of the next one.
IdleSound == server = "idle" => /\ rd = NoRead /\ got = <<>> /\ held = skipped
                                /\ Expects(marks, Len(outcome), port, as, at)

\* Astray it has been reading a mark with an array or a block, or the next message
\* was too large for it, and is there still.
AstraySound ==
  server = "astray" =>
    /\ rd \in ReadArgStream /\ got \in Seq(Seq(Structure))
    /\ rd.msgs[1].packets[1].data[1].mark \in 1..Len(marks)
    /\ held \subseteq Structure
    /\ TooLarge \/ \E k \in 1..Len(Mark) : Array(Mark[k]) \/ Block(Mark[k])

\* The marks that are settled, and the blocks of messages skipped, which belong
\* to those marks.
Settled ==
  /\ outcome \in Seq(Marks \cup {Dropped}) /\ Len(outcome) <= Len(marks)
  /\ \A i \in 1..Len(outcome) :
       outcome[i] = Dropped => \E k \in 1..Len(marks[i]) : Array(marks[i][k])
  /\ skipped \subseteq Structure /\ \A s \in skipped : s.mark <= Len(outcome)

\* The inductive invariant.
StreamIInv == /\ server \in {"idle", "reading", "astray"}
              /\ Client(marks, port, as, at)
              /\ ReadingSound /\ IdleSound /\ AstraySound /\ Settled

\* A step of the client from <<v, q, a, t>> to <<w, r, b, u>>: whoever waits for
\* what comes next finds it still.
Carries(v, q, a, t, w, r, b, u) ==
  /\ Client(w, r, b, u)
  /\ \A l : MessageOK(v, l) /\ Precedes(v, l, q, a, t) => Precedes(w, l, r, b, u)
  /\ \A c : Expects(v, c, q, a, t) => Expects(w, c, r, b, u)

\* The constants.
LEMMA SizesPositive ==
  /\ Sizes \subseteq Nat \ {0} /\ RequestSize \in Sizes
  /\ Threshold \in Nat /\ Threshold <= BufferSize /\ OobSize \in Nat \ {0} /\ OobSize <= Threshold
  /\ BufferSize \in Nat /\ TypeSize \in Nat \ {0} /\ PtrSize \in Nat \ {0}
  /\ MaxArgs \in Nat /\ MaxMarks \in Nat /\ OobSize = 2 * TypeSize + PtrSize
<1>1. /\ TypeSize \in Nat \ {0} /\ PtrSize \in Nat \ {0} /\ RequestSize \in Nat \ {0}
      /\ BufferSize \in Nat /\ MaxArgs \in Nat /\ MaxMarks \in Nat
      /\ OobSize <= Threshold /\ RequestSize <= Threshold
  BY ArgStreamAssumption
<1>2. Threshold \in Nat /\ Threshold <= BufferSize
  BY <1>1 DEF Threshold
<1>3. OobSize = 2 * TypeSize + PtrSize /\ OobSize \in Nat \ {0}
  BY <1>1 DEF OobSize
<1>4. Request.size = RequestSize
  BY DEF Request
<1>5. \A g \in Groups : g.size \in Nat \ {0}
  BY ArgStreamAssumption
<1>6. Sizes \subseteq Nat \ {0} /\ RequestSize \in Sizes
  BY <1>1, <1>4, <1>5 DEF Sizes
<1> QED
  BY <1>1, <1>2, <1>3, <1>6

\* The arguments of a mark, and its parts.
LEMMA GroupIs ==
  ASSUME NEW g, NEW m, Shaped(g, m), NEW k \in 1..Len(g)
  PROVE  /\ g[k] \in Seq(Structure) /\ Len(g[k]) \in Nat \ {0} /\ Len(g) \in Nat
         /\ g[k][1].size \in Nat \ {0}
         /\ g[k][1].size > Threshold => Len(g[k]) = 1
         /\ \A j \in 1..Len(g[k]) : g[k][j] = [mark |-> m, arg |-> k, item |-> j, size |-> g[k][1].size]
<1>1. GroupShaped(g[k], m, k)
  BY DEF Shaped
<1>2. PICK size \in Sizes :
        /\ Len(g[k]) > 1 => size <= Threshold
        /\ \A j \in 1..Len(g[k]) : g[k][j] = [mark |-> m, arg |-> k, item |-> j, size |-> size]
  BY <1>1 DEF GroupShaped
<1>3. g[k] \in Seq(Structure) /\ Len(g[k]) \in Nat \ {0}
  BY <1>1, LenProperties DEF GroupShaped
<1>4. g[k][1].size = size
  <2>1. 1 \in 1..Len(g[k])
    BY <1>3
  <2>2. g[k][1] = [mark |-> m, arg |-> k, item |-> 1, size |-> size]
    BY <1>2, <2>1
  <2> QED
    BY <2>2
<1>5. size \in Nat \ {0} /\ Threshold \in Nat
  BY SizesPositive
<1>6. size > Threshold => Len(g[k]) = 1
  <2> DEFINE n == Len(g[k])
  <2>1. n \in Nat \ {0} /\ (n > 1 => size <= Threshold)
    BY <1>2, <1>3
  <2> HIDE DEF n
  <2>2. size > Threshold => n = 1
    BY <1>5, <2>1
  <2> QED
    BY <2>2 DEF n
<1>7. \A j \in 1..Len(g[k]) : g[k][j] = [mark |-> m, arg |-> k, item |-> j, size |-> g[k][1].size]
  BY <1>2, <1>4
<1>8. Len(g) \in Nat
  BY DEF Shaped
<1> QED
  BY <1>3, <1>4, <1>5, <1>6, <1>7, <1>8

LEMMA PartIs ==
  ASSUME NEW g, NEW m, Shaped(g, m), NEW s, IsPart(g, s)
  PROVE  /\ s \in Structure /\ s.mark = m /\ s.arg \in 1..Len(g) /\ s.item \in 1..Len(g[s.arg])
         /\ s.arg \in Nat /\ s.item \in Nat /\ Len(g[s.arg]) \in Nat /\ s.item <= Len(g[s.arg])
         /\ s.size = g[s.arg][1].size /\ s.size \in Nat \ {0}
         /\ s.size > Threshold => Len(g[s.arg]) = 1
         /\ s = g[s.arg][s.item]
<1>1. s.arg \in 1..Len(g) /\ s.item \in 1..Len(g[s.arg]) /\ s = g[s.arg][s.item]
  BY DEF IsPart
<1> DEFINE k == s.arg
           j == s.item
<1>2. /\ g[k] \in Seq(Structure) /\ Len(g[k]) \in Nat \ {0} /\ Len(g) \in Nat
      /\ g[k][1].size \in Nat \ {0}
      /\ g[k][1].size > Threshold => Len(g[k]) = 1
      /\ g[k][j] = [mark |-> m, arg |-> k, item |-> j, size |-> g[k][1].size]
  <2>1. k \in 1..Len(g) /\ j \in 1..Len(g[k])
    BY <1>1
  <2> HIDE DEF k, j
  <2> QED
    BY <2>1, GroupIs
<1>3. s \in Structure
  BY <1>1, <1>2, ElementOfSeq
<1>4. s.mark = m /\ s.size = g[s.arg][1].size
  <2>1. s = [mark |-> m, arg |-> k, item |-> j, size |-> g[k][1].size]
    BY <1>1, <1>2
  <2> HIDE DEF k, j
  <2>2. s.mark = m /\ s.size = g[k][1].size
    BY <2>1
  <2> QED
    BY <2>2 DEF k
<1>5. s.arg \in Nat /\ s.item \in Nat /\ s.item <= Len(g[s.arg])
  BY <1>1, <1>2
<1> QED
  BY <1>1, <1>2, <1>3, <1>4, <1>5

\* Sequences: one element more, and the last one.
LEMMA AppendIs ==
  ASSUME NEW S, NEW d \in Seq(S), NEW t \in S
  PROVE  /\ Append(d, t) \in Seq(S) /\ Len(d) \in Nat /\ Len(Append(d, t)) = Len(d) + 1
         /\ Append(d, t)[Len(d) + 1] = t
         /\ \A i \in 1..Len(d) : Append(d, t)[i] = d[i]
         /\ Last(Append(d, t)) = t /\ Append(d, t) # <<>>
BY AppendProperties, LenProperties, EmptySeq DEF Last

LEMMA LastIs ==
  ASSUME NEW S, NEW d \in Seq(S)
  PROVE  /\ Len(d) \in Nat /\ (d # <<>> <=> Len(d) > 0)
         /\ d # <<>> => Len(d) \in 1..Len(d) /\ Last(d) = d[Len(d)] /\ Last(d) \in S /\ 1 \in 1..Len(d) /\ d[1] \in S
BY EmptySeq, LenProperties, ElementOfSeq DEF Last

\* Runs of parts: one part more.
LEMMA NextAhead ==
  ASSUME NEW n \in Nat, NEW i \in 1..n, NEW ai \in Nat, NEW an \in Nat, NEW at1 \in Nat,
         NEW ii \in Nat, NEW in1 \in Nat, NEW it \in Nat, NEW ci \in Nat, NEW cn \in Nat,
         in1 <= cn, ai <= an, ai = an => ci = cn /\ n - i = in1 - ii, ai < an => n - i > ci - ii,
         IF in1 < cn THEN at1 = an /\ it = in1 + 1 ELSE at1 = an + 1 /\ it = 1
  PROVE  /\ ai <= at1
         /\ ai = at1 => n + 1 - i = it - ii
         /\ ai < at1 => n + 1 - i > ci - ii
OBVIOUS

LEMMA RunAppend ==
  ASSUME NEW g, NEW m, Shaped(g, m), NEW d \in Seq(Structure), Run(g, d),
         NEW t, IsPart(g, t), d # <<>> => Follows(g, Last(d), t)
  PROVE  Run(g, Append(d, t)) /\ t \in Structure /\ Append(d, t) \in Seq(Structure)
<1> DEFINE n == Len(d)
           e == Append(d, t)
           size(k) == Len(g[k])
<1>1. t \in Structure /\ t.arg \in Nat /\ t.item \in Nat /\ size(t.arg) \in Nat
  BY PartIs
<1>2. e \in Seq(Structure) /\ n \in Nat /\ Len(e) = n + 1 /\ e[n + 1] = t /\ \A i \in 1..n : e[i] = d[i]
  BY <1>1, AppendIs
<1>3. \A i \in 1..n : IsPart(g, d[i])
  BY DEF Run
<1>4. \A i \in 1..n : d[i].arg \in Nat /\ d[i].item \in Nat /\ size(d[i].arg) \in Nat
                      /\ d[i].item <= size(d[i].arg)
  BY <1>3, PartIs
<1>5. n > 0 => /\ n \in 1..n /\ Last(d) = d[n] /\ Follows(g, d[n], t)
               /\ IF d[n].item < size(d[n].arg) THEN t.arg = d[n].arg /\ t.item = d[n].item + 1
                  ELSE t.arg = d[n].arg + 1 /\ t.item = 1
  BY LastIs DEF Follows, LeadsTo
<1>6. /\ \A i, j \in 1..n : d[i].arg = d[j].arg => j - i = d[j].item - d[i].item
      /\ \A i, j \in 1..n : i < j => d[i].arg <= d[j].arg
      /\ \A i, j \in 1..n : d[i].arg < d[j].arg => j - i > size(d[i].arg) - d[i].item
      /\ \A i \in 1..n - 1 : Follows(g, d[i], d[i + 1])
  BY DEF Run
<1>7. Run(g, e) <=>
         /\ \A i \in 1..Len(e) : IsPart(g, e[i])
         /\ \A i \in 1..Len(e) - 1 : Follows(g, e[i], e[i + 1])
         /\ \A i, j \in 1..Len(e) : e[i].arg = e[j].arg => j - i = e[j].item - e[i].item
         /\ \A i, j \in 1..Len(e) : i < j => e[i].arg <= e[j].arg
         /\ \A i, j \in 1..Len(e) : e[i].arg < e[j].arg => j - i > size(e[i].arg) - e[i].item
  BY DEF Run
<1> HIDE DEF n, e, size
<1>8. \A i \in 1..n : /\ d[i].arg <= t.arg
                      /\ d[i].arg = t.arg => n + 1 - i = t.item - d[i].item
                      /\ d[i].arg < t.arg => n + 1 - i > size(d[i].arg) - d[i].item
  <2> SUFFICES ASSUME NEW i \in 1..n
               PROVE  /\ d[i].arg <= t.arg
                      /\ d[i].arg = t.arg => n + 1 - i = t.item - d[i].item
                      /\ d[i].arg < t.arg => n + 1 - i > size(d[i].arg) - d[i].item
    OBVIOUS
  <2>1. n \in 1..n /\ n > 0
    BY <1>2
  <2>9. d[i].arg <= d[n].arg
    BY <1>2, <1>4, <1>6, <2>1
  <2>2. d[n].arg \in Nat /\ d[n].item \in Nat /\ size(d[n].arg) \in Nat /\ d[i].arg \in Nat /\ d[i].item \in Nat
        /\ size(d[i].arg) \in Nat /\ d[n].item <= size(d[n].arg)
    BY <1>4, <2>1
  <2>3. IF d[n].item < size(d[n].arg) THEN t.arg = d[n].arg /\ t.item = d[n].item + 1
        ELSE t.arg = d[n].arg + 1 /\ t.item = 1
    BY <1>5, <2>1
  <2>4. d[i].arg = d[n].arg => n - i = d[n].item - d[i].item /\ size(d[i].arg) = size(d[n].arg)
    BY <1>6, <2>1
  <2>5. d[i].arg < d[n].arg => n - i > size(d[i].arg) - d[i].item
    BY <1>6, <2>1
  <2>6. t.arg \in Nat /\ t.item \in Nat /\ n \in Nat
    BY <1>1, <1>2
  <2> DEFINE ai == d[i].arg  an == d[n].arg  ta == t.arg  ii == d[i].item  in1 == d[n].item
             it == t.item  ci == size(d[i].arg)  cn == size(d[n].arg)
  <2>7. /\ n \in Nat /\ i \in 1..n /\ ai \in Nat /\ an \in Nat /\ ta \in Nat /\ ii \in Nat /\ in1 \in Nat
        /\ it \in Nat /\ ci \in Nat /\ cn \in Nat /\ in1 <= cn /\ ai <= an
        /\ ai = an => ci = cn /\ n - i = in1 - ii
        /\ ai < an => n - i > ci - ii
        /\ IF in1 < cn THEN ta = an /\ it = in1 + 1 ELSE ta = an + 1 /\ it = 1
    BY <2>2, <2>3, <2>4, <2>5, <2>6, <2>9
  <2> HIDE DEF ai, an, ta, ii, in1, it, ci, cn
  <2>8. /\ ai <= ta
        /\ ai = ta => n + 1 - i = it - ii
        /\ ai < ta => n + 1 - i > ci - ii
    BY <2>7, NextAhead
  <2> QED
    BY <2>8 DEF ai, an, ta, ii, in1, it, ci, cn
<1>9. \A i \in 1..n + 1 : IsPart(g, e[i])
  <2>1. \A i \in 1..n + 1 : i \in 1..n \/ i = n + 1
    BY <1>2
  <2> QED
    BY <1>2, <1>3, <2>1
<1>10. \A i \in 1..n : Follows(g, e[i], e[i + 1])
  <2> SUFFICES ASSUME NEW i \in 1..n
               PROVE  Follows(g, e[i], e[i + 1])
    OBVIOUS
  <2>1. CASE i = n
    BY <1>2, <1>5, <2>1
  <2>2. CASE i < n
    <3>1. i \in 1..n - 1 /\ i + 1 \in 1..n
      BY <1>2, <2>2
    <3> QED
      BY <1>2, <1>6, <3>1
  <2> QED
    BY <1>2, <2>1, <2>2
<1>11. \A i, j \in 1..n + 1 :
         /\ e[i].arg = e[j].arg => j - i = e[j].item - e[i].item
         /\ i < j => e[i].arg <= e[j].arg
         /\ e[i].arg < e[j].arg => j - i > size(e[i].arg) - e[i].item
  <2> SUFFICES ASSUME NEW i \in 1..n + 1, NEW j \in 1..n + 1
               PROVE  /\ e[i].arg = e[j].arg => j - i = e[j].item - e[i].item
                      /\ i < j => e[i].arg <= e[j].arg
                      /\ e[i].arg < e[j].arg => j - i > size(e[i].arg) - e[i].item
    OBVIOUS
  <2>1. CASE i \in 1..n /\ j \in 1..n
    BY <1>2, <1>6, <2>1
  <2>2. CASE i \in 1..n /\ j = n + 1
    <3>1. e[i] = d[i] /\ e[j] = t
      BY <1>2, <2>2
    <3> QED
      BY <1>1, <1>2, <1>4, <1>8, <2>2, <3>1
  <2>3. CASE i = n + 1 /\ j \in 1..n
    <3>1. e[j] = d[j] /\ e[i] = t
      BY <1>2, <2>3
    <3>2. d[j].arg \in Nat /\ d[j].item \in Nat /\ d[j].arg <= t.arg
          /\ (d[j].arg = t.arg => n + 1 - j = t.item - d[j].item)
      BY <1>4, <1>8, <2>3
    <3>3. ~(i < j) /\ ~(t.arg < d[j].arg)
      BY <1>1, <1>2, <2>3, <3>2
    <3>4. t.arg = d[j].arg => j - i = d[j].item - t.item
      BY SMTT(30), <1>1, <1>2, <2>3, <3>2
    <3> QED
      BY <3>1, <3>3, <3>4
  <2>4. CASE i = n + 1 /\ j = n + 1
    <3>1. e[i] = t /\ e[j] = t /\ i = j
      BY <1>2, <2>4
    <3> QED
      BY <1>1, <1>2, <3>1
  <2> QED
    BY <1>2, <2>1, <2>2, <2>3, <2>4
<1>12. Len(e) - 1 = n
  BY <1>2
<1>13. Run(g, e)
  BY <1>2, <1>9, <1>10, <1>11, <1>12, <1>7
<1> QED
  BY <1>1, <1>2, <1>13 DEF e

\* The structures of one argument have one size, and with one part more the
\* offsets still grow evenly.
LEMMA SameArgSize ==
  ASSUME NEW g, NEW m, Shaped(g, m), NEW d, Run(g, d),
         NEW i \in 1..Len(d), NEW j \in 1..Len(d), d[i].arg = d[j].arg
  PROVE  d[i].size = d[j].size
<1>1. IsPart(g, d[i]) /\ IsPart(g, d[j])
  BY DEF Run
<1> QED
  BY SMTT(30), <1>1, PartIs

LEMMA OneMore ==
  ASSUME NEW a \in Int, NEW b \in Int, NEW c \in Int
  PROVE  (a - b) * c + c = (a + 1 - b) * c
OBVIOUS

LEMMA MeasuredAppend ==
  ASSUME NEW g, NEW m, Shaped(g, m), NEW d \in Seq(Structure), NEW t,
         Append(d, t) \in Seq(Structure), Run(g, Append(d, t)), NEW n, Measured(d, n)
  PROVE  Measured(Append(d, t), n + t.size)
<1> DEFINE N == Len(d)
           e == Append(d, t)
<1>1. e \in Seq(Structure) /\ N \in Nat /\ Len(e) = N + 1 /\ e[N + 1] = t /\ \A i \in 1..N : e[i] = d[i]
  BY AppendProperties, LenProperties
<1>2. PICK off : Offsets(d, n, off)
  BY DEF Measured
<1>3. /\ off \in [0..N -> Nat] /\ off[0] = 0 /\ off[N] = n
      /\ \A i \in 1..N : off[i] = off[i - 1] + d[i].size
      /\ \A i, j \in 0..N : i < j => off[i] < off[j]
      /\ \A i, j \in 1..N : i <= j /\ d[i].arg = d[j].arg => off[j] = off[i] + (j - i) * d[j].size
  BY <1>2 DEF Offsets
<1>4. /\ \A i \in 1..N + 1 : IsPart(g, e[i]) /\ e[i].size \in Nat \ {0} /\ e[i].arg \in Nat
      /\ \A i, j \in 1..N + 1 : i < j => e[i].arg <= e[j].arg
      /\ \A i, j \in 1..N + 1 : e[i].arg = e[j].arg => e[i].size = e[j].size
  <2>1. \A i \in 1..N + 1 : IsPart(g, e[i])
    BY <1>1 DEF Run
  <2>2. \A i, j \in 1..N + 1 : i < j => e[i].arg <= e[j].arg
    BY <1>1 DEF Run
  <2>3. \A i, j \in 1..N + 1 : e[i].arg = e[j].arg => e[i].size = e[j].size
    <3> SUFFICES ASSUME NEW i \in 1..Len(e), NEW j \in 1..Len(e), e[i].arg = e[j].arg
                 PROVE  e[i].size = e[j].size
      BY <1>1
    <3>1. Run(g, e)
      OBVIOUS
    <3> HIDE DEF e
    <3> QED
      BY <3>1, SameArgSize
  <2> QED
    BY <2>1, <2>2, <2>3, PartIs
<1>5. Offsets(e, n + t.size, [i \in 0..N + 1 |-> IF i <= N THEN off[i] ELSE n + t.size])
      <=> LET f == [i \in 0..N + 1 |-> IF i <= N THEN off[i] ELSE n + t.size]
          IN /\ f \in [0..N + 1 -> Nat] /\ f[0] = 0 /\ f[N + 1] = n + t.size
             /\ \A i \in 1..N + 1 : f[i] = f[i - 1] + e[i].size
             /\ \A i, j \in 0..N + 1 : i < j => f[i] < f[j]
             /\ \A i, j \in 1..N + 1 : i <= j /\ e[i].arg = e[j].arg => f[j] = f[i] + (j - i) * e[j].size
  BY <1>1 DEF Offsets
<1>6. Measured(e, n + t.size) <=> \E f : Offsets(e, n + t.size, f)
  BY DEF Measured
<1> DEFINE z == t.size
           f == [i \in 0..N + 1 |-> IF i <= N THEN off[i] ELSE n + z]
<1> HIDE DEF N, e, z
<1>7. n \in Nat /\ z \in Nat \ {0} /\ N + 1 \in 1..N + 1 /\ e[N + 1].size = z
  BY <1>1, <1>3, <1>4 DEF z
<1>8. f \in [0..N + 1 -> Nat] /\ f[0] = 0 /\ f[N + 1] = n + z /\ \A i \in 0..N : f[i] = off[i]
  BY <1>1, <1>3, <1>7
<1> HIDE DEF f
<1>9. \A i \in 1..N + 1 : f[i] = f[i - 1] + e[i].size
  <2> SUFFICES ASSUME NEW i \in 1..N + 1
               PROVE  f[i] = f[i - 1] + e[i].size
    OBVIOUS
  <2>1. CASE i \in 1..N
    <3>1. i \in 0..N /\ i - 1 \in 0..N /\ e[i] = d[i]
      BY <1>1, <2>1
    <3> QED
      BY <1>3, <1>8, <2>1, <3>1
  <2>2. CASE i = N + 1
    <3>1. i - 1 = N /\ N \in 0..N
      BY <1>1, <2>2
    <3> QED
      BY <1>3, <1>7, <1>8, <2>2, <3>1
  <2> QED
    BY <1>1, <2>1, <2>2
<1>10. \A i, j \in 0..N + 1 : i < j => f[i] < f[j]
  <2> SUFFICES ASSUME NEW i \in 0..N + 1, NEW j \in 0..N + 1, i < j
               PROVE  f[i] < f[j]
    OBVIOUS
  <2>1. CASE j \in 0..N
    <3>1. i \in 0..N
      BY <1>1, <2>1
    <3>2. off[i] < off[j]
      BY <1>3, <2>1, <3>1
    <3>3. f[i] = off[i] /\ f[j] = off[j]
      BY <1>8, <2>1, <3>1
    <3> QED
      BY <3>2, <3>3
  <2>2. CASE j = N + 1
    <3>1. i \in 0..N /\ N \in 0..N
      BY <1>1, <2>2
    <3>2. off[i] <= off[N] /\ off[i] \in Nat
      <4>1. off[i] \in Nat /\ off[N] \in Nat
        BY <1>3, <3>1
      <4>2. CASE i = N
        BY <4>1, <4>2
      <4>3. CASE i # N
        <5>1. i < N
          BY <1>1, <3>1, <4>3
        <5>2. off[i] < off[N]
          BY <1>3, <3>1, <5>1
        <5> QED
          BY <4>1, <5>2
      <4> QED
        BY <4>2, <4>3
    <3>3. f[i] = off[i] /\ f[j] = n + z /\ off[N] = n
      BY <1>3, <1>8, <2>2, <3>1
    <3> QED
      BY <1>7, <3>2, <3>3
  <2> QED
    BY <1>1, <2>1, <2>2
<1>11. \A i, j \in 1..N + 1 : i <= j /\ e[i].arg = e[j].arg => f[j] = f[i] + (j - i) * e[j].size
  <2> SUFFICES ASSUME NEW i \in 1..N + 1, NEW j \in 1..N + 1, i <= j, e[i].arg = e[j].arg
               PROVE  f[j] = f[i] + (j - i) * e[j].size
    OBVIOUS
  <2>1. CASE j \in 1..N
    <3>1. i \in 1..N /\ i \in 0..N /\ j \in 0..N /\ e[i] = d[i] /\ e[j] = d[j]
      BY <1>1, <2>1
    <3> QED
      BY <1>3, <1>8, <2>1, <3>1
  <2>2. CASE j = N + 1 /\ i = N + 1
    BY <1>7, <1>8, <2>2
  <2>3. CASE j = N + 1 /\ i \in 1..N
    <3>1. i \in 0..N /\ N \in 1..N /\ N \in 0..N /\ i \in 1..N + 1 /\ N \in 1..N + 1 /\ N < j /\ j \in 1..N + 1
      BY <1>1, <2>3
    <3>2. e[i].arg <= e[N].arg /\ e[N].arg <= e[j].arg /\ e[i].arg \in Nat /\ e[N].arg \in Nat /\ e[j].arg \in Nat
      BY <1>1, <1>4, <2>3, <3>1
    <3>3. e[i].arg = e[N].arg /\ e[N].arg = e[j].arg
      BY <3>2
    <3>4. e[i] = d[i] /\ e[N] = d[N] /\ e[j].size = z /\ d[N].size = z
      BY SMTT(30), <1>1, <1>4, <1>7, <2>3, <3>1, <3>3
    <3>5. off[N] = off[i] + (N - i) * z
      <4>1. i <= N
        BY <1>1, <2>3
      <4> QED
        BY <1>3, <2>3, <3>1, <3>3, <3>4, <4>1
    <3>6. f[j] = off[N] + z /\ f[i] = off[i] /\ off[i] \in Nat /\ off[N] \in Nat
      BY <1>3, <1>8, <2>3, <3>1
    <3>7. f[j] = off[i] + ((N - i) * z + z)
      <4>1. N - i \in Int /\ (N - i) * z \in Int
        BY <1>1, <1>7, <2>3
      <4> QED
        BY SMTT(30), <1>7, <3>5, <3>6, <4>1
    <3>8. (N - i) * z + z = (j - i) * z
      <4>1. (N - i) * z + z = (N + 1 - i) * z
        BY <1>1, <1>7, <2>3, OneMore
      <4> QED
        BY <1>1, <1>7, <2>3, <4>1
    <3>9. f[j] = f[i] + (j - i) * z
      BY <3>6, <3>7, <3>8
    <3> QED
      BY <3>4, <3>9
  <2> QED
    BY <1>1, <2>1, <2>2, <2>3
<1>12. Offsets(e, n + t.size, f)
  BY <1>5, <1>8, <1>9, <1>10, <1>11 DEF f, z
<1> QED
  BY <1>6, <1>12 DEF e

\* A packet with one part, and with one part more.
LEMMA SingleRun ==
  ASSUME NEW g, NEW m, Shaped(g, m), NEW s, IsPart(g, s)
  PROVE  Run(g, <<s>>) /\ Measured(<<s>>, s.size) /\ s \in Structure /\ <<s>> \in Seq(Structure)
         /\ Len(<<s>>) = 1 /\ <<s>>[1] = s /\ Last(<<s>>) = s /\ s.size \in Nat \ {0}
<1>1. s \in Structure /\ s.size \in Nat \ {0}
  BY PartIs
<1>2. <<s>> \in Seq(Structure) /\ Len(<<s>>) = 1 /\ <<s>>[1] = s /\ Last(<<s>>) = s
  BY <1>1 DEF Last
<1>3. Run(g, <<s>>)
  <2> DEFINE e == <<s>>
  <2>1. Len(e) = 1 /\ e[1] = s /\ s.arg \in Nat /\ s.item \in Nat
    BY <1>2, PartIs
  <2> HIDE DEF e
  <2>2. /\ \A i \in 1..Len(e) : IsPart(g, e[i])
        /\ \A i \in 1..Len(e) - 1 : Follows(g, e[i], e[i + 1])
        /\ \A i, j \in 1..Len(e) : e[i].arg = e[j].arg => j - i = e[j].item - e[i].item
        /\ \A i, j \in 1..Len(e) : i < j => e[i].arg <= e[j].arg
        /\ \A i, j \in 1..Len(e) : e[i].arg < e[j].arg => j - i > Len(g[e[i].arg]) - e[i].item
    BY <2>1
  <2>3. Run(g, e)
    BY <2>2 DEF Run
  <2> QED
    BY <2>3 DEF e
<1>4. Measured(<<s>>, s.size)
  <2> DEFINE e == <<s>>
             z == s.size
             f == [i \in 0..1 |-> IF i = 0 THEN 0 ELSE z]
  <2>1. Len(e) = 1 /\ e[1].size = z /\ z \in Nat \ {0}
    BY <1>1, <1>2
  <2> HIDE DEF e, z
  <2>2. /\ f \in [0..1 -> Nat] /\ f[0] = 0 /\ f[1] = z
    BY <2>1
  <2> HIDE DEF f
  <2>3. /\ \A i \in 1..1 : f[i] = f[i - 1] + e[i].size
        /\ \A i, j \in 0..1 : i < j => f[i] < f[j]
        /\ \A i, j \in 1..1 : i <= j /\ e[i].arg = e[j].arg => f[j] = f[i] + (j - i) * e[j].size
    BY <2>1, <2>2
  <2>4. Offsets(e, z, f)
    BY <2>1, <2>2, <2>3 DEF Offsets
  <2>5. Measured(e, z)
    BY <2>4 DEF Measured
  <2> QED
    BY <2>5 DEF e, z
<1> QED
  BY <1>1, <1>2, <1>3, <1>4

LEMMA PacketSingle ==
  ASSUME NEW g, NEW m, Shaped(g, m), NEW s, IsPart(g, s), NEW b \in BOOLEAN, ~b => s.size > Threshold
  PROVE  /\ PacketOK(g, [inLine |-> b, number |-> s.size, data |-> <<s>>])
         /\ [inLine |-> b, number |-> s.size, data |-> <<s>>] \in PacketType
<1> DEFINE pk == [inLine |-> b, number |-> s.size, data |-> <<s>>]
<1>1. pk.inLine = b /\ pk.number = s.size /\ pk.data = <<s>> /\ pk \in PacketType
  BY SingleRun DEF PacketType
<1> HIDE DEF pk
<1>2. PacketOK(g, pk)
  BY <1>1, SingleRun DEF PacketOK
<1> QED
  BY <1>1, <1>2 DEF pk

LEMMA PacketLonger ==
  ASSUME NEW g, NEW m, Shaped(g, m), NEW d, NEW n, NEW s,
         PacketOK(g, [inLine |-> TRUE, number |-> n, data |-> d]),
         IsPart(g, s), Follows(g, Last(d), s)
  PROVE  /\ PacketOK(g, [inLine |-> TRUE, number |-> n + s.size, data |-> Append(d, s)])
         /\ [inLine |-> TRUE, number |-> n + s.size, data |-> Append(d, s)] \in PacketType
         /\ Append(d, s)[1] = d[1] /\ Last(Append(d, s)) = s /\ d \in Seq(Structure) /\ d # <<>>
<1> DEFINE pk == [inLine |-> TRUE, number |-> n, data |-> d]
           new == [inLine |-> TRUE, number |-> n + s.size, data |-> Append(d, s)]
<1>1. pk.number = n /\ pk.data = d
  OBVIOUS
<1>2. new.inLine = TRUE /\ new.number = n + s.size /\ new.data = Append(d, s)
  OBVIOUS
<1>3. pk \in PacketType /\ Len(d) > 0 /\ Run(g, d) /\ Measured(d, n)
  BY <1>1 DEF PacketOK
<1>4. d \in Seq(Structure) /\ n \in Nat \ {0}
  BY <1>1, <1>3 DEF PacketType
<1>5. Run(g, Append(d, s)) /\ s \in Structure /\ Append(d, s) \in Seq(Structure)
  BY <1>3, <1>4, RunAppend
<1>6. Measured(Append(d, s), n + s.size)
  BY <1>3, <1>4, <1>5, MeasuredAppend
<1>7. s.size \in Nat \ {0}
  BY PartIs
<1>8. new \in PacketType
  BY <1>4, <1>5, <1>7 DEF PacketType
<1>9. Len(Append(d, s)) > 0 /\ Append(d, s)[1] = d[1] /\ Last(Append(d, s)) = s /\ d # <<>>
  BY <1>3, <1>4, <1>5, AppendIs, LastIs
<1> HIDE DEF new
<1>10. PacketOK(g, new)
  BY <1>2, <1>5, <1>6, <1>8, <1>9 DEF PacketOK
<1> QED
  BY <1>4, <1>8, <1>9, <1>10 DEF new

\* Arithmetic of sizes and counts.
LEMMA ProductPositive ==
  ASSUME NEW a \in Nat \ {0}, NEW b \in Nat \ {0}
  PROVE  a * b \in Nat \ {0}
OBVIOUS

LEMMA ProductGrows ==
  ASSUME NEW a \in Nat, NEW b \in Nat, a < b, NEW c \in Nat \ {0}
  PROVE  a * c < b * c
<1>1. b * c = a * c + (b - a) * c
  OBVIOUS
<1>2. (b - a) * c \in Nat \ {0}
  BY ProductPositive
<1>3. a * c \in Nat
  OBVIOUS
<1> QED
  BY <1>1, <1>2, <1>3

\* What is left in a packet, in words and in structures.
LEMMA LeftIs ==
  ASSUME NEW g, NEW m, Shaped(g, m), NEW pk, NEW i, NEW n, NEW w, ReadAt(g, pk, i, n, w)
  PROVE  /\ n > 0 <=> i < Len(pk.data)
         /\ i \in 0..Len(pk.data) /\ Len(pk.data) \in Nat \ {0} /\ n \in Nat
         /\ pk.data \in Seq(Structure) /\ Len(w) \in Nat
<1>1. PacketOK(g, pk) /\ i \in 0..Len(pk.data) /\ n \in Nat /\ Remaining(pk.data, i, pk.number, n)
      /\ w \in Seq(Seq(Structure))
  BY DEF ReadAt
<1>2. pk.data \in Seq(Structure) /\ Len(pk.data) > 0
  BY <1>1 DEF PacketOK, PacketType
<1> DEFINE N == Len(pk.data)
<1>3. N \in Nat \ {0} /\ Len(w) \in Nat
  BY <1>1, <1>2, LenProperties
<1>4. PICK off : Offsets(pk.data, pk.number, off) /\ n = off[N] - off[i]
  BY <1>1 DEF Remaining
<1>5. off \in [0..N -> Nat] /\ \A j, k \in 0..N : j < k => off[j] < off[k]
  BY <1>4 DEF Offsets
<1>6. n > 0 <=> i < N
  <2> HIDE DEF N
  <2>1. i \in 0..N /\ N \in 0..N
    BY <1>1, <1>3 DEF N
  <2>2. off[i] \in Nat /\ off[N] \in Nat /\ (i < N => off[i] < off[N]) /\ (i = N => off[i] = off[N])
    BY <1>5, <2>1
  <2> QED
    BY <1>3, <1>4, <2>1, <2>2
<1> QED
  BY <1>1, <1>2, <1>3, <1>6

\* The next structure begins the next argument.
LEMMA NextPart ==
  ASSUME NEW g, NEW m, Shaped(g, m), NEW pk, NEW i, NEW n, NEW w, ReadAt(g, pk, i, n, w), i < Len(pk.data)
  PROVE  /\ IsPart(g, pk.data[i + 1]) /\ i + 1 \in 1..Len(pk.data)
         /\ pk.data[i + 1].arg = Len(w) + 1 /\ pk.data[i + 1].item = 1
         /\ Len(w) < Len(g)
<1> DEFINE d == pk.data
           N == Len(d)
<1>1. i \in 0..N /\ N \in Nat \ {0} /\ i < N /\ Len(w) \in Nat
  BY LeftIs
<1>2. Run(g, d)
  BY DEF ReadAt, PacketOK
<1>3. i + 1 \in 1..N
  BY <1>1
<1>4. IsPart(g, d[i + 1])
  BY <1>2, <1>3 DEF Run
<1>5. d[i + 1].arg = Len(w) + 1 /\ d[i + 1].item = 1
  <2>1. CASE i = 0
    BY <2>1 DEF ReadAt
  <2>2. CASE i > 0
    <3>1. d[i].arg = Len(w) /\ d[i].item = Len(g[Len(w)])
      BY <2>2 DEF ReadAt
    <3>2. i \in 1..N - 1 /\ i \in 1..N
      BY <1>1, <2>2
    <3>3. Follows(g, d[i], d[i + 1]) /\ IsPart(g, d[i])
      BY <1>2, <3>2 DEF Run
    <3>4. Len(g[d[i].arg]) \in Nat
      BY <3>3, PartIs
    <3> QED
      BY <3>1, <3>3, <3>4 DEF Follows, LeadsTo
  <2> QED
    BY <1>1, <2>1, <2>2
<1>6. Len(w) < Len(g)
  <2>1. d[i + 1].arg \in 1..Len(g)
    BY <1>4 DEF IsPart
  <2>2. Len(g) \in Nat
    BY DEF Shaped
  <2> QED
    BY <1>1, <1>5, <2>1, <2>2
<1> QED
  BY <1>3, <1>4, <1>5, <1>6

\* A read that has enough words left returns exactly its argument.
LEMMA TakeWhole ==
  ASSUME NEW g, NEW m, Shaped(g, m), NEW pk, NEW i, NEW n, NEW w, ReadAt(g, pk, i, n, w), Len(w) < Len(g),
         NEW c, c = Len(g[Len(w) + 1]), NEW need, need = g[Len(w) + 1][1].size * c, need <= n
  PROVE  /\ SubSeq(pk.data, i + 1, i + c) = g[Len(w) + 1]
         /\ ReadAt(g, pk, i + c, n - need, Append(w, SubSeq(pk.data, i + 1, i + c)))
<1> DEFINE d == pk.data
           N == Len(d)
           k == Len(w) + 1
           z == g[k][1].size
           b == g[k]
<1>1. i \in 0..N /\ N \in Nat \ {0} /\ n \in Nat /\ d \in Seq(Structure) /\ k \in Nat /\ (n > 0 <=> i < N)
      /\ Len(w) \in Nat
  BY LeftIs
<1>2. k \in 1..Len(g)
  <2>1. Len(g) \in Nat
    BY DEF Shaped
  <2> QED
    BY <1>1, <2>1
<1>3. b \in Seq(Structure) /\ c \in Nat \ {0} /\ z \in Nat \ {0} /\ Len(b) = c
  <2> HIDE DEF k
  <2> QED
    BY <1>2, GroupIs DEF k
<1>4. need = z * c /\ need \in Nat \ {0}
  <2>1. need = z * c
    OBVIOUS
  <2> HIDE DEF z
  <2> QED
    BY <1>3, <2>1, ProductPositive
<1>5. i < N
  BY <1>1, <1>4
<1>6. /\ IsPart(g, d[i + 1]) /\ i + 1 \in 1..N /\ d[i + 1].arg = k /\ d[i + 1].item = 1
  BY <1>5, NextPart
<1>7. Run(g, d)
  BY DEF ReadAt, PacketOK
<1>8. PICK off : Offsets(d, pk.number, off) /\ n = off[N] - off[i]
  BY DEF ReadAt, Remaining
<1>9. /\ off \in [0..N -> Nat]
      /\ \A j \in 1..N : off[j] = off[j - 1] + d[j].size
      /\ \A j, l \in 1..N : j <= l /\ d[j].arg = d[l].arg => off[l] = off[j] + (l - j) * d[l].size
  BY <1>8 DEF Offsets
<1>10. /\ \A j, l \in 1..N : d[j].arg = d[l].arg => l - j = d[l].item - d[j].item
       /\ \A j, l \in 1..N : j < l => d[j].arg <= d[l].arg
       /\ \A j, l \in 1..N : d[j].arg < d[l].arg => l - j > Len(g[d[j].arg]) - d[j].item
       /\ \A j \in 1..N : IsPart(g, d[j])
  BY <1>7 DEF Run
<1>11. \A j \in 1..N : j > i /\ j <= i + c => d[j].arg = k /\ d[j].item = j - i /\ d[j].size = z
  <2> SUFFICES ASSUME NEW j \in 1..N, j > i, j <= i + c
               PROVE  d[j].arg = k /\ d[j].item = j - i /\ d[j].size = z
    OBVIOUS
  <2>1. IsPart(g, d[j])
    BY <1>10
  <2>2. d[j].arg \in Nat /\ d[j].item \in Nat /\ d[j].size = g[d[j].arg][1].size
    <3> DEFINE s == d[j]
    <3>1. IsPart(g, s)
      BY <2>1
    <3> HIDE DEF s
    <3>2. s.arg \in Nat /\ s.item \in Nat /\ s.size = g[s.arg][1].size
      BY <3>1, PartIs
    <3> QED
      BY <3>2 DEF s
  <2>3. d[i + 1].arg <= d[j].arg
    <3>1. CASE j = i + 1
      BY <1>6, <2>2, <3>1
    <3>2. CASE j > i + 1
      BY <1>6, <1>10, <3>2
    <3> QED
      BY <1>1, <3>1, <3>2
  <2>4. ~(d[i + 1].arg < d[j].arg)
    <3>1. SUFFICES ASSUME d[i + 1].arg < d[j].arg
                   PROVE  FALSE
      OBVIOUS
    <3>2. j - (i + 1) > Len(g[d[i + 1].arg]) - d[i + 1].item
      BY <1>6, <1>10, <3>1
    <3>3. Len(g[d[i + 1].arg]) = c /\ d[i + 1].item = 1
      BY <1>6
    <3>4. j - (i + 1) > c - 1
      BY <3>2, <3>3
    <3> HIDE DEF d, N, k, z, b
    <3>5. i \in Nat /\ j \in Nat /\ c \in Nat
      BY <1>1, <1>3
    <3> QED
      BY <3>4, <3>5
  <2>5. d[j].arg = k
    <3> HIDE DEF k
    <3> QED
      BY SMTT(30), <1>1, <1>6, <2>2, <2>3, <2>4
  <2>6. j - (i + 1) = d[j].item - d[i + 1].item
    BY <1>6, <1>10, <2>5
  <2>7. d[j].item = j - i
    <3>1. j - (i + 1) = d[j].item - 1
      BY <1>6, <2>6
    <3> DEFINE x == d[j].item
    <3>2. x \in Nat /\ j - (i + 1) = x - 1
      BY <2>2, <3>1
    <3> HIDE DEF x
    <3>3. i \in Nat /\ j \in Nat
      <4> HIDE DEF d, N, k, z, b
      <4> QED
        BY <1>1
    <3>4. x = j - i
      BY <3>2, <3>3
    <3> QED
      BY <3>4 DEF x
  <2> QED
    BY <2>2, <2>5, <2>7
<1>12. off[i + 1] = off[i] + z /\ off[i] \in Nat /\ off[N] \in Nat
  <2>1. d[i + 1].size = z
    BY SMTT(30), <1>1, <1>3, <1>6, <1>11
  <2>2. i + 1 \in 1..N /\ (i + 1) - 1 = i /\ i \in 0..N /\ N \in 0..N
    BY <1>1, <1>6
  <2>3. off[i + 1] = off[(i + 1) - 1] + d[i + 1].size
    BY <1>9, <2>2
  <2> QED
    BY <1>9, <2>1, <2>2, <2>3
<1>13. \A j \in 1..N : j > i /\ j <= i + c => off[j] = off[i] + (j - i) * z
  <2> SUFFICES ASSUME NEW j \in 1..N, j > i, j <= i + c
               PROVE  off[j] = off[i] + (j - i) * z
    OBVIOUS
  <2>1. d[j].arg = d[i + 1].arg /\ d[j].size = z
    BY <1>6, <1>11
  <2>2. off[j] = off[i + 1] + (j - (i + 1)) * z
    BY SMTT(30), <1>1, <1>6, <1>9, <2>1
  <2> HIDE DEF z, N, d
  <2>3. (j - (i + 1)) * z + z = (j - i) * z
    <3>1. (j - (i + 1)) * z + z = (j + 1 - (i + 1)) * z
      BY <1>1, <1>3, OneMore
    <3>2. j + 1 - (i + 1) = j - i
      BY <1>1
    <3> QED
      BY <3>1, <3>2
  <2>4. (j - (i + 1)) * z \in Int
    BY <1>1, <1>3
  <2>5. off[j] = off[i] + ((j - (i + 1)) * z + z)
    BY <1>3, <1>12, <2>2, <2>4
  <2> QED
    BY <2>3, <2>5
<1>14. i + c <= N
  <2> SUFFICES ASSUME ~(i + c <= N)
               PROVE  FALSE
    OBVIOUS
  <2> HIDE DEF N, z, d, b, k
  <2>1. N \in 1..N /\ N > i /\ N <= i + c /\ N - i \in Nat /\ N - i < c
    <3>1. N \in Nat \ {0} /\ i \in Nat /\ i < N /\ c \in Nat
      BY <1>1, <1>3, <1>5
    <3> QED
      BY SMTT(30), <3>1
  <2>2. off[N] = off[i] + (N - i) * z
    BY <1>13, <2>1
  <2>3. (N - i) * z < c * z
    BY <1>3, <2>1, ProductGrows
  <2>4. (N - i) * z \in Nat /\ c * z = z * c
    BY <1>3, <2>1
  <2> QED
    BY SMTT(30), <1>4, <1>8, <1>12, <2>2, <2>3, <2>4
<1>15. i + c \in 1..N /\ i + c > i /\ i + c <= i + c
  BY SMTT(30), <1>1, <1>3, <1>14
<1>16. d[i + c].arg = k /\ d[i + c].item = c /\ off[i + c] = off[i] + c * z
  <2>1. (i + c) - i = c
    BY <1>1, <1>3
  <2> QED
    BY <1>11, <1>13, <1>15, <2>1
<1> DEFINE s == SubSeq(d, i + 1, i + c)
<1>17. s \in Seq(Structure) /\ Len(s) = c /\ \A j \in 1..c : s[j] = d[i + j]
  <2>1. i + 1 \in Int /\ i + c \in Int /\ i + 1 <= i + c /\ (i + c) - (i + 1) + 1 = c
    BY <1>1, <1>3
  <2>2. \A j \in (i + 1)..(i + c) : d[j] \in Structure
    BY SMTT(30), <1>1, <1>3, <1>14, ElementOfSeq
  <2>3. /\ s \in Seq(Structure)
        /\ Len(s) = IF i + 1 <= i + c THEN (i + c) - (i + 1) + 1 ELSE 0
        /\ \A j \in 1..(i + c) - (i + 1) + 1 : s[j] = d[(i + 1) + j - 1]
    <3> DEFINE first == i + 1
               last == i + c
    <3>1. first \in Int /\ last \in Int /\ \A j \in first..last : d[j] \in Structure
      BY <2>1, <2>2
    <3> HIDE DEF first, last, d
    <3>2. /\ SubSeq(d, first, last) \in Seq(Structure)
          /\ Len(SubSeq(d, first, last)) = IF first <= last THEN last - first + 1 ELSE 0
          /\ \A j \in 1..last - first + 1 : SubSeq(d, first, last)[j] = d[first + j - 1]
      BY <3>1, SubSeqProperties
    <3> QED
      BY <3>2 DEF first, last
  <2>4. \A j \in 1..c : (i + 1) + j - 1 = i + j
    BY <1>1, <1>3
  <2> QED
    BY <2>1, <2>3, <2>4
<1>18. \A j \in 1..c : d[i + j] = b[j]
  <2> SUFFICES ASSUME NEW j \in 1..c
               PROVE  d[i + j] = b[j]
    OBVIOUS
  <2>1. i + j \in 1..N /\ i + j > i /\ i + j <= i + c /\ (i + j) - i = j
    BY SMTT(30), <1>1, <1>3, <1>14
  <2>2. d[i + j].arg = k /\ d[i + j].item = j /\ IsPart(g, d[i + j])
    BY <1>10, <1>11, <2>1
  <2>3. d[i + j] = g[d[i + j].arg][d[i + j].item]
    BY <2>2 DEF IsPart
  <2> QED
    BY <2>2, <2>3
<1>19. s = b
  <2> HIDE DEF s, b, d
  <2> QED
    BY <1>3, <1>17, <1>18, SeqEqual
<1>20. /\ PacketOK(g, pk) /\ w \in Seq(Seq(Structure)) /\ \A j \in 1..Len(w) : w[j] = g[j]
  BY DEF ReadAt
<1>21. /\ Append(w, s) \in Seq(Seq(Structure)) /\ Len(Append(w, s)) = k
       /\ \A j \in 1..k : Append(w, s)[j] = g[j]
  <2>1. /\ Append(w, s) \in Seq(Seq(Structure)) /\ Len(Append(w, s)) = Len(w) + 1
        /\ Append(w, s)[Len(w) + 1] = s /\ \A j \in 1..Len(w) : Append(w, s)[j] = w[j]
    <3>1. s \in Seq(Structure) /\ w \in Seq(Seq(Structure))
      BY <1>17, <1>20
    <3> HIDE DEF s
    <3> QED
      BY <3>1, AppendIs
  <2>2. \A j \in 1..k : j \in 1..Len(w) \/ j = Len(w) + 1
    BY <1>1
  <2> QED
    BY <1>19, <1>20, <2>1, <2>2
<1>22. n - need \in Nat /\ n - need = off[N] - off[i + c]
  <2> HIDE DEF N, z, d
  <2> DEFINE p == c * z
             o == off[i + c]
  <2>1. need = p /\ p \in Nat
    BY <1>3, <1>4
  <2>2. o = off[i] + p
    BY <1>16
  <2> DEFINE x == off[i]
             y == off[N]
  <2>3. n = y - x /\ x \in Nat /\ y \in Nat /\ o = x + p /\ n \in Nat
    BY <1>1, <1>8, <1>12, <2>2
  <2> HIDE DEF p, o, x, y
  <2>4. n - need \in Nat
    BY <2>1, <2>3
  <2>5. n - need = y - o
    BY <2>1, <2>3
  <2> QED
    BY <2>4, <2>5 DEF o, y
<1>23. Remaining(d, i + c, pk.number, n - need)
  BY <1>8, <1>22 DEF Remaining
<1>24. ReadAt(g, pk, i + c, n - need, Append(w, s))
  <2> DEFINE x == Append(w, s)
             j == i + c
             r == n - need
  <2>1. /\ PacketOK(g, pk) /\ j \in 0..N /\ r \in Nat /\ Remaining(d, j, pk.number, r)
        /\ x \in Seq(Seq(Structure)) /\ Len(x) <= Len(g) /\ \A l \in 1..Len(x) : x[l] = g[l]
    BY SMTT(30), <1>1, <1>2, <1>15, <1>20, <1>21, <1>22, <1>23
  <2>2. j > 0 /\ d[j].arg = Len(x) /\ Len(x) > 0 /\ d[j].item = Len(g[Len(x)])
    BY SMTT(30), <1>1, <1>2, <1>15, <1>16, <1>21
  <2>3. j # 0
    BY <1>1, <1>3
  <2> HIDE DEF x, j, r, N
  <2>4. ReadAt(g, pk, j, r, x)
    BY <2>1, <2>2, <2>3 DEF ReadAt, N
  <2> QED
    BY <2>4 DEF x, j, r
<1> QED
  BY <1>19, <1>24

\* A read that has words left, but not enough, is one of an array.
LEMMA TakeShort ==
  ASSUME NEW g, NEW m, Shaped(g, m), NEW pk, NEW i, NEW n, NEW w, ReadAt(g, pk, i, n, w), Len(w) < Len(g),
         n # 0, g[Len(w) + 1][1].size * Len(g[Len(w) + 1]) > n
  PROVE  Len(g[Len(w) + 1]) > 1
<1> DEFINE d == pk.data
           N == Len(d)
           k == Len(w) + 1
           z == g[k][1].size
           c == Len(g[k])
<1>1. i \in 0..N /\ N \in Nat \ {0} /\ n \in Nat /\ i < N /\ Len(w) \in Nat
  BY LeftIs
<1>2. k \in 1..Len(g)
  <2>1. Len(g) \in Nat
    BY DEF Shaped
  <2> QED
    BY <1>1, <2>1
<1>3. c \in Nat \ {0} /\ z \in Nat \ {0}
  <2> HIDE DEF k
  <2> QED
    BY <1>2, GroupIs DEF k
<1>4. IsPart(g, d[i + 1]) /\ i + 1 \in 1..N /\ d[i + 1].arg = k
  BY <1>1, NextPart
<1>5. d[i + 1].size = z
  BY SMTT(30), <1>4, PartIs
<1>6. PICK off : Offsets(d, pk.number, off) /\ n = off[N] - off[i]
  BY DEF ReadAt, Remaining
<1>7. /\ off \in [0..N -> Nat]
      /\ \A j \in 1..N : off[j] = off[j - 1] + d[j].size
      /\ \A j, l \in 0..N : j < l => off[j] < off[l]
  BY <1>6 DEF Offsets
<1>8. off[i + 1] = off[i] + z /\ off[i] \in Nat /\ off[N] \in Nat /\ off[i + 1] \in Nat /\ off[i + 1] <= off[N]
  <2>1. i + 1 \in 1..N /\ (i + 1) - 1 = i /\ i \in 0..N /\ N \in 0..N /\ i + 1 \in 0..N
    BY <1>1, <1>4
  <2>2. off[i + 1] = off[(i + 1) - 1] + d[i + 1].size
    BY <1>7, <2>1
  <2> HIDE DEF z
  <2>3. off[i + 1] = off[i] + z /\ off[i] \in Nat /\ off[N] \in Nat /\ off[i + 1] \in Nat
    BY <1>5, <1>7, <2>1, <2>2
  <2>4. i + 1 = N \/ i + 1 < N
    BY <1>1
  <2> HIDE DEF N
  <2>5. off[i + 1] <= off[N]
    BY <1>7, <2>1, <2>3, <2>4
  <2> QED
    BY <2>3, <2>5
<1>9. z <= n
  <2> HIDE DEF z, N
  <2> QED
    BY <1>3, <1>6, <1>8
<1>10. z * c > n
  OBVIOUS
<1> HIDE DEF z, c
<1>11. c # 1
  BY <1>1, <1>3, <1>9, <1>10
<1>12. c > 1
  BY <1>3, <1>11
<1> QED
  BY <1>12 DEF c

\* At the end of a packet, the argument read last is complete.
LEMMA PacketDone ==
  ASSUME NEW g, NEW m, Shaped(g, m), NEW pk, NEW i, NEW w, ReadAt(g, pk, i, 0, w)
  PROVE  /\ Last(pk.data).arg = Len(w) /\ Last(pk.data).item = Len(g[Len(w)])
<1>1. i = Len(pk.data) /\ i > 0 /\ pk.data \in Seq(Structure)
  BY LeftIs
<1>2. Last(pk.data) = pk.data[i]
  BY <1>1 DEF Last
<1> QED
  BY <1>1, <1>2 DEF ReadAt

\* Reading goes on at the start of the packet that follows.
LEMMA PacketBegun ==
  ASSUME NEW g, NEW m, Shaped(g, m), NEW pk, PacketOK(g, pk), NEW w, w \in Seq(Seq(Structure)), Len(w) <= Len(g),
         \A k \in 1..Len(w) : w[k] = g[k],
         pk.data[1].arg = Len(w) + 1, pk.data[1].item = 1
  PROVE  ReadAt(g, pk, 0, pk.number, w)
<1> DEFINE N == Len(pk.data)
<1>1. pk.data \in Seq(Structure) /\ N > 0 /\ pk.number \in Nat \ {0} /\ Measured(pk.data, pk.number)
  BY DEF PacketOK, PacketType
<1>2. N \in Nat
  BY <1>1, LenProperties
<1>3. PICK off : Offsets(pk.data, pk.number, off)
  BY <1>1 DEF Measured
<1>4. off[N] = pk.number /\ off[0] = 0
  BY <1>3 DEF Offsets
<1>5. pk.number = off[N] - off[0]
  BY <1>1, <1>4
<1>6. Remaining(pk.data, 0, pk.number, pk.number)
  BY <1>3, <1>5 DEF Remaining
<1> QED
  BY <1>1, <1>2, <1>6 DEF ReadAt

\* An out-of-line packet carries a block.
LEMMA PacketOfBlock ==
  ASSUME NEW g, NEW m, Shaped(g, m), NEW pk, PacketOK(g, pk), ~pk.inLine
  PROVE  /\ IsPart(g, pk.data[1]) /\ pk.data[1].arg \in 1..Len(g)
         /\ g[pk.data[1].arg][1].size > Threshold
<1> DEFINE s == pk.data[1]
           d == pk.data
<1>1. Len(d) = 1 /\ Run(g, d) /\ pk.number > Threshold /\ Measured(d, pk.number)
  BY DEF PacketOK
<1>2. IsPart(g, s)
  BY <1>1 DEF Run
<1>3. s.arg \in 1..Len(g) /\ s.size = g[s.arg][1].size /\ s.size \in Nat
  BY <1>2, PartIs
<1>4. s.size = pk.number
  <2>1. PICK off : Offsets(d, pk.number, off)
    BY <1>1 DEF Measured
  <2>2. off[1] = pk.number /\ off[0] = 0 /\ off[1] = off[1 - 1] + s.size /\ 1 - 1 = 0
    BY <1>1, <2>1 DEF Offsets
  <2> QED
    BY <1>3, <2>2
<1> QED
  BY <1>1, <1>2, <1>3, <1>4

\* Packets, one after the other.
LEMMA PacketIs ==
  ASSUME NEW g, NEW pk, PacketOK(g, pk)
  PROVE  /\ pk \in PacketType /\ pk.data \in Seq(Structure) /\ pk.data # <<>>
         /\ IsPart(g, pk.data[1]) /\ IsPart(g, Last(pk.data))
<1>1. pk \in PacketType /\ Len(pk.data) > 0 /\ Run(g, pk.data)
  BY DEF PacketOK
<1>2. pk.data \in Seq(Structure)
  BY <1>1 DEF PacketType
<1>3. pk.data # <<>> /\ Len(pk.data) \in 1..Len(pk.data) /\ 1 \in 1..Len(pk.data)
      /\ Last(pk.data) = pk.data[Len(pk.data)]
  BY <1>1, <1>2, LastIs
<1> QED
  BY <1>1, <1>2, <1>3 DEF Run

LEMMA PacketsParts ==
  ASSUME NEW g, NEW ps, PacketsOK(g, ps), ps # <<>>
  PROVE  /\ IsPart(g, StartOf(ps)) /\ IsPart(g, EndOf(ps)) /\ Len(ps) > 0
         /\ Len(ps) \in 1..Len(ps) /\ 1 \in 1..Len(ps) /\ Last(ps) = ps[Len(ps)]
<1>1. ps \in Seq(PacketType) /\ \A i \in 1..Len(ps) : PacketOK(g, ps[i])
  BY DEF PacketsOK
<1>2. Len(ps) > 0 /\ Len(ps) \in 1..Len(ps) /\ 1 \in 1..Len(ps) /\ Last(ps) = ps[Len(ps)]
  BY <1>1, LastIs
<1>3. PacketOK(g, ps[1]) /\ PacketOK(g, Last(ps))
  BY <1>1, <1>2
<1> QED
  BY <1>2, <1>3, PacketIs DEF StartOf, EndOf

LEMMA NoPackets ==
  ASSUME NEW g
  PROVE  PacketsOK(g, <<>>)
BY EmptySeq DEF PacketsOK

LEMMA PacketsAppend ==
  ASSUME NEW g, NEW ps, PacketsOK(g, ps), NEW pk, PacketOK(g, pk),
         ps # <<>> => Follows(g, EndOf(ps), pk.data[1])
  PROVE  /\ PacketsOK(g, Append(ps, pk)) /\ Append(ps, pk) \in Seq(PacketType)
         /\ EndOf(Append(ps, pk)) = Last(pk.data)
         /\ StartOf(Append(ps, pk)) = IF ps = <<>> THEN pk.data[1] ELSE StartOf(ps)
         /\ Append(ps, pk) # <<>> /\ Len(Append(ps, pk)) > 0
<1> DEFINE n == Len(ps)
           e == Append(ps, pk)
<1>1. ps \in Seq(PacketType) /\ pk \in PacketType
  BY PacketIs DEF PacketsOK
<1>2. /\ e \in Seq(PacketType) /\ n \in Nat /\ Len(e) = n + 1 /\ e[n + 1] = pk
      /\ \A i \in 1..n : e[i] = ps[i]
      /\ Last(e) = pk
  BY <1>1, AppendIs
<1>3. /\ \A i \in 1..n : PacketOK(g, ps[i])
      /\ \A i \in 1..n - 1 : Follows(g, Last(ps[i].data), ps[i + 1].data[1])
  BY DEF PacketsOK
<1>4. n > 0 => Follows(g, Last(ps[n].data), pk.data[1])
  BY <1>1, LastIs DEF EndOf
<1>5. e # <<>> /\ Len(e) > 0
  BY <1>2, LastIs
<1>6. EndOf(e) = Last(pk.data)
  BY <1>2 DEF EndOf
<1>7. StartOf(e) = IF ps = <<>> THEN pk.data[1] ELSE StartOf(ps)
  BY <1>1, <1>2, LastIs DEF StartOf
<1>8. PacketsOK(g, e) <=>
        /\ e \in Seq(PacketType)
        /\ \A i \in 1..Len(e) : PacketOK(g, e[i])
        /\ \A i \in 1..Len(e) - 1 : Follows(g, Last(e[i].data), e[i + 1].data[1])
  BY DEF PacketsOK
<1> HIDE DEF e, n
<1>9. \A i \in 1..n + 1 : PacketOK(g, e[i])
  <2>1. \A i \in 1..n + 1 : i \in 1..n \/ i = n + 1
    BY <1>2
  <2> QED
    BY <1>2, <1>3, <2>1
<1>10. \A i \in 1..n : Follows(g, Last(e[i].data), e[i + 1].data[1])
  <2> SUFFICES ASSUME NEW i \in 1..n
               PROVE  Follows(g, Last(e[i].data), e[i + 1].data[1])
    OBVIOUS
  <2>1. CASE i = n
    <3>1. e[i] = ps[n] /\ e[i + 1] = pk /\ n > 0
      BY <1>2, <2>1
    <3> QED
      BY <1>4, <3>1
  <2>2. CASE i < n
    <3>1. i \in 1..n - 1 /\ i + 1 \in 1..n
      BY <1>2, <2>2
    <3>2. e[i] = ps[i] /\ e[i + 1] = ps[i + 1]
      BY <1>2, <3>1
    <3> QED
      BY <1>3, <3>1, <3>2
  <2> QED
    BY <1>2, <2>1, <2>2
<1>11. Len(e) - 1 = n
  BY <1>2
<1>12. PacketsOK(g, e)
  BY <1>2, <1>8, <1>9, <1>10, <1>11
<1> QED
  BY <1>2, <1>5, <1>6, <1>7, <1>12 DEF e

LEMMA PacketsFront ==
  ASSUME NEW g, NEW ps \in Seq(PacketType), NEW pk \in PacketType, PacketsOK(g, Append(ps, pk))
  PROVE  /\ PacketsOK(g, ps) /\ PacketOK(g, pk)
         /\ ps # <<>> => Follows(g, EndOf(ps), pk.data[1])
<1> DEFINE n == Len(ps)
           e == Append(ps, pk)
<1>1. n \in Nat /\ Len(e) = n + 1 /\ e[n + 1] = pk /\ \A i \in 1..n : e[i] = ps[i]
  BY AppendIs
<1>2. /\ \A i \in 1..Len(e) : PacketOK(g, e[i])
      /\ \A i \in 1..Len(e) - 1 : Follows(g, Last(e[i].data), e[i + 1].data[1])
  BY DEF PacketsOK
<1>3. ps # <<>> => n > 0 /\ EndOf(ps) = Last(ps[n].data)
  BY LastIs DEF EndOf
<1>4. PacketsOK(g, ps) <=>
        /\ \A i \in 1..n : PacketOK(g, ps[i])
        /\ \A i \in 1..n - 1 : Follows(g, Last(ps[i].data), ps[i + 1].data[1])
  BY DEF PacketsOK
<1> HIDE DEF n, e
<1>5. PacketOK(g, pk) /\ \A i \in 1..n : PacketOK(g, ps[i])
  <2>1. n + 1 \in 1..Len(e) /\ \A i \in 1..n : i \in 1..Len(e)
    BY <1>1
  <2> QED
    BY <1>1, <1>2, <2>1
<1>6. \A i \in 1..n - 1 : Follows(g, Last(ps[i].data), ps[i + 1].data[1])
  <2>1. \A i \in 1..n - 1 : i \in 1..n /\ i + 1 \in 1..n /\ i \in 1..Len(e) - 1
    BY <1>1
  <2> QED
    BY <1>1, <1>2, <2>1
<1>7. ps # <<>> => Follows(g, EndOf(ps), pk.data[1])
  <2> SUFFICES ASSUME ps # <<>>
               PROVE  Follows(g, EndOf(ps), pk.data[1])
    OBVIOUS
  <2>1. n \in 1..Len(e) - 1 /\ n \in 1..n
    BY <1>1, <1>3
  <2> QED
    BY <1>1, <1>2, <1>3, <2>1
<1> QED
  BY <1>4, <1>5, <1>6, <1>7

\* A message's structures are parts of one mark.
LEMMA MessageIs ==
  ASSUME NEW v, MarksShaped(v), NEW msg, MessageOK(v, msg)
  PROVE  /\ Shaped(v[MarkAt(msg)], MarkAt(msg)) /\ MarkAt(msg) \in 1..Len(v) /\ Len(v) \in Nat
         /\ msg \in Message /\ PacketsOK(v[MarkAt(msg)], msg.packets) /\ msg.packets # <<>>
         /\ msg.packets \in Seq(PacketType) /\ msg.first \in BOOLEAN
         /\ IsPart(v[MarkAt(msg)], StartOf(msg.packets)) /\ IsPart(v[MarkAt(msg)], EndOf(msg.packets))
<1>1. msg \in Message /\ Len(msg.packets) > 0 /\ MarkAt(msg) \in 1..Len(v)
      /\ PacketsOK(v[MarkAt(msg)], msg.packets)
  BY DEF MessageOK
<1>2. msg.packets \in Seq(PacketType) /\ msg.first \in BOOLEAN
  BY <1>1 DEF Message, PacketType
<1>3. msg.packets # <<>>
  BY <1>1, <1>2, LastIs
<1>4. Shaped(v[MarkAt(msg)], MarkAt(msg)) /\ Len(v) \in Nat
  BY <1>1, LenProperties DEF MarksShaped
<1> QED
  BY <1>1, <1>2, <1>3, <1>4, PacketsParts

\* Marks that are made do not change.
LEMMA MessageKept ==
  ASSUME NEW v, NEW w, Len(v) \in Nat, Len(w) \in Nat, Len(v) <= Len(w), \A m \in 1..Len(v) : w[m] = v[m],
         NEW msg, MessageOK(v, msg)
  PROVE  MessageOK(w, msg)
<1>1. MarkAt(msg) \in 1..Len(v) /\ MarkAt(msg) \in 1..Len(w) /\ w[MarkAt(msg)] = v[MarkAt(msg)]
  BY DEF MessageOK
<1> QED
  BY <1>1 DEF MessageOK

\* Messages, one after the other: with one more, without the last, without the
\* first.
LEMMA StreamKept ==
  ASSUME NEW v, NEW w, Len(v) \in Nat, Len(w) \in Nat, Len(v) <= Len(w), \A m \in 1..Len(v) : w[m] = v[m],
         NEW S, Stream(v, S)
  PROVE  Stream(w, S)
<1>1. S \in Seq(Message) /\ \A i \in 1..Len(S) : MessageOK(v, S[i])
  BY DEF Stream
<1>2. \A i \in 1..Len(S) : MessageOK(w, S[i])
  BY <1>1, MessageKept
<1>3. \A i \in 1..Len(S) - 1 : Linked(w, S[i], S[i + 1])
  <2> SUFFICES ASSUME NEW i \in 1..Len(S) - 1
               PROVE  Linked(w, S[i], S[i + 1])
    OBVIOUS
  <2>1. i \in 1..Len(S)
    BY <1>1, LenProperties
  <2>2. w[MarkAt(S[i])] = v[MarkAt(S[i])]
    BY <1>1, <2>1 DEF MessageOK
  <2> QED
    BY <2>2 DEF Stream, Linked
<1> QED
  BY <1>1, <1>2, <1>3 DEF Stream

LEMMA StreamAppend ==
  ASSUME NEW v, NEW S, Stream(v, S), NEW msg, MessageOK(v, msg), S # <<>> => Linked(v, Last(S), msg)
  PROVE  /\ Stream(v, Append(S, msg)) /\ Append(S, msg) # <<>> /\ Last(Append(S, msg)) = msg
         /\ Append(S, msg)[1] = IF S = <<>> THEN msg ELSE S[1]
<1> DEFINE n == Len(S)
           e == Append(S, msg)
<1>1. S \in Seq(Message) /\ msg \in Message
  BY DEF Stream, MessageOK
<1>2. /\ e \in Seq(Message) /\ n \in Nat /\ Len(e) = n + 1 /\ e[n + 1] = msg
      /\ \A i \in 1..n : e[i] = S[i]
      /\ Last(e) = msg
  BY <1>1, AppendIs
<1>3. /\ \A i \in 1..n : MessageOK(v, S[i])
      /\ \A i \in 1..n - 1 : Linked(v, S[i], S[i + 1])
  BY DEF Stream
<1>4. n > 0 => Linked(v, S[n], msg)
  BY <1>1, LastIs
<1>5. e # <<>>
  <2> HIDE DEF e, n
  <2> QED
    BY <1>2, LastIs
<1>6. e[1] = IF S = <<>> THEN msg ELSE S[1]
  BY <1>1, <1>2, LastIs
<1>7. Stream(v, e) <=>
        /\ e \in Seq(Message)
        /\ \A i \in 1..Len(e) : MessageOK(v, e[i])
        /\ \A i \in 1..Len(e) - 1 : Linked(v, e[i], e[i + 1])
  BY DEF Stream
<1> HIDE DEF e, n
<1>8. \A i \in 1..n + 1 : MessageOK(v, e[i])
  <2>1. \A i \in 1..n + 1 : i \in 1..n \/ i = n + 1
    BY <1>2
  <2> QED
    BY <1>2, <1>3, <2>1
<1>9. \A i \in 1..n : Linked(v, e[i], e[i + 1])
  <2> SUFFICES ASSUME NEW i \in 1..n
               PROVE  Linked(v, e[i], e[i + 1])
    OBVIOUS
  <2>1. CASE i = n
    <3>1. e[i] = S[n] /\ e[i + 1] = msg /\ n > 0
      BY <1>2, <2>1
    <3> QED
      BY <1>4, <3>1
  <2>2. CASE i < n
    <3>1. i \in 1..n - 1 /\ i + 1 \in 1..n
      BY <1>2, <2>2
    <3>2. e[i] = S[i] /\ e[i + 1] = S[i + 1]
      BY <1>2, <3>1
    <3> QED
      BY <1>3, <3>1, <3>2
  <2> QED
    BY <1>2, <2>1, <2>2
<1>10. Len(e) - 1 = n
  BY <1>2
<1>11. Stream(v, e)
  BY <1>2, <1>7, <1>8, <1>9, <1>10
<1> QED
  BY <1>2, <1>5, <1>6, <1>11 DEF e

LEMMA StreamFront ==
  ASSUME NEW v, NEW S \in Seq(Message), NEW msg \in Message, Stream(v, Append(S, msg))
  PROVE  /\ Stream(v, S) /\ MessageOK(v, msg)
         /\ S # <<>> => Linked(v, Last(S), msg)
         /\ Append(S, msg) # <<>> /\ Last(Append(S, msg)) = msg
         /\ Append(S, msg)[1] = IF S = <<>> THEN msg ELSE S[1]
<1> DEFINE n == Len(S)
           e == Append(S, msg)
<1>1. n \in Nat /\ Len(e) = n + 1 /\ e[n + 1] = msg /\ (\A i \in 1..n : e[i] = S[i]) /\ e \in Seq(Message)
      /\ Last(e) = msg
  BY AppendIs
<1>2. /\ \A i \in 1..Len(e) : MessageOK(v, e[i])
      /\ \A i \in 1..Len(e) - 1 : Linked(v, e[i], e[i + 1])
  BY DEF Stream
<1>3. S # <<>> => n > 0 /\ Last(S) = S[n]
  BY LastIs
<1>4. Stream(v, S) <=> /\ \A i \in 1..n : MessageOK(v, S[i])
                       /\ \A i \in 1..n - 1 : Linked(v, S[i], S[i + 1])
  BY DEF Stream
<1>5. e # <<>> /\ e[1] = IF S = <<>> THEN msg ELSE S[1]
  <2>1. S = <<>> <=> n = 0
    BY LastIs
  <2> HIDE DEF e, n
  <2>2. e # <<>>
    BY <1>1, LastIs
  <2> QED
    BY <1>1, <2>1, <2>2
<1> HIDE DEF n, e
<1>6. MessageOK(v, msg) /\ \A i \in 1..n : MessageOK(v, S[i])
  <2>1. n + 1 \in 1..Len(e) /\ \A i \in 1..n : i \in 1..Len(e)
    BY <1>1
  <2> QED
    BY <1>1, <1>2, <2>1
<1>7. \A i \in 1..n - 1 : Linked(v, S[i], S[i + 1])
  <2>1. \A i \in 1..n - 1 : i \in 1..n /\ i + 1 \in 1..n /\ i \in 1..Len(e) - 1
    BY <1>1
  <2> QED
    BY <1>1, <1>2, <2>1
<1>8. S # <<>> => Linked(v, Last(S), msg)
  <2> SUFFICES ASSUME S # <<>>
               PROVE  Linked(v, Last(S), msg)
    OBVIOUS
  <2>1. n \in 1..Len(e) - 1 /\ n \in 1..n
    BY <1>1, <1>3
  <2> QED
    BY <1>1, <1>2, <1>3, <2>1
<1> QED
  BY <1>1, <1>4, <1>6, <1>7, <1>8, <1>5 DEF e

LEMMA StreamTail ==
  ASSUME NEW v, NEW S, Stream(v, S), S # <<>>
  PROVE  /\ Stream(v, Tail(S)) /\ MessageOK(v, S[1]) /\ Head(S) = S[1]
         /\ Tail(S) # <<>> => Linked(v, S[1], Tail(S)[1]) /\ Last(Tail(S)) = Last(S)
         /\ Tail(S) = <<>> => Last(S) = S[1]
<1> DEFINE n == Len(S)
           e == Tail(S)
<1>1. S \in Seq(Message)
  BY DEF Stream
<1>2. n \in Nat \ {0} /\ Head(S) = S[1] /\ Last(S) = S[n]
  BY <1>1, LastIs, HeadTailProperties
<1>3. e \in Seq(Message) /\ Len(e) = n - 1 /\ \A i \in 1..Len(e) : e[i] = S[i + 1]
  BY <1>1, HeadTailProperties
<1>4. /\ \A i \in 1..n : MessageOK(v, S[i])
      /\ \A i \in 1..n - 1 : Linked(v, S[i], S[i + 1])
  BY DEF Stream
<1>5. Stream(v, e) <=> /\ \A i \in 1..Len(e) : MessageOK(v, e[i])
                       /\ \A i \in 1..Len(e) - 1 : Linked(v, e[i], e[i + 1])
  BY <1>3 DEF Stream
<1>6. e # <<>> => Len(e) > 0 /\ Last(e) = e[Len(e)]
  BY <1>3, LastIs
<1>7. e = <<>> => n = 1
  <2>1. e = <<>> => Len(e) = 0
    BY EmptySeq
  <2> HIDE DEF e, n
  <2> QED
    BY <1>2, <1>3, <2>1
<1> HIDE DEF n, e
<1>8. \A i \in 1..Len(e) : MessageOK(v, e[i])
  <2>1. \A i \in 1..Len(e) : i + 1 \in 1..n
    BY <1>2, <1>3
  <2> QED
    BY <1>3, <1>4, <2>1
<1>9. \A i \in 1..Len(e) - 1 : Linked(v, e[i], e[i + 1])
  <2>1. \A i \in 1..Len(e) - 1 : i \in 1..Len(e) /\ i + 1 \in 1..Len(e) /\ i + 1 \in 1..n - 1
    BY <1>2, <1>3
  <2> QED
    BY <1>3, <1>4, <2>1
<1>10. e # <<>> => Linked(v, S[1], e[1]) /\ Last(e) = S[n]
  <2> SUFFICES ASSUME e # <<>>
               PROVE  Linked(v, S[1], e[1]) /\ Last(e) = S[n]
    OBVIOUS
  <2>1. 1 \in 1..n - 1 /\ 1 \in 1..Len(e) /\ Len(e) \in 1..Len(e) /\ Len(e) + 1 = n
    BY <1>2, <1>3, <1>6
  <2> QED
    BY <1>3, <1>4, <1>6, <2>1
<1>11. 1 \in 1..n
  BY <1>2
<1> QED
  BY <1>2, <1>4, <1>5, <1>7, <1>8, <1>9, <1>10, <1>11 DEF e

\* What the stream holds is a message.
LEMMA MadeIs ==
  ASSUME NEW a, BufferOK(a)
  PROVE  /\ Made(a) \in Seq(PacketType) /\ Prepared(a) \in Message
         /\ a.p > 0 => Made(a) # <<>>
         /\ a.p # a.ct => Inline(a) \in PacketType /\ Made(a) = Append(a.packets, Inline(a))
         /\ Prepared(a).first = a.first /\ Prepared(a).packets = Made(a)
         /\ a.p = 0 => a.ct = 0 /\ a.packets = <<>> /\ a.open = <<>> /\ a.n = BufferSize
<1>1. /\ a.p \in Nat /\ a.ct \in Nat /\ a.open \in Seq(Structure) /\ a.packets \in Seq(PacketType)
      /\ a.first \in BOOLEAN /\ a.ct <= a.p /\ (a.packets = <<>> <=> a.ct = 0) /\ a.n = BufferSize - a.p
      /\ (a.open = <<>> <=> a.p = a.ct)
  BY DEF BufferOK, StreamType
<1>2. a.p # a.ct => Inline(a) \in PacketType /\ Made(a) = Append(a.packets, Inline(a))
  BY SMTT(30), <1>1 DEF Inline, PacketType, Made
<1>3. a.p = a.ct => Made(a) = a.packets
  BY DEF Made
<1>4. Made(a) \in Seq(PacketType) /\ (a.p > 0 => Made(a) # <<>>)
  <2>1. CASE a.p = a.ct
    BY <1>1, <1>3, <2>1
  <2>2. CASE a.p # a.ct
    <3> DEFINE ps == a.packets
               pk == Inline(a)
    <3>1. ps \in Seq(PacketType) /\ pk \in PacketType /\ Made(a) = Append(ps, pk)
      BY <1>1, <1>2, <2>2
    <3> HIDE DEF ps, pk
    <3>2. Append(ps, pk) \in Seq(PacketType) /\ Append(ps, pk) # <<>>
      BY <3>1, AppendIs
    <3> QED
      BY <3>1, <3>2
  <2> QED
    BY <2>1, <2>2
<1>5. Prepared(a) \in Message
  <2>1. MsgSize(a) \in Int
    BY <1>1, SizesPositive DEF MsgSize
  <2> QED
    BY <1>1, <1>4, <2>1 DEF Prepared, Message, PacketType
<1>6. a.p = 0 => a.ct = 0 /\ a.packets = <<>> /\ a.open = <<>> /\ a.n = BufferSize
  BY <1>1, SizesPositive
<1> QED
  BY <1>2, <1>4, <1>5, <1>6 DEF Prepared

\* What is to be known of stream a for as_write to go on with part s of mark g,
\* and of what it leaves.
Writable(g, a, s) == /\ BufferOK(a) /\ IsPart(g, s)
                     /\ a.p > 0 => PacketsOK(g, Made(a)) /\ Follows(g, EndOf(Made(a)), s)
\* And of what it leaves.
Written(g, a, s, b) == /\ BufferOK(b) /\ b.p > 0 /\ b.first = a.first
                       /\ PacketsOK(g, Made(b)) /\ EndOf(Made(b)) = s
                       /\ StartOf(Made(b)) = IF a.p = 0 THEN s ELSE StartOf(Made(a))

\* The fields of the stream.
LEMMA ThreeFields ==
  ASSUME NEW a \in StreamType, NEW x \in Int, NEW y \in Int, NEW o \in Seq(Structure)
  PROVE  /\ [a EXCEPT !.p = x, !.n = y, !.open = o] \in StreamType
         /\ [a EXCEPT !.p = x, !.n = y] \in StreamType
<1> DEFINE b == [a EXCEPT !.p = x]
           c == [b EXCEPT !.n = y]
           d == [c EXCEPT !.open = o]
<1>1. b \in StreamType
  BY DEF StreamType
<1>2. c \in StreamType
  <2> HIDE DEF b
  <2> QED
    BY <1>1 DEF StreamType
<1>3. d \in StreamType
  <2> HIDE DEF c
  <2> QED
    BY <1>2 DEF StreamType
<1>4. [a EXCEPT !.p = x, !.n = y, !.open = o] = d /\ [a EXCEPT !.p = x, !.n = y] = c
  OBVIOUS
<1> QED
  BY <1>2, <1>3, <1>4

LEMMA FiveFields ==
  ASSUME NEW a \in StreamType, NEW x \in Int, NEW y \in Int, NEW t \in Int,
         NEW o \in Seq(Structure), NEW ps \in Seq(PacketType)
  PROVE  [a EXCEPT !.p = x, !.n = y, !.ct = t, !.open = o, !.packets = ps] \in StreamType
<1> DEFINE b == [a EXCEPT !.p = x, !.n = y]
           c == [b EXCEPT !.ct = t]
           d == [c EXCEPT !.open = o]
           e == [d EXCEPT !.packets = ps]
<1>1. b \in StreamType
  BY ThreeFields
<1>2. c \in StreamType
  <2> HIDE DEF b
  <2> QED
    BY <1>1 DEF StreamType
<1>3. d \in StreamType
  <2> HIDE DEF c
  <2> QED
    BY <1>2 DEF StreamType
<1>4. e \in StreamType
  <2> HIDE DEF d
  <2> QED
    BY <1>3 DEF StreamType
<1>5. [a EXCEPT !.p = x, !.n = y, !.ct = t, !.open = o, !.packets = ps] = e
  OBVIOUS
<1> QED
  BY <1>4, <1>5

\* as_write inline lengthens the open packet or opens one; ...
LEMMA PutInlineWrites ==
  ASSUME NEW g, NEW m, Shaped(g, m), NEW a, NEW s, Writable(g, a, s), a.n >= s.size
  PROVE  Written(g, a, s, PutInline(a, s))
<1> DEFINE b == PutInline(a, s)
<1>1. /\ a \in StreamType /\ a.p \in Nat /\ a.n \in Nat /\ a.ct \in Nat
      /\ a.open \in Seq(Structure) /\ a.packets \in Seq(PacketType) /\ a.first \in BOOLEAN
      /\ a.p <= BufferSize /\ a.n = BufferSize - a.p /\ a.ct <= a.p
      /\ (a.open = <<>> <=> a.p = a.ct) /\ (a.packets = <<>> <=> a.ct = 0)
  BY DEF Writable, BufferOK, StreamType
<1>2. IsPart(g, s) /\ s \in Structure /\ s.size \in Nat \ {0} /\ BufferSize \in Nat
  BY PartIs, SizesPositive DEF Writable
<1>3. /\ b.p = a.p + s.size /\ b.n = a.n - s.size /\ b.ct = a.ct /\ b.open = Append(a.open, s)
      /\ b.packets = a.packets /\ b.first = a.first
  BY <1>1 DEF PutInline, StreamType
<1>4. Append(a.open, s) \in Seq(Structure) /\ Append(a.open, s) # <<>>
  BY SMTT(30), <1>1, <1>2, AppendIs
<1>5. b \in StreamType
  <2> DEFINE x == a.p + s.size
             y == a.n - s.size
             o == Append(a.open, s)
  <2>1. b = [a EXCEPT !.p = x, !.n = y, !.open = o]
    BY <1>1 DEF PutInline, StreamType
  <2>2. x \in Int /\ y \in Int /\ o \in Seq(Structure)
    BY <1>1, <1>2, <1>4
  <2> HIDE DEF x, y, o, b
  <2>3. [a EXCEPT !.p = x, !.n = y, !.open = o] \in StreamType
    BY <1>1, <2>2, ThreeFields
  <2> QED
    BY <2>1, <2>3
<1> HIDE DEF b
<1>6. BufferOK(b) /\ b.p > 0 /\ b.p # b.ct
  <2>1. /\ b.p \in Nat /\ b.n \in Nat /\ b.ct \in Nat /\ b.p > 0 /\ b.p # b.ct
        /\ b.p <= BufferSize /\ b.n = BufferSize - b.p /\ b.ct <= b.p
    <3> DEFINE p == a.p
               n == a.n
               t == a.ct
               z == s.size
    <3>1. /\ p \in Nat /\ n \in Nat /\ t \in Nat /\ z \in Nat \ {0} /\ BufferSize \in Nat
          /\ n = BufferSize - p /\ t <= p /\ n >= z
      BY <1>1, <1>2
    <3>2. b.p = p + z /\ b.n = n - z /\ b.ct = t
      BY <1>3
    <3> HIDE DEF p, n, t, z
    <3>3. /\ p + z \in Nat /\ n - z \in Nat /\ p + z > 0 /\ p + z # t
          /\ p + z <= BufferSize /\ n - z = BufferSize - (p + z) /\ t <= p + z
      BY <3>1
    <3> QED
      BY <3>1, <3>2, <3>3
  <2>2. b.open # <<>> /\ (b.packets = <<>> <=> b.ct = 0)
    BY <1>1, <1>3, <1>4
  <2> QED
    BY <1>5, <2>1, <2>2 DEF BufferOK
<1>7. Made(b) = Append(a.packets, Inline(b)) /\ Inline(b) = [inLine |-> TRUE, number |-> a.p + s.size - a.ct, data |-> Append(a.open, s)]
  <2>1. b.p - b.ct = a.p + s.size - a.ct
    BY SMTT(30), <1>1, <1>2, <1>3
  <2> QED
    BY <1>3, <1>6, <2>1 DEF Made, Inline
<1>8. CASE a.open = <<>>
  <2>1. Append(a.open, s) = <<s>>
    BY <1>2, <1>8
  <2>2. a.p = a.ct /\ Made(a) = a.packets /\ a.p + s.size - a.ct = s.size
    BY <1>1, <1>2, <1>8 DEF Made
  <2>3. PacketOK(g, Inline(b)) /\ Inline(b).data = <<s>> /\ <<s>>[1] = s /\ Last(<<s>>) = s
    <3>1. PacketOK(g, [inLine |-> TRUE, number |-> s.size, data |-> <<s>>])
      BY <1>2, PacketSingle
    <3>2. Inline(b) = [inLine |-> TRUE, number |-> s.size, data |-> <<s>>]
      BY <1>7, <2>1, <2>2
    <3>3. <<s>>[1] = s /\ Last(<<s>>) = s
      BY <1>2, SingleRun
    <3> QED
      BY <3>1, <3>2, <3>3
  <2>4. a.p > 0 <=> a.packets # <<>>
    BY <1>1, <2>2
  <2>5. PacketsOK(g, a.packets) /\ (a.packets # <<>> => Follows(g, EndOf(a.packets), s))
    BY <2>2, <2>4, NoPackets DEF Writable
  <2>6. a.p = 0 <=> a.packets = <<>>
    BY <1>1, <2>2
  <2>7. /\ PacketsOK(g, Append(a.packets, Inline(b))) /\ EndOf(Append(a.packets, Inline(b))) = s
        /\ StartOf(Append(a.packets, Inline(b))) = IF a.packets = <<>> THEN s ELSE StartOf(a.packets)
    BY <2>3, <2>5, PacketsAppend
  <2>8. /\ PacketsOK(g, Made(b)) /\ EndOf(Made(b)) = s
        /\ StartOf(Made(b)) = IF a.p = 0 THEN s ELSE StartOf(Made(a))
    BY <1>7, <2>2, <2>6, <2>7
  <2>9. b.first = a.first
    BY <1>3
  <2> QED
    BY <1>6, <2>8, <2>9 DEF Written, b
<1>9. CASE a.open # <<>>
  <2>1. a.p # a.ct /\ a.p > 0 /\ Made(a) = Append(a.packets, Inline(a)) /\ Inline(a) \in PacketType
    BY <1>1, <1>9, MadeIs DEF Writable
  <2>2. PacketsOK(g, Made(a)) /\ Follows(g, EndOf(Made(a)), s)
    BY <2>1 DEF Writable
  <2>3. /\ PacketsOK(g, a.packets) /\ PacketOK(g, Inline(a))
        /\ a.packets # <<>> => Follows(g, EndOf(a.packets), Inline(a).data[1])
    BY <1>1, <2>1, <2>2, PacketsFront
  <2>4. Inline(a) = [inLine |-> TRUE, number |-> a.p - a.ct, data |-> a.open] /\ Inline(a).data = a.open
    BY DEF Inline
  <2>5. /\ EndOf(Made(a)) = Last(a.open)
        /\ StartOf(Made(a)) = IF a.packets = <<>> THEN a.open[1] ELSE StartOf(a.packets)
    BY <2>1, <2>3, <2>4, PacketsAppend
  <2>6. (a.p - a.ct) + s.size = a.p + s.size - a.ct
    BY <1>1, <1>2
  <2>7. /\ PacketOK(g, Inline(b)) /\ Inline(b).data = Append(a.open, s)
        /\ Append(a.open, s)[1] = a.open[1] /\ Last(Append(a.open, s)) = s
    <3>1. /\ PacketOK(g, [inLine |-> TRUE, number |-> (a.p - a.ct) + s.size, data |-> Append(a.open, s)])
          /\ Append(a.open, s)[1] = a.open[1] /\ Last(Append(a.open, s)) = s
      BY <1>2, <2>2, <2>3, <2>4, <2>5, PacketLonger
    <3>2. Inline(b) = [inLine |-> TRUE, number |-> (a.p - a.ct) + s.size, data |-> Append(a.open, s)]
      BY <1>7, <2>6
    <3>3. Inline(b).data = Append(a.open, s)
      BY <1>7
    <3> QED
      BY <3>1, <3>2, <3>3
  <2>8. /\ PacketsOK(g, Made(b)) /\ EndOf(Made(b)) = s
        /\ StartOf(Made(b)) = IF a.packets = <<>> THEN a.open[1] ELSE StartOf(a.packets)
    <3>1. a.packets # <<>> => Follows(g, EndOf(a.packets), Inline(b).data[1])
      BY <2>3, <2>4, <2>7
    <3> DEFINE ps == a.packets
               pk == Inline(b)
    <3>3. PacketsOK(g, ps) /\ PacketOK(g, pk) /\ (ps # <<>> => Follows(g, EndOf(ps), pk.data[1]))
      BY <2>3, <2>7, <3>1
    <3> HIDE DEF ps, pk
    <3>4. /\ PacketsOK(g, Append(ps, pk)) /\ EndOf(Append(ps, pk)) = Last(pk.data)
          /\ StartOf(Append(ps, pk)) = IF ps = <<>> THEN pk.data[1] ELSE StartOf(ps)
      BY <3>3, PacketsAppend
    <3>2. /\ PacketsOK(g, Append(a.packets, Inline(b)))
          /\ EndOf(Append(a.packets, Inline(b))) = Last(Inline(b).data)
          /\ StartOf(Append(a.packets, Inline(b))) = IF a.packets = <<>> THEN Inline(b).data[1] ELSE StartOf(a.packets)
      BY <3>4 DEF ps, pk
    <3> QED
      BY <1>7, <2>7, <3>2
  <2>9. b.first = a.first /\ a.p # 0
    BY <1>1, <1>3, <2>1
  <2> QED
    BY <1>6, <2>5, <2>8, <2>9 DEF Written, b
<1> QED
  BY <1>8, <1>9 DEF b

\* ... out of line it closes the open packet, or writes over it when it is empty.
LEMMA PutOutOfLineWrites ==
  ASSUME NEW g, NEW m, Shaped(g, m), NEW a, NEW s, Writable(g, a, s), a.n >= OobSize, s.size > Threshold
  PROVE  Written(g, a, s, PutOutOfLine(a, s))
<1> DEFINE b == PutOutOfLine(a, s)
<1>1. /\ a \in StreamType /\ a.p \in Nat /\ a.n \in Nat /\ a.ct \in Nat
      /\ a.open \in Seq(Structure) /\ a.packets \in Seq(PacketType) /\ a.first \in BOOLEAN
      /\ a.p <= BufferSize /\ a.n = BufferSize - a.p /\ a.ct <= a.p
      /\ (a.open = <<>> <=> a.p = a.ct) /\ (a.packets = <<>> <=> a.ct = 0)
  BY DEF Writable, BufferOK, StreamType
<1>2. IsPart(g, s) /\ s \in Structure /\ s.size \in Nat \ {0} /\ BufferSize \in Nat
      /\ TypeSize \in Nat \ {0} /\ PtrSize \in Nat \ {0} /\ OobSize = 2 * TypeSize + PtrSize
  BY PartIs, SizesPositive DEF Writable
<1> DEFINE p == IF a.p = a.ct THEN a.p - TypeSize + OobSize ELSE a.p + OobSize
<1>3. /\ b.p = p /\ b.n = BufferSize - p /\ b.ct = p /\ b.open = <<>>
      /\ b.packets = Append(Made(a), OutOfLine(s)) /\ b.first = a.first
  <2>1. CASE a.p = a.ct
    BY SMTT(30), <1>1, <1>2, <2>1 DEF PutOutOfLine, Made, StreamType
  <2>2. CASE a.p # a.ct
    BY SMTT(30), <1>1, <1>2, <2>2 DEF PutOutOfLine, Made, StreamType
  <2> QED
    BY <2>1, <2>2
<1>4. p \in Nat \ {0} /\ p <= BufferSize
  <2> DEFINE x == a.p
  <2>1. /\ x \in Nat /\ OobSize \in Nat /\ TypeSize \in Nat /\ BufferSize \in Nat /\ OobSize > TypeSize
        /\ BufferSize - x >= OobSize
    BY SMTT(30), <1>1, <1>2
  <2>2. p = IF x = a.ct THEN x - TypeSize + OobSize ELSE x + OobSize
    OBVIOUS
  <2> HIDE DEF x, p
  <2>3. CASE x = a.ct
    BY <2>1, <2>2, <2>3
  <2>4. CASE x # a.ct
    BY <2>1, <2>2, <2>4
  <2> QED
    BY <2>3, <2>4
<1>5. PacketOK(g, OutOfLine(s)) /\ OutOfLine(s).data = <<s>> /\ <<s>>[1] = s /\ Last(<<s>>) = s
  BY <1>2, PacketSingle, SingleRun DEF OutOfLine
<1>6. Made(a) \in Seq(PacketType) /\ (a.p > 0 => Made(a) # <<>>) /\ (a.p = 0 => Made(a) = <<>>)
  BY MadeIs DEF Writable, Made
<1>7. PacketsOK(g, Made(a)) /\ (Made(a) # <<>> => Follows(g, EndOf(Made(a)), s))
  BY <1>1, <1>6, NoPackets DEF Writable
<1>8. /\ PacketsOK(g, b.packets) /\ b.packets \in Seq(PacketType) /\ EndOf(b.packets) = s /\ b.packets # <<>>
      /\ StartOf(b.packets) = IF Made(a) = <<>> THEN s ELSE StartOf(Made(a))
  BY <1>3, <1>5, <1>7, PacketsAppend
<1>9. b \in StreamType
  <2> DEFINE x == IF a.p = a.ct THEN [a EXCEPT !.p = a.p - TypeSize, !.n = a.n + TypeSize]
                  ELSE [a EXCEPT !.packets = Append(a.packets, Inline(a))]
             o == x.p + OobSize
             y == x.n - OobSize
             ps == Append(x.packets, OutOfLine(s))
  <2>1. x \in StreamType /\ x.p \in Int /\ x.n \in Int /\ x.packets \in Seq(PacketType)
    <3>1. CASE a.p = a.ct
      <4> DEFINE i == a.p - TypeSize
                 j == a.n + TypeSize
      <4>1. x = [a EXCEPT !.p = i, !.n = j] /\ i \in Int /\ j \in Int
        BY SMTT(30), <1>1, <1>2, <3>1
      <4> HIDE DEF i, j, x
      <4>2. x \in StreamType
        BY <1>1, <4>1, ThreeFields
      <4> QED
        BY <4>2 DEF StreamType
    <3>2. CASE a.p # a.ct
      <4>1. Inline(a) \in PacketType
        BY <3>2, MadeIs DEF Writable
      <4>2. Append(a.packets, Inline(a)) \in Seq(PacketType)
        BY <1>1, <4>1, AppendIs
      <4>3. x = [a EXCEPT !.packets = Append(a.packets, Inline(a))]
        BY <3>2
      <4> HIDE DEF x
      <4>4. x \in StreamType
        BY <1>1, <4>2, <4>3 DEF StreamType
      <4> QED
        BY <4>4 DEF StreamType
    <3> QED
      BY <3>1, <3>2
  <2>2. b = [x EXCEPT !.p = o, !.n = y, !.ct = o, !.open = <<>>, !.packets = ps]
    <3>1. x = IF a.p = a.ct THEN [a EXCEPT !.p = @ - TypeSize, !.n = @ + TypeSize]
              ELSE [a EXCEPT !.packets = Append(@, Inline(a))]
      BY <1>1 DEF StreamType
    <3> HIDE DEF x
    <3>2. b = [x EXCEPT !.p = @ + OobSize, !.n = @ - OobSize, !.ct = x.p + OobSize,
                        !.open = <<>>, !.packets = Append(@, OutOfLine(s))]
      BY <3>1 DEF PutOutOfLine
    <3> QED
      BY <2>1, <3>2 DEF StreamType
  <2>3. o \in Int /\ y \in Int /\ <<>> \in Seq(Structure) /\ ps \in Seq(PacketType)
    <3>1. OutOfLine(s) \in PacketType
      BY <1>5, PacketIs
    <3> HIDE DEF x
    <3> QED
      BY <1>2, <2>1, <3>1, AppendIs, EmptySeq
  <2> HIDE DEF x, o, y, ps, b
  <2>4. [x EXCEPT !.p = o, !.n = y, !.ct = o, !.open = <<>>, !.packets = ps] \in StreamType
    BY <2>1, <2>3, FiveFields
  <2> QED
    BY <2>2, <2>4
<1> HIDE DEF b, p
<1>10. BufferOK(b) /\ b.p > 0 /\ Made(b) = b.packets
  BY <1>2, <1>3, <1>4, <1>8, <1>9 DEF BufferOK, Made
<1>11. Written(g, a, s, b)
  BY <1>1, <1>3, <1>6, <1>8, <1>10 DEF Written
<1> QED
  BY <1>11 DEF b

\* The stream is empty after as_newWrite and after as_flushmsg.
LEMMA FreshOK ==
  /\ BufferOK(Fresh) /\ Fresh.p = 0 /\ Fresh.first = TRUE
  /\ BufferOK([Fresh EXCEPT !.first = FALSE]) /\ [Fresh EXCEPT !.first = FALSE].p = 0
  /\ [Fresh EXCEPT !.first = FALSE].n = BufferSize /\ [Fresh EXCEPT !.first = FALSE].first = FALSE
<1> DEFINE c == [Fresh EXCEPT !.first = FALSE]
<1>1. /\ Fresh.p = 0 /\ Fresh.n = BufferSize /\ Fresh.ct = 0 /\ Fresh.open = <<>> /\ Fresh.packets = <<>>
      /\ Fresh.first = TRUE /\ BufferSize \in Nat
  BY SizesPositive DEF Fresh
<1>2. Fresh \in StreamType
  <2>1. <<>> \in Seq(Structure) /\ <<>> \in Seq(PacketType) /\ BufferSize \in Int
    BY <1>1, EmptySeq
  <2> QED
    BY <2>1 DEF Fresh, StreamType
<1>3. c \in StreamType
  BY <1>2 DEF StreamType
<1>4. /\ c.p = 0 /\ c.n = BufferSize /\ c.ct = 0 /\ c.open = <<>> /\ c.packets = <<>> /\ c.first = FALSE
  BY <1>1 DEF Fresh
<1> HIDE DEF c
<1>5. BufferOK(Fresh)
  BY <1>1, <1>2 DEF BufferOK
<1>6. BufferOK(c)
  BY <1>1, <1>3, <1>4 DEF BufferOK
<1> QED
  BY <1>1, <1>4, <1>5, <1>6 DEF c

\* The numbers of an argument and a structure say where the client is.
LEMMA StartIs == Start # Done /\ Start.group = 1 /\ Start.item = 1 /\ Done.group = 0
BY DEF Start, Done

\* A message as as_flushmsg leaves it.
LEMMA PreparedIs ==
  ASSUME NEW v, NEW q, NEW a, NEW t, Client(v, q, a, t), a.p # 0
  PROVE  /\ Sending(q, a) = Append(q, Prepared(a)) /\ Stream(v, q) /\ MessageOK(v, Prepared(a))
         /\ q # <<>> => Linked(v, Last(q), Prepared(a))
         /\ Sending(q, a) # <<>> /\ Last(Sending(q, a)) = Prepared(a)
         /\ Sending(q, a)[1] = IF q = <<>> THEN Prepared(a) ELSE q[1]
         /\ MarkAt(Prepared(a)) = Len(v) /\ PacketsOK(v[Len(v)], Made(a))
         /\ t \notin {Done, Start} /\ LeadsTo(v[Len(v)], EndOf(Made(a)), t.group, t.item)
         /\ a.p > 0
<1>1. /\ q \in Seq(Message) /\ BufferOK(a) /\ Stream(v, Sending(q, a))
      /\ (a.p > 0 => MarkAt(Prepared(a)) = Len(v)) /\ (t \in {Done, Start} => a = Fresh)
      /\ (Sending(q, a) # <<>> => Ahead(v, Last(Sending(q, a)), t))
  BY DEF Client
<1>2. Sending(q, a) = Append(q, Prepared(a)) /\ a.p > 0
  BY <1>1 DEF Sending, BufferOK
<1>3. Prepared(a) \in Message /\ Prepared(a).packets = Made(a)
  BY <1>1, MadeIs
<1>4. /\ Stream(v, q) /\ MessageOK(v, Prepared(a)) /\ (q # <<>> => Linked(v, Last(q), Prepared(a)))
      /\ Sending(q, a) # <<>> /\ Last(Sending(q, a)) = Prepared(a)
      /\ Sending(q, a)[1] = IF q = <<>> THEN Prepared(a) ELSE q[1]
  BY <1>1, <1>2, <1>3, StreamFront
<1>5. MarkAt(Prepared(a)) = Len(v) /\ PacketsOK(v[Len(v)], Made(a))
  BY <1>1, <1>2, <1>3, <1>4 DEF MessageOK
<1>6. t \notin {Done, Start}
  BY <1>1, <1>2, FreshOK
<1>7. LeadsTo(v[Len(v)], EndOf(Made(a)), t.group, t.item)
  BY <1>1, <1>3, <1>4, <1>5, <1>6 DEF Ahead
<1> QED
  BY <1>2, <1>4, <1>5, <1>6, <1>7

\* as_flushmsg sends what was under way already.
LEMMA FlushCarries ==
  ASSUME NEW v, NEW q, NEW a, NEW t, Client(v, q, a, t), a.p # 0
  PROVE  /\ Carries(v, q, a, t, v, Sending(q, a), FlushedStream(a), t)
         /\ FlushedStream(a).n = BufferSize
<1> DEFINE b == FlushedStream(a)
           S == Sending(q, a)
<1>1. b = [Fresh EXCEPT !.first = FALSE]
  BY DEF FlushedStream
<1>2. BufferOK(b) /\ b.p = 0 /\ b.n = BufferSize /\ b.first = FALSE
  BY <1>1, FreshOK
<1>3. Sending(S, b) = S
  BY <1>2 DEF Sending
<1>4. t \notin {Done, Start}
  BY PreparedIs
<1>5. /\ MarksShaped(v) /\ WriteAt(v, t) /\ Stream(v, S) /\ (S # <<>> => Ahead(v, Last(S), t))
  BY DEF Client
<1>6. S \in Seq(Message)
  BY <1>5 DEF Stream
<1> HIDE DEF b, S
<1>7. Client(v, S, b, t)
  BY <1>2, <1>3, <1>4, <1>5, <1>6 DEF Client
<1>8. \A l : Precedes(v, l, q, a, t) => Precedes(v, l, S, b, t)
  BY <1>3 DEF Precedes, S
<1>9. \A c : Expects(v, c, q, a, t) => Expects(v, c, S, b, t)
  BY <1>3 DEF Expects, S
<1>10. Carries(v, q, a, t, v, S, b, t)
  BY <1>7, <1>8, <1>9 DEF Carries
<1> QED
  BY <1>2, <1>10 DEF b, S

\* The mark is complete.
LEMMA FinishCarries ==
  ASSUME NEW v, NEW q, NEW a, NEW t, Client(v, q, a, t), t # Done, t.group > Len(v[Len(v)])
  PROVE  Carries(v, q, a, t, v, Sending(q, a), Fresh, Done)
<1> DEFINE S == Sending(q, a)
<1>1. /\ MarksShaped(v) /\ WriteAt(v, t) /\ Stream(v, S) /\ (S # <<>> => Ahead(v, Last(S), t))
  BY DEF Client
<1>2. S \in Seq(Message)
  BY <1>1 DEF Stream
<1>3. Sending(S, Fresh) = S
  BY FreshOK DEF Sending
<1>4. t # Start
  <2>1. Len(v) \in 1..Len(v)
    BY <1>1, LenProperties DEF WriteAt, MarksShaped
  <2>2. Len(v[Len(v)]) \in Nat /\ Len(v[Len(v)]) >= 1
    BY <1>1, <2>1 DEF MarksShaped, Shaped
  <2> QED
    BY <2>2, StartIs
<1>5. Before(v, t) = Before(v, Done)
  BY <1>4, StartIs DEF Before
<1>6. \A l : Ahead(v, l, t) => Ahead(v, l, Done)
  BY <1>5 DEF Ahead
<1>7. WriteAt(v, Done)
  BY SizesPositive DEF WriteAt, Done
<1> HIDE DEF S
<1>8. Client(v, S, Fresh, Done)
  BY <1>1, <1>2, <1>3, <1>6, <1>7, FreshOK DEF Client
<1>9. \A l : Precedes(v, l, q, a, t) => Precedes(v, l, S, Fresh, Done)
  BY <1>3, <1>6 DEF Precedes, S
<1>10. \A c : Expects(v, c, q, a, t) => Expects(v, c, S, Fresh, Done)
  BY <1>3, <1>5 DEF Expects, S
<1>11. Carries(v, q, a, t, v, S, Fresh, Done)
  BY <1>8, <1>9, <1>10 DEF Carries
<1> QED
  BY <1>11 DEF S

\* RBMMark begins a mark.
LEMMA MakeCarries ==
  ASSUME NEW v, NEW q, NEW a, Client(v, q, a, Done), Len(v) < MaxMarks,
         NEW g \in Marks, Shaped(g, Len(v) + 1)
  PROVE  Carries(v, q, a, Done, Append(v, g), q, Fresh, Start)
<1> DEFINE w == Append(v, g)
<1>1. /\ MarksShaped(v) /\ q \in Seq(Message) /\ BufferOK(a) /\ WriteAt(v, Done)
      /\ Stream(v, Sending(q, a)) /\ a = Fresh
      /\ (Sending(q, a) # <<>> => Ahead(v, Last(Sending(q, a)), Done))
  BY DEF Client
<1>2. Sending(q, a) = q /\ Sending(q, Fresh) = q
  BY <1>1, FreshOK DEF Sending
<1>3. /\ v \in Seq(Marks) /\ Len(v) \in Nat
  BY <1>1, LenProperties DEF MarksShaped
<1>4. /\ w \in Seq(Marks) /\ Len(w) = Len(v) + 1 /\ w[Len(v) + 1] = g
      /\ \A m \in 1..Len(v) : w[m] = v[m]
  BY <1>3, AppendIs
<1> HIDE DEF w
<1>5. MarksShaped(w)
  <2>1. Len(w) <= MaxMarks
    BY <1>3, <1>4, SizesPositive
  <2>2. \A m \in 1..Len(w) : Shaped(w[m], m)
    <3>1. \A m \in 1..Len(w) : m \in 1..Len(v) \/ m = Len(v) + 1
      BY <1>3, <1>4
    <3>2. \A m \in 1..Len(v) : Shaped(v[m], m)
      BY <1>1 DEF MarksShaped
    <3> QED
      BY <1>4, <3>1, <3>2
  <2> QED
    BY <1>4, <2>1, <2>2 DEF MarksShaped
<1>6. Stream(w, q)
  <2>1. Len(w) \in Nat /\ Len(v) <= Len(w)
    BY <1>3, <1>4
  <2> QED
    BY <1>1, <1>2, <1>3, <1>4, <2>1, StreamKept
<1>7. Before(w, Start) = Len(v) /\ Before(v, Done) = Len(v)
  BY <1>3, <1>4, StartIs DEF Before
<1>8. \A l : Ahead(v, l, Done) => Ahead(w, l, Start)
  BY <1>7 DEF Ahead
<1>9. WriteAt(w, Start)
  <2>1. Len(w) \in 1..Len(w) /\ Len(w) > 0
    BY <1>3, <1>4
  <2>2. Shaped(w[Len(w)], Len(w))
    BY <1>5, <2>1 DEF MarksShaped
  <2>3. Len(w[Len(w)]) \in Nat /\ Len(w[Len(w)]) >= 1
    BY <2>2 DEF Shaped
  <2>4. 1 \in 1..Len(w[Len(w)])
    BY <2>3
  <2>5. 1 \in 1..Len(w[Len(w)][1])
    <3>1. Len(w[Len(w)][1]) \in Nat \ {0}
      BY <2>2, <2>4, GroupIs
    <3> QED
      BY <3>1
  <2>6. Start \in [group : 0..MaxArgs+2, item : Nat]
    BY SizesPositive DEF Start
  <2>7. Start.group \in 1..Len(w[Len(w)]) + 1 /\ Start.item \in 1..Len(w[Len(w)][Start.group])
        /\ ~(Start.group > Len(w[Len(w)]))
    BY <2>3, <2>5, StartIs
  <2> QED
    BY <2>1, <2>6, <2>7 DEF WriteAt
<1>10. Client(w, q, Fresh, Start)
  BY <1>1, <1>2, <1>5, <1>6, <1>8, <1>9, FreshOK DEF Client
<1>11. \A l : MessageOK(v, l) /\ Precedes(v, l, q, a, Done) => Precedes(w, l, q, Fresh, Start)
  <2> SUFFICES ASSUME NEW l, MessageOK(v, l), Precedes(v, l, q, a, Done)
               PROVE  Precedes(w, l, q, Fresh, Start)
    OBVIOUS
  <2>1. w[MarkAt(l)] = v[MarkAt(l)]
    BY <1>4 DEF MessageOK
  <2>2. \A n : Linked(v, l, n) => Linked(w, l, n)
    BY <2>1 DEF Linked
  <2> QED
    BY <1>2, <1>8, <2>2 DEF Precedes
<1>12. \A c : Expects(v, c, q, a, Done) => Expects(w, c, q, Fresh, Start)
  BY <1>2, <1>7 DEF Expects
<1>13. Carries(v, q, a, Done, w, q, Fresh, Start)
  BY <1>10, <1>11, <1>12 DEF Carries
<1> QED
  BY <1>13 DEF w

\* Where the client is after the structure at t; as_write where there is room.
NextPlace(m, t) == IF t.item < Len(m[t.group]) THEN [t EXCEPT !.item = @ + 1]
                   ELSE [group |-> t.group + 1, item |-> 1]
Put(a, s) == IF s.size <= Threshold THEN PutInline(a, s) ELSE PutOutOfLine(a, s)

\* The structure at t is a part of the mark, and the next one is behind it.
LEMMA PlaceInMark ==
  ASSUME NEW v, MarksShaped(v), NEW t, WriteAt(v, t), t # Done, t.group <= Len(v[Len(v)])
  PROVE  /\ Shaped(v[Len(v)], Len(v)) /\ Len(v) \in Nat \ {0} /\ Len(v) \in 1..Len(v)
         /\ IsPart(v[Len(v)], v[Len(v)][t.group][t.item])
         /\ v[Len(v)][t.group][t.item].arg = t.group /\ v[Len(v)][t.group][t.item].item = t.item
         /\ LeadsTo(v[Len(v)], v[Len(v)][t.group][t.item], NextPlace(v[Len(v)], t).group, NextPlace(v[Len(v)], t).item)
         /\ WriteAt(v, NextPlace(v[Len(v)], t)) /\ NextPlace(v[Len(v)], t) \notin {Done, Start}
<1> DEFINE m == v[Len(v)]
           s == m[t.group][t.item]
           u == NextPlace(m, t)
<1>1. Len(v) \in Nat /\ Len(v) > 0
  BY LenProperties DEF MarksShaped, WriteAt
<1>2. Len(v) \in 1..Len(v)
  BY <1>1
<1>3. Shaped(m, Len(v))
  BY <1>2 DEF MarksShaped
<1>4. t.group \in 1..Len(m) + 1 /\ t.group <= Len(m) /\ t.item \in 1..Len(m[t.group])
  BY DEF WriteAt
<1>5. Len(m) \in Nat /\ Len(m) <= MaxArgs + 1 /\ MaxArgs \in Nat
  <2>1. Len(m) \in 1..MaxArgs + 1
    BY <1>3 DEF Shaped
  <2> QED
    BY <2>1, SizesPositive
<1>6. t.group \in 1..Len(m) /\ t.group \in Nat /\ t.group > 0
  BY <1>4, <1>5
<1>7. s = [mark |-> Len(v), arg |-> t.group, item |-> t.item, size |-> m[t.group][1].size] /\ Len(m[t.group]) \in Nat \ {0}
  BY SMTT(30), <1>3, <1>4, <1>6, GroupIs
<1>8. s.arg = t.group /\ s.item = t.item
  BY <1>7
<1>9. IsPart(m, s)
  BY <1>4, <1>6, <1>8 DEF IsPart
<1>10. t.item \in Nat /\ t.item > 0 /\ t \in [group : 0..MaxArgs+2, item : Nat]
  BY SMTT(30), <1>4, <1>7 DEF WriteAt
<1> HIDE DEF s
<1>11. CASE t.item < Len(m[t.group])
  <2>1. u = [t EXCEPT !.item = @ + 1]
    BY <1>11 DEF NextPlace
  <2>2. u.group = t.group /\ u.item = t.item + 1 /\ u \in [group : 0..MaxArgs+2, item : Nat]
    BY <1>10, <2>1
  <2> HIDE DEF u
  <2>3. LeadsTo(m, s, u.group, u.item)
    BY <1>8, <1>11, <2>2 DEF LeadsTo
  <2>4. u \notin {Done, Start}
    BY <1>6, <1>10, <2>2, StartIs
  <2>5. u.item \in 1..Len(m[u.group])
    BY SMTT(30), <1>7, <1>10, <1>11, <2>2
  <2>6. u.group \in 1..Len(m)+1 /\ u.group <= Len(m)
    BY <1>4, <2>2
  <2>7. WriteAt(v, u)
    BY <1>1, <1>5, <2>2, <2>5, <2>6 DEF WriteAt
  <2> QED
    BY <1>1, <1>2, <1>3, <1>8, <1>9, <2>3, <2>4, <2>7 DEF s, u
<1>12. CASE ~(t.item < Len(m[t.group]))
  <2>1. u = [group |-> t.group + 1, item |-> 1]
    BY <1>12 DEF NextPlace
  <2>2. u.group = t.group + 1 /\ u.item = 1
    BY <2>1
  <2>3. t.group + 1 \in 0..MaxArgs+2
    BY SMTT(30), <1>4, <1>5, <1>6
  <2>4. u \in [group : 0..MaxArgs+2, item : Nat]
    BY <2>1, <2>3
  <2> HIDE DEF u
  <2>5. LeadsTo(m, s, u.group, u.item)
    BY <1>8, <1>12, <2>2 DEF LeadsTo
  <2>6. u \notin {Done, Start}
    BY <1>6, <2>2, StartIs
  <2>7. u.group \in 1..Len(m) + 1
    BY SMTT(30), <1>4, <1>5, <1>6, <2>2
  <2>8. u.group <= Len(m) => u.item \in 1..Len(m[u.group])
    <3> SUFFICES ASSUME u.group <= Len(m) PROVE u.item \in 1..Len(m[u.group])
      OBVIOUS
    <3>1. u.group \in 1..Len(m)
      BY <2>7, <1>5
    <3>2. Len(m[u.group]) \in Nat \ {0}
      BY <1>3, <3>1, GroupIs
    <3> QED
      BY <2>2, <3>2
  <2>9. WriteAt(v, u)
    BY <1>1, <2>2, <2>4, <2>7, <2>8 DEF WriteAt
  <2> QED
    BY <1>1, <1>2, <1>3, <1>8, <1>9, <2>5, <2>6, <2>9 DEF s, u
<1> QED
  BY <1>11, <1>12

\* as_write of the next structure, where there is room for it.
LEMMA PutCarries ==
  ASSUME NEW v, NEW q, NEW a, NEW t, Client(v, q, a, t), t # Done, t.group <= Len(v[Len(v)]),
         NEW s, s = v[Len(v)][t.group][t.item], a.n >= IF s.size <= Threshold THEN s.size ELSE OobSize
  PROVE  Carries(v, q, a, t, v, q, Put(a, s), NextPlace(v[Len(v)], t))
<1> DEFINE m == v[Len(v)]
           b == Put(a, s)
           u == NextPlace(m, t)
           n == Prepared(b)
<1>1. /\ MarksShaped(v) /\ q \in Seq(Message) /\ BufferOK(a) /\ WriteAt(v, t)
      /\ Stream(v, Sending(q, a))
      /\ (t \in {Done, Start} => a = Fresh) /\ (t \notin {Done, Start} /\ a.p = 0 => ~a.first)
      /\ (Sending(q, a) # <<>> => Ahead(v, Last(Sending(q, a)), t))
  BY SMTT(30) DEF Client
<1>2. /\ Shaped(m, Len(v)) /\ Len(v) \in Nat \ {0} /\ Len(v) \in 1..Len(v)
      /\ IsPart(m, s) /\ s.arg = t.group /\ s.item = t.item
      /\ LeadsTo(m, s, u.group, u.item) /\ WriteAt(v, u) /\ u \notin {Done, Start}
  BY <1>1, PlaceInMark
<1> HIDE DEF u
<1>3. a.p > 0 <=> a.p # 0
  BY <1>1 DEF BufferOK
<1>4. Writable(m, a, s)
  <2>1. CASE a.p = 0
    BY SMTT(30), <1>1, <1>2, <1>3, <2>1 DEF Writable
  <2>2. CASE a.p # 0
    <3>1. PacketsOK(m, Made(a)) /\ LeadsTo(m, EndOf(Made(a)), t.group, t.item)
      BY SMTT(30), <2>2, PreparedIs
    <3>2. Follows(m, EndOf(Made(a)), s)
      BY <1>2, <3>1 DEF Follows
    <3> QED
      BY <1>1, <1>2, <3>1, <3>2 DEF Writable
  <2> QED
    BY SMTT(30), <2>1, <2>2
<1>5. Written(m, a, s, b)
  <2>1. s.size \in Nat
    BY <1>2, PartIs
  <2>2. Threshold \in Nat
    BY SMTT(30), SizesPositive
  <2>3. CASE s.size <= Threshold
    BY SMTT(30), <1>2, <1>4, <2>3, PutInlineWrites DEF Put
  <2>4. CASE ~(s.size <= Threshold)
    <3>1. s.size > Threshold
      BY SMTT(30), <2>1, <2>2, <2>4
    <3> QED
      BY <1>2, <1>4, <2>4, <3>1, PutOutOfLineWrites DEF Put
  <2> QED
    BY SMTT(30), <2>3, <2>4
<1> HIDE DEF b, m
<1>6. /\ BufferOK(b) /\ b.p > 0 /\ b.first = a.first /\ PacketsOK(m, Made(b)) /\ EndOf(Made(b)) = s
      /\ StartOf(Made(b)) = IF a.p = 0 THEN s ELSE StartOf(Made(a))
  BY <1>5 DEF Written
<1>7. n \in Message /\ n.packets = Made(b) /\ n.first = a.first /\ Made(b) # <<>> /\ b.p # 0
  BY <1>6, MadeIs DEF BufferOK
<1> HIDE DEF n
<1>8. MarkAt(n) = Len(v) /\ Len(Made(b)) > 0
  <2>1. IsPart(m, StartOf(Made(b))) /\ Len(Made(b)) > 0
    BY SMTT(30), <1>6, <1>7, PacketsParts
  <2>2. StartOf(Made(b)).mark = Len(v)
    BY <1>2, <2>1, PartIs
  <2> QED
    BY <1>7, <2>1, <2>2 DEF MarkAt
<1>9. a.p # 0 => /\ Prepared(a).first = n.first /\ MarkAt(Prepared(a)) = MarkAt(n)
                 /\ StartOf(Prepared(a).packets) = StartOf(n.packets)
                 /\ MessageOK(v, Prepared(a))
  <2> SUFFICES ASSUME a.p # 0
               PROVE  /\ Prepared(a).first = n.first /\ MarkAt(Prepared(a)) = MarkAt(n)
                      /\ StartOf(Prepared(a).packets) = StartOf(n.packets)
                      /\ MessageOK(v, Prepared(a))
    OBVIOUS
  <2>1. Prepared(a).first = a.first /\ Prepared(a).packets = Made(a)
    BY <1>1, MadeIs
  <2>2. MarkAt(Prepared(a)) = Len(v) /\ MessageOK(v, Prepared(a))
    BY PreparedIs
  <2> QED
    BY <1>6, <1>7, <1>8, <2>1, <2>2
<1>10. a.p = 0 => StartOf(n.packets) = s /\ Sending(q, a) = q
  BY <1>6, <1>7 DEF Sending
<1>11. a.p = 0 => (n.first <=> t = Start)
  BY SMTT(30), <1>1, <1>7, FreshOK
<1>12. MessageOK(v, n)
  <2>1. n.first => StartOf(n.packets).arg = 1 /\ StartOf(n.packets).item = 1
    <3>1. CASE a.p = 0
      BY <1>2, <1>10, <1>11, <3>1, StartIs
    <3>2. CASE a.p # 0
      BY <1>9, <3>2 DEF MessageOK
    <3> QED
      BY SMTT(30), <3>1, <3>2
  <2> QED
    BY <1>2, <1>6, <1>7, <1>8, <2>1 DEF MessageOK, m
<1>13. ASSUME NEW l, a.p = 0, Ahead(v, l, t) PROVE Linked(v, l, n)
  <2>1. CASE t = Start
    <3>1. MarkAt(l) = Len(v) - 1
      BY SMTT(30), <1>13, <2>1 DEF Ahead, Before
    <3>2. n.first /\ MarkAt(n) = MarkAt(l) + 1
      BY <1>2, <1>8, <1>11, <1>13, <2>1, <3>1
    <3> QED
      BY <3>2 DEF Linked
  <2>2. CASE t # Start
    <3>1. MarkAt(l) = Len(v) /\ LeadsTo(v[MarkAt(l)], EndOf(l.packets), t.group, t.item)
      BY SMTT(30), <1>13, <2>2 DEF Ahead, Before
    <3>2. Follows(v[MarkAt(l)], EndOf(l.packets), StartOf(n.packets))
      BY <1>2, <1>10, <1>13, <3>1 DEF Follows
    <3> QED
      BY <1>8, <1>11, <1>13, <2>2, <3>1, <3>2 DEF Linked
  <2> QED
    BY <2>1, <2>2
<1>14. ASSUME NEW l, a.p # 0, Linked(v, l, Prepared(a)) PROVE Linked(v, l, n)
  BY <1>9, <1>14 DEF Linked
<1>15. Stream(v, q) /\ (q # <<>> => Linked(v, Last(q), n))
  <2>1. CASE a.p = 0
    BY <1>1, <1>10, <1>13, <2>1
  <2>2. CASE a.p # 0
    BY <1>14, <2>2, PreparedIs
  <2> QED
    BY <2>1, <2>2
<1>16. Sending(q, b) = Append(q, n)
  BY <1>7 DEF Sending, n
<1>17. /\ Stream(v, Sending(q, b)) /\ Sending(q, b) # <<>> /\ Last(Sending(q, b)) = n
       /\ Sending(q, b)[1] = IF q = <<>> THEN n ELSE q[1]
  BY SMTT(30), <1>12, <1>15, <1>16, StreamAppend
<1>18. Ahead(v, n, u)
  <2>1. Before(v, u) = Len(v)
    BY SMTT(30), <1>2 DEF Before
  <2> QED
    BY SMTT(30), <1>2, <1>6, <1>7, <1>8, <2>1 DEF Ahead, m
<1>19. Client(v, q, b, u)
  BY <1>1, <1>2, <1>6, <1>7, <1>8, <1>17, <1>18 DEF Client, n
<1>20. ASSUME NEW l, Precedes(v, l, q, a, t) PROVE Precedes(v, l, q, b, u)
  <2>1. Linked(v, l, Sending(q, b)[1])
    <3>1. CASE a.p = 0 /\ q = <<>>
      BY <1>10, <1>13, <1>17, <1>20, <3>1 DEF Precedes
    <3>2. CASE a.p = 0 /\ q # <<>>
      BY <1>10, <1>17, <1>20, <3>2 DEF Precedes
    <3>3. CASE a.p # 0
      <4>1. Sending(q, a) # <<>> /\ Sending(q, a)[1] = IF q = <<>> THEN Prepared(a) ELSE q[1]
        BY <3>3, PreparedIs
      <4> QED
        BY <1>14, <1>17, <1>20, <3>3, <4>1 DEF Precedes
    <3> QED
      BY <3>1, <3>2, <3>3
  <2> QED
    BY <1>17, <2>1 DEF Precedes
<1>21. ASSUME NEW c, Expects(v, c, q, a, t) PROVE Expects(v, c, q, b, u)
  <2>1. CASE a.p = 0 /\ q = <<>>
    <3>1. c = Before(v, t)
      BY SMTT(30), <1>10, <1>21, <2>1 DEF Expects
    <3>2. Len(v) = IF n.first THEN c + 1 ELSE c
      BY <1>2, <1>11, <2>1, <3>1 DEF Before
    <3> QED
      BY <1>8, <1>17, <2>1, <3>2 DEF Expects
  <2>2. CASE a.p = 0 /\ q # <<>>
    BY <1>10, <1>17, <1>21, <2>2 DEF Expects
  <2>3. CASE a.p # 0
    <3>1. Sending(q, a) # <<>> /\ Sending(q, a)[1] = IF q = <<>> THEN Prepared(a) ELSE q[1]
      BY <2>3, PreparedIs
    <3> QED
      BY <1>9, <1>17, <1>21, <2>3, <3>1 DEF Expects
  <2> QED
    BY <2>1, <2>2, <2>3
<1>22. Carries(v, q, a, t, v, q, b, u)
  BY <1>19, <1>20, <1>21 DEF Carries
<1> QED
  BY <1>22 DEF b, u, m

\* What the client sends comes behind what is in the port.
LEMMA SendingIs ==
  ASSUME NEW q \in Seq(Message), NEW a, BufferOK(a), q # <<>>
  PROVE  Sending(q, a) # <<>> /\ Head(Sending(q, a)) = Head(q)
<1>1. CASE a.p = 0
  BY <1>1 DEF Sending
<1>2. CASE a.p # 0
  <2> DEFINE msg == Prepared(a)
  <2>1. msg \in Message
    BY MadeIs
  <2>2. Sending(q, a) = Append(q, msg)
    BY <1>2 DEF Sending
  <2> HIDE DEF msg
  <2>3. /\ Append(q, msg) \in Seq(Message) /\ Append(q, msg) # <<>>
        /\ Append(q, msg)[1] = q[1]
    <3>1. Len(q) \in Nat /\ Len(q) > 0
      BY LenProperties, EmptySeq
    <3> QED
      BY <2>1, <3>1, AppendIs
  <2>4. Head(q) = q[1] /\ Head(Append(q, msg)) = Append(q, msg)[1]
    BY <2>3, HeadTailProperties
  <2> QED
    BY <2>2, <2>3, <2>4
<1> QED
  BY <1>1, <1>2

\* What the client does leaves the server what it relies on.
LEMMA ClientStep ==
  ASSUME StreamIInv, Carries(marks, port, as, at, marks', port', as', at'),
         port # <<>> => port' # <<>> /\ Head(port') = Head(port),
         Len(marks') \in Nat, Len(marks) <= Len(marks'), \A m \in 1..Len(marks) : marks'[m] = marks[m],
         UNCHANGED <<server, rd, got, outcome, held, skipped>>
  PROVE  StreamIInv'
<1>1. /\ server \in {"idle", "reading", "astray"} /\ MarksShaped(marks)
      /\ ReadingSound /\ IdleSound /\ AstraySound /\ Settled
  BY DEF StreamIInv, Client
<1>2. /\ Client(marks', port', as', at')
      /\ \A l : MessageOK(marks, l) /\ Precedes(marks, l, port, as, at) => Precedes(marks', l, port', as', at')
      /\ \A c : Expects(marks, c, port, as, at) => Expects(marks', c, port', as', at')
  BY DEF Carries
<1>3. Len(marks) \in Nat
  BY <1>1, LenProperties DEF MarksShaped
<1>4. ASSUME NEW l, MessageOK(marks, l) PROVE MessageOK(marks', l)
  BY <1>3, <1>4, MessageKept
<1>5. ReadingSound'
  <2> SUFFICES ASSUME server = "reading"
               PROVE  /\ Reader(marks', rd, got, Len(outcome) + 1)
                      /\ Precedes(marks', Last(rd.msgs), port', as', at')
                      /\ held = skipped \cup Received
    BY SMTT(30) DEF ReadingSound, Received, Blocks
  <2> DEFINE c == Len(outcome) + 1
  <2>1. /\ Reader(marks, rd, got, c) /\ Precedes(marks, Last(rd.msgs), port, as, at)
        /\ held = skipped \cup Received
    BY <1>1 DEF ReadingSound
  <2> HIDE DEF c
  <2>2. /\ rd \in ReadArgStream
        /\ Len(rd.msgs) > 0 /\ c \in 1..Len(marks)
        /\ \A i \in 1..Len(rd.msgs) : MessageOK(marks, rd.msgs[i]) /\ MarkAt(rd.msgs[i]) = c
        /\ rd.ct \in 1..Len(Packets(rd))
        /\ ReadAt(marks[c], Packet(rd), rd.item, rd.n, got)
    BY <2>1 DEF Reader
  <2>3. marks'[c] = marks[c] /\ c \in 1..Len(marks')
    BY <1>3, <2>2
  <2>4. \A i \in 1..Len(rd.msgs) : MessageOK(marks', rd.msgs[i]) /\ MarkAt(rd.msgs[i]) = c
    BY <1>4, <2>2
  <2>5. Reader(marks', rd, got, c)
    BY <2>2, <2>3, <2>4 DEF Reader
  <2>6. Last(rd.msgs) = rd.msgs[Len(rd.msgs)] /\ Len(rd.msgs) \in 1..Len(rd.msgs)
    <3>1. rd.msgs \in Seq(Message)
      BY <2>2 DEF ReadArgStream
    <3>2. Len(rd.msgs) \in Nat
      BY <3>1, LenProperties
    <3> QED
      BY <2>2, <3>2 DEF Last
  <2>7. Precedes(marks', Last(rd.msgs), port', as', at')
    BY <1>2, <2>1, <2>2, <2>6
  <2> QED
    BY <2>1, <2>5, <2>7 DEF c
<1>6. IdleSound'
  BY <1>1, <1>2 DEF IdleSound
<1>7. AstraySound'
  <2> SUFFICES ASSUME server = "astray"
               PROVE  AstraySound'
    BY SMTT(30) DEF AstraySound
  <2> DEFINE c == rd.msgs[1].packets[1].data[1].mark
  <2>1. /\ rd \in ReadArgStream /\ got \in Seq(Seq(Structure))
        /\ c \in 1..Len(marks) /\ held \subseteq Structure
        /\ TooLarge \/ \E k \in 1..Len(Mark) : Array(Mark[k]) \/ Block(Mark[k])
    BY <1>1 DEF AstraySound
  <2>2. Mark = marks[c] /\ Mark' = marks'[c]
    BY DEF Mark
  <2> HIDE DEF c
  <2>3. Mark' = Mark /\ c \in 1..Len(marks')
    BY SMTT(30), <1>3, <2>1, <2>2
  <2>4. TooLarge => TooLarge'
    BY Zenon DEF TooLarge
  <2>5. TooLarge' \/ \E k \in 1..Len(Mark') : Array(Mark'[k]) \/ Block(Mark'[k])
    BY <2>1, <2>3, <2>4
  <2> QED
    BY SMTT(30), <2>1, <2>3, <2>5 DEF AstraySound, c, Array, Block
<1>8. Settled'
  <2>1. /\ outcome \in Seq(Marks \cup {Dropped}) /\ Len(outcome) <= Len(marks)
        /\ \A i \in 1..Len(outcome) :
             outcome[i] = Dropped => \E k \in 1..Len(marks[i]) : Array(marks[i][k])
        /\ skipped \subseteq Structure /\ \A s \in skipped : s.mark <= Len(outcome)
    BY <1>1 DEF Settled
  <2>2. Len(outcome) \in Nat
    BY <2>1, LenProperties
  <2>3. Len(outcome) <= Len(marks')
    BY <1>3, <2>1, <2>2
  <2>4. \A i \in 1..Len(outcome) : marks'[i] = marks[i]
    BY <1>3, <2>1, <2>2
  <2>5. \A i \in 1..Len(outcome) :
          outcome[i] = Dropped => \E k \in 1..Len(marks'[i]) : Array(marks'[i][k])
    BY <2>1, <2>4
  <2> QED
    BY <2>1, <2>3, <2>5 DEF Settled, Array
<1> QED
  BY <1>1, <1>2, <1>5, <1>6, <1>7, <1>8 DEF StreamIInv

\* as_write flushes first where there is no room; something is in the buffer then.
LEMMA CarriesOn ==
  ASSUME NEW v, NEW q, NEW a, NEW t, NEW r, NEW b, NEW o, NEW d, NEW u,
         Carries(v, q, a, t, v, r, b, t), Carries(v, r, b, t, v, o, d, u)
  PROVE  Carries(v, q, a, t, v, o, d, u)
BY DEF Carries

LEMMA RoomIs ==
  ASSUME NEW a, BufferOK(a), NEW room \in Nat, room <= BufferSize
  PROVE  (a.n < room => a.p # 0) /\ (~(a.n < room) => a.n >= room)
<1>1. a.n \in Nat /\ a.p \in Nat /\ a.n = BufferSize - a.p /\ BufferSize \in Nat
  BY SizesPositive DEF BufferOK
<1> QED
  BY <1>1

\* as_write, after as_flushmsg where there is no room.
LEMMA WriteStep ==
  ASSUME StreamIInv, Write
  PROVE  StreamIInv'
<1> DEFINE m == Last(marks)
           s == m[at.group][at.item]
           a == IF FlushFirst(s) THEN FlushedStream(as) ELSE as
           q == IF FlushFirst(s) THEN FlushedPort(as) ELSE port
<1>1. /\ at # Done /\ at.group <= Len(m)
      /\ port' = q /\ as' = Put(a, s) /\ at' = NextPlace(m, at)
      /\ UNCHANGED <<marks, server, rd, got, outcome, held, skipped>>
  BY DEF Write, Put, NextPlace
<1>2. Client(marks, port, as, at)
  BY DEF StreamIInv
<1>3. MarksShaped(marks) /\ BufferOK(as) /\ WriteAt(marks, at)
  BY <1>2 DEF Client
<1>4. m = marks[Len(marks)]
  BY SMTT(30) DEF Last
<1>5. IsPart(m, s) /\ Shaped(m, Len(marks)) /\ Len(marks) \in Nat
  BY <1>1, <1>3, <1>4, PlaceInMark
<1>6. s.size \in Nat
  BY <1>5, PartIs
<1> DEFINE room == IF s.size <= Threshold THEN s.size ELSE OobSize
<1>7. (FlushFirst(s) => as.n < room) /\ (~FlushFirst(s) => ~(as.n < room))
  BY DEF FlushFirst
<1>8. room \in Nat /\ room <= BufferSize /\ BufferSize \in Nat
  BY <1>6, SizesPositive
<1> HIDE DEF room, s, m, a, q
<1>9. CASE FlushFirst(s)
  <2>8. port # <<>> => q # <<>> /\ Head(q) = Head(port)
    <3>1. port \in Seq(Message)
      BY <1>2 DEF Client
    <3>2. q = Sending(port, as)
      BY <1>9 DEF FlushedPort, Sending, Prepared, Made, q
    <3> QED
      BY <1>3, <3>1, <3>2, SendingIs
  <2>1. as.p # 0
    <3>1. as.n < room
      BY <1>7, <1>9
    <3> QED
      BY <1>3, <1>8, <3>1, RoomIs
  <2>2. q = Sending(port, as) /\ a = FlushedStream(as)
    BY <1>9 DEF FlushedPort, Sending, Prepared, Made, a, q
  <2>3. Carries(marks, port, as, at, marks, q, a, at) /\ a.n = BufferSize
    BY <1>2, <2>1, <2>2, FlushCarries
  <2>4. a.n >= room
    BY <1>8, <2>3
  <2>5. Client(marks, q, a, at)
    BY <2>3 DEF Carries
  <2>6. Carries(marks, q, a, at, marks, q, Put(a, s), NextPlace(m, at))
    BY <1>1, <1>4, <2>4, <2>5, PutCarries DEF room, s
  <2>7. Carries(marks, port, as, at, marks, q, Put(a, s), NextPlace(m, at))
    BY <2>3, <2>6, CarriesOn
  <2> QED
    BY <1>1, <1>5, <2>7, <2>8, ClientStep
<1>10. CASE ~FlushFirst(s)
  <2>1. q = port /\ a = as
    BY <1>10 DEF a, q
  <2>2. a.n >= room
    <3>1. ~(as.n < room)
      BY <1>7, <1>10
    <3> QED
      BY <1>3, <1>8, <2>1, <3>1, RoomIs
  <2>3. Carries(marks, q, a, at, marks, q, Put(a, s), NextPlace(m, at))
    BY <1>1, <1>2, <1>4, <2>1, <2>2, PutCarries DEF room, s
  <2> QED
    BY <1>1, <1>5, <2>1, <2>3, ClientStep
<1> QED
  BY <1>9, <1>10

\* as_destroyWrite flushes what is left.
LEMMA FinishStep ==
  ASSUME StreamIInv, Finish
  PROVE  StreamIInv'
<1>1. /\ at # Done /\ at.group > Len(marks[Len(marks)])
      /\ port' = Sending(port, as) /\ as' = Fresh /\ at' = Done
      /\ UNCHANGED <<marks, server, rd, got, outcome, held, skipped>>
  BY DEF Finish, FlushedPort, Sending, Prepared, Made, Last
<1>2. Client(marks, port, as, at)
  BY DEF StreamIInv
<1>3. Carries(marks, port, as, at, marks, port', as', at')
  BY <1>1, <1>2, FinishCarries
<1>4. Len(marks) \in Nat
  BY <1>2, LenProperties DEF Client, MarksShaped
<1>5. port # <<>> => port' # <<>> /\ Head(port') = Head(port)
  <2>1. port \in Seq(Message) /\ BufferOK(as)
    BY <1>2 DEF Client
  <2>2. port # <<>> => Sending(port, as) # <<>> /\ Head(Sending(port, as)) = Head(port)
    BY <2>1, SendingIs
  <2>3. port' = Sending(port, as)
    BY <1>1
  <2> QED
    BY <2>2, <2>3
<1>6. Carries(marks, port, as, at, marks', port', as', at')
  BY <1>1, <1>3
<1>7. /\ Len(marks') \in Nat /\ Len(marks) <= Len(marks') /\ \A m \in 1..Len(marks) : marks'[m] = marks[m]
      /\ UNCHANGED <<server, rd, got, outcome, held, skipped>>
  BY <1>1, <1>4
<1> QED
  BY Zenon, <1>5, <1>6, <1>7, ClientStep

\* What a mark is.
LEMMA MarksAreShaped ==
  ASSUME NEW args \in Args, NEW m \in 1..MaxMarks
  PROVE  MarkOf(m, args) \in Marks /\ Shaped(MarkOf(m, args), m)
<1> DEFINE g == MarkOf(m, args)
           G(k) == IF k = 1 THEN Request ELSE args[k - 1]
<1>1. g \in Marks
  BY DEF Marks
<1>2. PICK n \in 0..MaxArgs : args \in [1..n -> Groups]
  BY DEF Args
<1>3. Len(args) = n /\ n \in Nat /\ MaxArgs \in Nat /\ n <= MaxArgs
  <2>1. n \in Nat /\ MaxArgs \in Nat /\ n <= MaxArgs
    BY <1>2, SizesPositive
  <2>2. args \in Seq(Groups)
    BY <1>2, <2>1, SeqDef
  <2> QED
    BY <1>2, <2>1, <2>2, LenProperties
<1>4. g = [k \in 1..n + 1 |-> Group(m, k, G(k))]
  BY <1>3 DEF MarkOf
<1>5. ASSUME NEW k \in 1..n + 1
      PROVE  /\ G(k).size \in Sizes /\ G(k).count \in Nat \ {0} /\ (G(k).count > 1 => G(k).size <= Threshold)
  <2>1. CASE k = 1
    <3>1. G(k) = Request
      BY <2>1
    <3>2. Request.size = RequestSize /\ Request.count = 1
      BY DEF Request
    <3> HIDE DEF G
    <3> QED
      BY <3>1, <3>2, SizesPositive
  <2>2. CASE k # 1
    <3>1. k - 1 \in 1..n
      BY <1>3, <2>2
    <3>2. args[k - 1] \in Groups /\ G(k) = args[k - 1]
      BY <1>2, <2>2, <3>1
    <3> HIDE DEF G
    <3>3. /\ G(k).size \in Sizes
      BY <3>2 DEF Sizes
    <3> QED
      BY <3>2, <3>3, ArgStreamAssumption
  <2> QED
    BY <2>1, <2>2
<1> HIDE DEF G
<1>6. ASSUME NEW k \in 1..n + 1 PROVE GroupShaped(g[k], m, k)
  <2> DEFINE e == [j \in 1..G(k).count |-> [mark |-> m, arg |-> k, item |-> j, size |-> G(k).size]]
             c == G(k).count
             z == G(k).size
  <2>1. g[k] = e
    BY <1>4 DEF Group
  <2>2. c \in Nat \ {0} /\ z \in Sizes /\ (c > 1 => z <= Threshold)
    BY <1>5
  <2>3. k \in 1..MaxArgs + 1
    BY <1>3
  <2> HIDE DEF c, z
  <2>4. e = [j \in 1..c |-> [mark |-> m, arg |-> k, item |-> j, size |-> z]]
    BY DEF c, z
  <2> HIDE DEF e
  <2>5. \A j \in 1..c : [mark |-> m, arg |-> k, item |-> j, size |-> z] \in Structure
    <3>1. \A j \in 1..c : j \in Nat \ {0}
      BY <2>2
    <3>2. z \in {y.size : y \in Groups \cup {Request}}
      BY <2>2 DEF Sizes
    <3> QED
      BY <2>3, <3>1, <3>2 DEF Structure
  <2>6. e \in [1..c -> Structure]
    BY <2>4, <2>5
  <2>7. e \in Seq(Structure)
    BY <2>2, <2>6, SeqDef
  <2>8. Len(e) = c
    BY <2>2, <2>6, <2>7, LenProperties
  <2>9. \A j \in 1..Len(e) : e[j] = [mark |-> m, arg |-> k, item |-> j, size |-> z]
    BY <2>4, <2>8
  <2>10. GroupShaped(e, m, k)
    BY <2>2, <2>7, <2>8, <2>9 DEF GroupShaped
  <2> QED
    BY <2>1, <2>10
<1>7. g \in Seq(Seq(Structure)) /\ Len(g) = n + 1
  <2>1. \A k \in 1..n + 1 : g[k] \in Seq(Structure)
    BY <1>6 DEF GroupShaped
  <2>2. n + 1 \in Nat
    BY <1>3
  <2>3. g \in [1..n + 1 -> Seq(Structure)]
    BY <1>4, <2>1
  <2> HIDE DEF g
  <2>4. g \in Seq(Seq(Structure))
    BY <2>2, <2>3, SeqDef
  <2> QED
    BY <2>2, <2>3, <2>4, LenProperties
<1> HIDE DEF g
<1>8. Shaped(g, m)
  <2>1. Len(g) \in 1..MaxArgs + 1
    BY <1>3, <1>7
  <2> QED
    BY <1>6, <1>7, <2>1 DEF Shaped
<1> QED
  BY <1>1, <1>8 DEF g

\* RBMMark.
LEMMA MakeStep ==
  ASSUME StreamIInv, NDMark
  PROVE  StreamIInv'
<1>1. /\ at = Done /\ Len(marks) < MaxMarks /\ as' = Fresh /\ at' = Start
      /\ UNCHANGED <<port, server, rd, got, outcome, held, skipped>>
  BY DEF NDMark, Start
<1>2. PICK args \in Args : marks' = Append(marks, MarkOf(Len(marks) + 1, args))
  BY DEF NDMark
<1>3. Client(marks, port, as, Done)
  BY <1>1 DEF StreamIInv
<1>4. marks \in Seq(Marks) /\ Len(marks) \in Nat
  BY <1>3, LenProperties DEF Client, MarksShaped
<1>5. Len(marks) + 1 \in 1..MaxMarks
  <2>1. MaxMarks \in Nat
    BY SizesPositive
  <2>2. \A l \in Nat : l < MaxMarks => l + 1 \in 1..MaxMarks
    BY <2>1
  <2> QED
    BY <1>1, <1>4, <2>2
<1> DEFINE g == MarkOf(Len(marks) + 1, args)
<1>6. g \in Marks /\ Shaped(g, Len(marks) + 1)
  BY <1>5, MarksAreShaped
<1> HIDE DEF g
<1>7. Carries(marks, port, as, Done, Append(marks, g), port, Fresh, Start)
  BY <1>1, <1>3, <1>6, MakeCarries
<1>8. Carries(marks, port, as, at, marks', port', as', at')
  BY <1>1, <1>2, <1>7 DEF g
<1>9. /\ Len(marks') = Len(marks) + 1 /\ \A m \in 1..Len(marks) : marks'[m] = marks[m]
  BY <1>2, <1>4, <1>6, AppendIs DEF g
<1>10. Len(marks') \in Nat /\ Len(marks) <= Len(marks')
  BY <1>4, <1>9
<1> QED
  BY <1>1, <1>8, <1>9, <1>10, ClientStep

\* The server takes the first message from the port.
LEMMA TailIs ==
  ASSUME NEW v, NEW q, NEW a, NEW t, Client(v, q, a, t), q # <<>>
  PROVE  /\ Client(v, Tail(q), a, t) /\ MessageOK(v, Head(q))
         /\ Sending(q, a) # <<>> /\ Sending(q, a)[1] = Head(q)
         /\ Precedes(v, Head(q), Tail(q), a, t)
<1> DEFINE S == Sending(q, a)
           T == Sending(Tail(q), a)
<1>1. /\ MarksShaped(v) /\ q \in Seq(Message) /\ BufferOK(a) /\ WriteAt(v, t) /\ Stream(v, S)
      /\ (a.p > 0 => MarkAt(Prepared(a)) = Len(v))
      /\ (t \in {Done, Start} => a = Fresh) /\ (t \notin {Done, Start} /\ a.p = 0 => ~a.first)
      /\ (S # <<>> => Ahead(v, Last(S), t))
  BY DEF Client
<1>2. Tail(q) \in Seq(Message) /\ Len(q) \in Nat /\ Len(q) > 0 /\ Head(q) = q[1] /\ Len(Tail(q)) = Len(q) - 1
      /\ \A i \in 1..Len(q) - 1 : Tail(q)[i] = q[i + 1]
  BY <1>1, HeadTailProperties, LenProperties, EmptySeq
<1>3. T = Tail(S) /\ S # <<>> /\ S[1] = Head(q)
  <2>1. CASE a.p = 0
    BY <1>2, <2>1 DEF Sending
  <2>2. CASE a.p # 0
    <3> DEFINE x == Prepared(a)
    <3>1. S = Append(q, x) /\ T = Append(Tail(q), x)
      BY <2>2 DEF Sending
    <3>2. x \in Message
      BY <1>1, MadeIs
    <3> HIDE DEF S, T, x
    <3>3. S \in Seq(Message) /\ T \in Seq(Message) /\ Len(S) = Len(q) + 1 /\ Len(T) = Len(q)
          /\ S[Len(q) + 1] = x /\ \A i \in 1..Len(q) : S[i] = q[i]
      BY <1>1, <1>2, <3>1, <3>2, AppendIs
    <3>4. T[Len(q)] = x /\ \A i \in 1..Len(q) - 1 : T[i] = q[i + 1]
      <4>1. Len(Tail(q)) + 1 = Len(q)
        BY <1>2
      <4>2. T[Len(Tail(q)) + 1] = x /\ \A i \in 1..Len(Tail(q)) : T[i] = Tail(q)[i]
        BY <1>2, <3>1, <3>2, AppendIs
      <4> QED
        BY <1>2, <4>1, <4>2
    <3>5. S # <<>>
      BY <1>2, <3>3, EmptySeq
    <3>6. Tail(S) \in Seq(Message) /\ Len(Tail(S)) = Len(q) /\ \A i \in 1..Len(q) : Tail(S)[i] = S[i + 1]
      <4>1. Tail(S) \in Seq(Message) /\ Len(Tail(S)) = Len(S) - 1 /\ \A i \in 1..Len(S) - 1 : Tail(S)[i] = S[i + 1]
        BY <3>3, <3>5, HeadTailProperties
      <4>2. Len(S) - 1 = Len(q)
        BY <1>2, <3>3
      <4> QED
        BY <4>1, <4>2
    <3>7. \A i \in 1..Len(q) : T[i] = Tail(S)[i]
      <4> SUFFICES ASSUME NEW i \in 1..Len(q) PROVE T[i] = Tail(S)[i]
        OBVIOUS
      <4>1. CASE i = Len(q)
        BY <1>2, <3>3, <3>4, <3>6, <4>1
      <4>2. CASE i # Len(q)
        <5>1. Len(q) \in Nat
          BY <1>2
        <5>2. i \in 1..Len(q) - 1 /\ i + 1 \in 1..Len(q)
          BY <4>2, <5>1
        <5> QED
          BY <3>3, <3>4, <3>6, <5>2
      <4> QED
        BY <4>1, <4>2
    <3>8. T = Tail(S)
      BY <3>3, <3>6, <3>7, SeqEqual
    <3>9. 1 \in 1..Len(q)
      BY <1>2
    <3> QED
      BY <1>2, <3>3, <3>5, <3>8, <3>9
  <2> QED
    BY <2>1, <2>2
<1> HIDE DEF S, T
<1>4. /\ Stream(v, T) /\ MessageOK(v, S[1])
      /\ (T # <<>> => Linked(v, S[1], T[1]) /\ Last(T) = Last(S)) /\ (T = <<>> => Last(S) = S[1])
  BY <1>1, <1>3, StreamTail
<1>5. Client(v, Tail(q), a, t)
  BY <1>1, <1>2, <1>3, <1>4 DEF Client, T
<1>6. Precedes(v, Head(q), Tail(q), a, t)
  BY <1>1, <1>3, <1>4 DEF Precedes, T
<1> QED
  BY <1>3, <1>4, <1>5, <1>6 DEF S

\* What follows message l is the rest of its mark, or the mark after it.
LEMMA PrecedesExpects ==
  ASSUME NEW v, NEW l, NEW q, NEW a, NEW t, Precedes(v, l, q, a, t)
  PROVE  Expects(v, MarkAt(l), q, a, t)
BY DEF Precedes, Expects, Linked, Ahead

\* The blocks of a message.
LEMMA BlocksAre ==
  ASSUME NEW v, MarksShaped(v), NEW msg, MessageOK(v, msg)
  PROVE  Blocks(msg) \subseteq Structure /\ \A s \in Blocks(msg) : s.mark = MarkAt(msg)
<1> DEFINE c == MarkAt(msg)
           g == v[c]
<1>1. Shaped(g, c) /\ PacketsOK(g, msg.packets)
  BY MessageIs
<1> HIDE DEF c, g
<1>2. ASSUME NEW i \in 1..Len(msg.packets)
      PROVE  msg.packets[i].data[1] \in Structure /\ msg.packets[i].data[1].mark = c
  <2>1. PacketOK(g, msg.packets[i])
    BY <1>1 DEF PacketsOK
  <2>2. IsPart(g, msg.packets[i].data[1])
    BY <2>1, PacketIs
  <2> QED
    BY <1>1, <2>2, PartIs
<1> QED
  BY <1>2 DEF Blocks, c

\* The blocks of the messages of reader r.
Mapped(r) == UNION {Blocks(r.msgs[i]) : i \in 1..Len(r.msgs)}

LEMMA MappedAre ==
  ASSUME NEW v, MarksShaped(v), NEW r, NEW w, NEW c, Reader(v, r, w, c)
  PROVE  Mapped(r) \subseteq Structure /\ \A s \in Mapped(r) : s.mark = c
<1>1. \A i \in 1..Len(r.msgs) : MessageOK(v, r.msgs[i]) /\ MarkAt(r.msgs[i]) = c
  BY DEF Reader
<1>2. \A i \in 1..Len(r.msgs) : Blocks(r.msgs[i]) \subseteq Structure /\ \A s \in Blocks(r.msgs[i]) : s.mark = c
  BY SMTT(30), <1>1, BlocksAre
<1> QED
  BY <1>2 DEF Mapped

\* What is known of a reader.
LEMMA ReaderIs ==
  ASSUME NEW v, MarksShaped(v), NEW r, NEW w, NEW c, Reader(v, r, w, c)
  PROVE  /\ Shaped(v[c], c) /\ c \in 1..Len(v)
         /\ r \in ReadArgStream
         /\ r.msgs \in Seq(Message) /\ r.msgs # <<>> /\ Len(r.msgs) \in Nat
         /\ MessageOK(v, Last(r.msgs)) /\ MarkAt(Last(r.msgs)) = c
         /\ r.msgs[1].packets[1].data[1].mark = c
         /\ PacketsOK(v[c], Packets(r)) /\ Packets(r) # <<>>
         /\ r.ct \in 1..Len(Packets(r)) /\ Len(Packets(r)) \in Nat
         /\ PacketOK(v[c], Packet(r)) /\ ReadAt(v[c], Packet(r), r.item, r.n, w)
         /\ w \in Seq(Seq(Structure)) /\ Len(w) \in Nat /\ Len(w) <= Len(v[c]) /\ \A k \in 1..Len(w) : w[k] = v[c][k]
<1>1. /\ r \in ReadArgStream
      /\ Len(r.msgs) > 0 /\ c \in 1..Len(v)
      /\ \A i \in 1..Len(r.msgs) : MessageOK(v, r.msgs[i]) /\ MarkAt(r.msgs[i]) = c
      /\ r.ct \in 1..Len(Packets(r))
      /\ ReadAt(v[c], Packet(r), r.item, r.n, w)
  BY DEF Reader
<1>2. r.msgs \in Seq(Message)
  BY <1>1 DEF ReadArgStream
<1>3. Len(r.msgs) \in Nat /\ r.msgs # <<>> /\ Len(r.msgs) \in 1..Len(r.msgs) /\ 1 \in 1..Len(r.msgs)
      /\ Last(r.msgs) = r.msgs[Len(r.msgs)]
  BY <1>1, <1>2, LastIs
<1>4. MessageOK(v, Last(r.msgs)) /\ MarkAt(Last(r.msgs)) = c /\ MarkAt(r.msgs[1]) = c
  BY <1>1, <1>3
<1>5. /\ Shaped(v[c], c) /\ PacketsOK(v[c], Last(r.msgs).packets) /\ Last(r.msgs).packets # <<>>
      /\ Last(r.msgs).packets \in Seq(PacketType)
  BY <1>4, MessageIs
<1>6. r.msgs[1].packets[1].data[1].mark = c
  BY <1>4 DEF MarkAt, StartOf
<1>7. PacketsOK(v[c], Packets(r)) /\ Packets(r) # <<>> /\ Len(Packets(r)) \in Nat
  BY <1>5, LenProperties DEF Packets
<1>8. /\ PacketOK(v[c], Packet(r)) /\ w \in Seq(Seq(Structure)) /\ Len(w) <= Len(v[c])
      /\ \A k \in 1..Len(w) : w[k] = v[c][k]
  BY <1>1 DEF ReadAt
<1>9. Len(w) \in Nat
  BY <1>8, LenProperties
<1> QED
  BY <1>1, <1>2, <1>3, <1>4, <1>5, <1>6, <1>7, <1>8, <1>9

\* as_newRead and as_new_message, where the message begins with the argument
\* that is read next.
LEMMA OpenedReads ==
  ASSUME NEW v, MarksShaped(v), NEW ms \in Seq(Message), ms # <<>>, NEW c \in 1..Len(v),
         \A i \in 1..Len(ms) : MessageOK(v, ms[i]) /\ MarkAt(ms[i]) = c,
         NEW w \in Seq(Seq(Structure)), Len(w) <= Len(v[c]), \A k \in 1..Len(w) : w[k] = v[c][k],
         StartOf(Last(ms).packets).arg = Len(w) + 1, StartOf(Last(ms).packets).item = 1
  PROVE  /\ Reader(v, Opened(ms), w, c) /\ Opened(ms).msgs = ms
         /\ Opened(ms).item = 0
<1> DEFINE r == Opened(ms)
           ps == Last(ms).packets
<1>1. Len(ms) \in Nat /\ Len(ms) > 0 /\ Last(ms) = ms[Len(ms)] /\ Len(ms) \in 1..Len(ms)
  BY LastIs
<1>2. MessageOK(v, Last(ms)) /\ MarkAt(Last(ms)) = c
  BY <1>1
<1>3. Shaped(v[c], c) /\ PacketsOK(v[c], ps) /\ ps # <<>> /\ ps \in Seq(PacketType)
  BY <1>2, MessageIs
<1>4. 1 \in 1..Len(ps)
  BY <1>3, PacketsParts
<1>5. PacketOK(v[c], ps[1]) /\ ps[1] \in PacketType
  BY <1>3, <1>4, PacketIs DEF PacketsOK
<1>6. ReadAt(v[c], ps[1], 0, ps[1].number, w)
  BY <1>3, <1>5, PacketBegun DEF StartOf
<1>7. r = [msgs |-> ms, ct |-> 1, n |-> ps[1].number, item |-> 0]
  BY DEF Opened
<1>8. ps[1].number \in Nat
  BY <1>5 DEF PacketType
<1>9. r \in ReadArgStream
  BY <1>7, <1>8 DEF ReadArgStream
<1>10. r.msgs = ms /\ r.ct = 1 /\ r.n = ps[1].number /\ r.item = 0
  BY <1>7
<1> HIDE DEF r
<1>11. Packets(r) = ps /\ Packet(r) = ps[1]
  BY <1>10 DEF Packets, Packet
<1>12. Reader(v, r, w, c)
  BY <1>1, <1>4, <1>6, <1>9, <1>10, <1>11 DEF Reader
<1> QED
  BY <1>10, <1>12 DEF r

\* What comes after a packet that was read to its end.
LEMMA AfterPacket ==
  ASSUME NEW g, NEW m, Shaped(g, m), NEW pk, NEW i, NEW w, ReadAt(g, pk, i, 0, w),
         NEW s, Follows(g, Last(pk.data), s)
  PROVE  s.arg = Len(w) + 1 /\ s.item = 1
<1>1. Last(pk.data).arg = Len(w) /\ Last(pk.data).item = Len(g[Len(w)])
  BY PacketDone
<1>2. PacketOK(g, pk)
  BY DEF ReadAt
<1>3. IsPart(g, Last(pk.data))
  BY <1>2, PacketIs
<1>4. Last(pk.data).item \in Nat
  BY <1>3, PartIs
<1>5. ~(Last(pk.data).item < Len(g[Last(pk.data).arg]))
  BY <1>1, <1>4
<1> QED
  BY <1>1, <1>5 DEF Follows, LeadsTo

\* The fields of the server's stream.
LEMMA ReadFields ==
  ASSUME NEW r \in ReadArgStream, NEW x, NEW y, NEW w
  PROVE  /\ [r EXCEPT !.ct = x, !.n = y, !.item = w] = [msgs |-> r.msgs, ct |-> x, n |-> y, item |-> w]
         /\ [r EXCEPT !.n = y, !.item = w] = [msgs |-> r.msgs, ct |-> r.ct, n |-> y, item |-> w]
<1> DEFINE m == r.msgs
           c == r.ct
           n == r.n
           i == r.item
           a == [r EXCEPT !.n = y]
           b == [a EXCEPT !.item = w]
           d == [r EXCEPT !.ct = x]
           e == [d EXCEPT !.n = y]
           f == [e EXCEPT !.item = w]
<1>1. r = [msgs |-> m, ct |-> c, n |-> n, item |-> i]
  BY DEF ReadArgStream
<1>2. [r EXCEPT !.ct = x, !.n = y, !.item = w] = f /\ [r EXCEPT !.n = y, !.item = w] = b
  OBVIOUS
<1> HIDE DEF m, c, n, i, b, f
<1>3. a = [msgs |-> m, ct |-> c, n |-> y, item |-> i]
  BY <1>1
<1>4. d = [msgs |-> m, ct |-> x, n |-> n, item |-> i]
  BY <1>1
<1> HIDE DEF a, d
<1>5. b = [msgs |-> m, ct |-> c, n |-> y, item |-> w]
  BY <1>3 DEF b
<1>6. e = [msgs |-> m, ct |-> x, n |-> y, item |-> i]
  BY <1>4
<1> HIDE DEF e
<1>7. f = [msgs |-> m, ct |-> x, n |-> y, item |-> w]
  BY <1>6 DEF f
<1> QED
  BY <1>2, <1>5, <1>7 DEF m, c

\* as_read goes on at the next packet; ...
LEMMA NextPacketReads ==
  ASSUME NEW v, MarksShaped(v), NEW r, NEW w, NEW c, Reader(v, r, w, c), r.n = 0, r.ct < Len(Packets(r)),
         NEW z \in ReadArgStream, z.msgs = r.msgs, z.ct = r.ct + 1, z.n = Packets(r)[r.ct + 1].number, z.item = 0
  PROVE  Reader(v, z, w, c)
<1> DEFINE ps == Packets(r)
           pk == ps[r.ct + 1]
<1>1. /\ Shaped(v[c], c) /\ c \in 1..Len(v)
      /\ r \in ReadArgStream
      /\ PacketsOK(v[c], ps) /\ r.ct \in 1..Len(ps) /\ Len(ps) \in Nat
      /\ ReadAt(v[c], Packet(r), r.item, r.n, w)
      /\ w \in Seq(Seq(Structure)) /\ Len(w) <= Len(v[c]) /\ (\A k \in 1..Len(w) : w[k] = v[c][k])
  BY ReaderIs
<1>2. r.ct + 1 \in 1..Len(ps) /\ r.ct \in 1..Len(ps) - 1 /\ r.ct + 1 \in Nat
  BY SMTT(30), <1>1
<1>3. PacketOK(v[c], pk) /\ pk \in PacketType /\ Follows(v[c], Last(Packet(r).data), pk.data[1])
  BY <1>1, <1>2, PacketIs DEF PacketsOK, Packet
<1>4. pk.data[1].arg = Len(w) + 1 /\ pk.data[1].item = 1
  BY SMTT(30), <1>1, <1>3, AfterPacket
<1>5. ReadAt(v[c], pk, 0, pk.number, w)
  BY <1>1, <1>3, <1>4, PacketBegun
<1>6. pk.number \in Nat
  BY <1>3 DEF PacketType
<1> HIDE DEF pk
<1>7. z.msgs = r.msgs /\ z.ct = r.ct + 1 /\ z.n = pk.number /\ z.item = 0
  BY DEF pk
<1>8. z \in ReadArgStream
  BY DEF ReadArgStream
<1>9. Packets(z) = ps /\ Packet(z) = pk
  BY <1>7 DEF Packets, Packet, pk
<1>10. Reader(v, z, w, c)
  BY <1>2, <1>5, <1>7, <1>8, <1>9 DEF Reader
<1> QED
  BY SMTT(30), <1>7, <1>10

\* ... what it takes from a packet is the argument that is asked for.
LEMMA TakeReads ==
  ASSUME NEW v, MarksShaped(v), NEW r, NEW w, NEW c, Reader(v, r, w, c), Len(w) < Len(v[c]),
         NEW n, n = Len(v[c][Len(w) + 1]), NEW need, need = v[c][Len(w) + 1][1].size * n, need <= r.n,
         NEW z, z.msgs = r.msgs, z.ct = r.ct, z.n = r.n - need, z.item = r.item + n,
         z = [msgs |-> z.msgs, ct |-> z.ct, n |-> z.n, item |-> z.item]
  PROVE  Reader(v, z, Append(w, SubSeq(Packet(r).data, r.item + 1, r.item + n)), c)
<1> DEFINE g == v[c]
           d == SubSeq(Packet(r).data, r.item + 1, r.item + n)
           x == Append(w, d)
<1>1. /\ Shaped(g, c) /\ c \in 1..Len(v)
      /\ r \in ReadArgStream
      /\ r.ct \in 1..Len(Packets(r))
      /\ ReadAt(g, Packet(r), r.item, r.n, w)
  BY ReaderIs
<1>2. ReadAt(g, Packet(r), r.item + n, r.n - need, x)
  BY SMTT(30), <1>1, TakeWhole
<1>3. r.n - need \in Nat /\ r.item + n \in 0..Len(Packet(r).data)
  BY <1>2 DEF ReadAt
<1>4. r.item + n \in Nat
  BY <1>3
<1> HIDE DEF x
<1>5. z.msgs = r.msgs /\ z.ct = r.ct /\ z.n = r.n - need /\ z.item = r.item + n
  OBVIOUS
<1>6. z \in ReadArgStream
  <2>1. r.msgs \in Seq(Message) /\ r.ct \in Nat
    BY <1>1 DEF ReadArgStream
  <2>2. [msgs |-> z.msgs, ct |-> z.ct, n |-> z.n, item |-> z.item] \in ReadArgStream
    BY <1>3, <1>4, <1>5, <2>1 DEF ReadArgStream
  <2> QED
    BY <2>2
<1>7. Packets(z) = Packets(r) /\ Packet(z) = Packet(r)
  BY SMTT(30), <1>5 DEF Packets, Packet
<1>8. Reader(v, z, x, c)
  <2>1. Len(r.msgs) > 0 /\ \A i \in 1..Len(r.msgs) : MessageOK(v, r.msgs[i]) /\ MarkAt(r.msgs[i]) = c
    BY DEF Reader
  <2> QED
    BY <1>1, <1>2, <1>5, <1>6, <1>7, <2>1 DEF Reader
<1> QED
  BY SMTT(30), <1>5, <1>8 DEF x

\* The client's part and the server's make up the invariant after a step of the
\* server.
LEMMA ServerStep ==
  ASSUME UNCHANGED client, Client(marks, port', as, at), server' \in {"idle", "reading", "astray"},
         ReadingSound', IdleSound', AstraySound', Settled'
  PROVE  StreamIInv'
BY SMTT(30) DEF StreamIInv, client

\* The mark that is read.
LEMMA MarkIs ==
  ASSUME MarksShaped(marks), NEW w, NEW c, Reader(marks, rd, w, c)
  PROVE  Mark = marks[c]
BY SMTT(30), ReaderIs DEF Mark

\* The read of an argument.
LEMMA TakeFromReads ==
  ASSUME MarksShaped(marks), NEW c, Reader(marks, rd, got, c), Len(got) < Len(Mark),
         NEW r, Reader(marks, r, got, c), Need <= r.n, TakeFrom(r)
  PROVE  Reader(marks, rd', got', c) /\ rd'.msgs = r.msgs
<1>1. Mark = marks[c]
  BY MarkIs
<1> DEFINE n == Len(Wanted)
           need == Need
           x == Append(got, SubSeq(Packet(r).data, r.item + 1, r.item + n))
           z == [r EXCEPT !.n = @ - need, !.item = @ + n]
<1>2. n = Len(marks[c][Len(got) + 1]) /\ need = marks[c][Len(got) + 1][1].size * n
  BY <1>1 DEF Wanted, Need
<1>3. got' = x /\ rd' = z
  BY DEF TakeFrom
<1>4. Len(got) < Len(marks[c])
  BY <1>1
<1>5. need <= r.n
  OBVIOUS
<1> HIDE DEF n, need
<1>6. x = Append(got, SubSeq(Packet(r).data, r.item + 1, r.item + n))
  OBVIOUS
<1>7. /\ z.msgs = r.msgs /\ z.ct = r.ct /\ z.n = r.n - need /\ z.item = r.item + n
      /\ z = [msgs |-> z.msgs, ct |-> z.ct, n |-> z.n, item |-> z.item]
  <2>1. r \in ReadArgStream
    BY ReaderIs DEF ReadArgStream
  <2> DEFINE a == r.n - need
             b == r.item + n
  <2>2. z = [r EXCEPT !.n = a, !.item = b]
    OBVIOUS
  <2> HIDE DEF a, b
  <2>3. z = [msgs |-> r.msgs, ct |-> r.ct, n |-> a, item |-> b]
    BY ZenonT(60), <2>1, <2>2, ReadFields
  <2> HIDE DEF z
  <2>4. z.msgs = r.msgs /\ z.ct = r.ct /\ z.n = a /\ z.item = b
    BY <2>3
  <2> QED
    BY <2>3, <2>4 DEF a, b
<1> HIDE DEF x, z
<1>8. Reader(marks, z, x, c) /\ z.msgs = r.msgs
  BY <1>2, <1>4, <1>6, <1>7, <1>5, TakeReads
<1> QED
  BY <1>3, <1>8

LEMMA TakeStep ==
  ASSUME UNCHANGED client, Client(marks, port', as, at), Settled, UNCHANGED <<outcome, skipped>>,
         server' = "reading", NEW c, c = Len(outcome) + 1, Reader(marks, rd, got, c), Len(got) < Len(Mark),
         NEW r, Reader(marks, r, got, c), Precedes(marks, Last(r.msgs), port', as, at),
         Need <= r.n, TakeFrom(r), held' = skipped \cup Mapped(r)
  PROVE  StreamIInv'
<1>1. MarksShaped(marks)
  BY DEF Client
<1>2. Reader(marks, rd', got', c) /\ rd'.msgs = r.msgs
  BY <1>1, TakeFromReads
<1>3. Received' = Mapped(r)
  BY <1>2 DEF Received, Mapped, Blocks
<1>4. ReadingSound'
  BY <1>2, <1>3 DEF ReadingSound, client
<1>5. IdleSound' /\ AstraySound'
  BY DEF IdleSound, AstraySound
<1>6. Settled'
  BY DEF Settled, client, Array
<1> QED
  BY <1>4, <1>5, <1>6, ServerStep

\* as_read goes on where no message is.
LEMMA AstrayStep ==
  ASSUME UNCHANGED client, Client(marks, port', as, at), Settled, UNCHANGED <<rd, got, outcome, skipped>>,
         server' = "astray", NEW c, Reader(marks, rd, got, c), held' \subseteq Structure,
         TooLarge' \/ \E k \in 1..Len(Mark) : Array(Mark[k]) \/ Block(Mark[k])
  PROVE  StreamIInv'
<1>1. MarksShaped(marks)
  BY SMTT(30) DEF Client
<1>2. /\ c \in 1..Len(marks) /\ rd \in ReadArgStream
      /\ got \in Seq(Seq(Structure)) /\ rd.msgs[1].packets[1].data[1].mark = c
  BY SMTT(30), <1>1, ReaderIs
<1>3. Mark' = Mark
  BY DEF Mark, client
<1>4. AstraySound'
  BY <1>2, <1>3 DEF AstraySound, client, Array, Block
<1>5. ReadingSound' /\ IdleSound'
  BY DEF ReadingSound, IdleSound
<1>6. Settled'
  BY DEF Settled, client, Array
<1> QED
  BY <1>4, <1>5, <1>6, ServerStep

\* as_read at the start of a packet.
LEMMA ProceedStep ==
  ASSUME UNCHANGED client, Client(marks, port', as, at), Settled, Reading, NEW c, c = Len(outcome) + 1,
         Reader(marks, rd, got, c), NEW r, Reader(marks, r, got, c), r.item = 0,
         Precedes(marks, Last(r.msgs), port', as, at), NEW blocks, blocks = skipped \cup Mapped(r),
         Proceed(r, blocks)
  PROVE  StreamIInv'
<1>1. MarksShaped(marks)
  BY DEF Client
<1>2. Mark = marks[c]
  BY <1>1, MarkIs
<1>3. Len(got) < Len(Mark) /\ server = "reading"
  BY DEF Reading
<1>4. /\ Shaped(marks[c], c) /\ c \in 1..Len(marks) /\ r \in ReadArgStream
      /\ ReadAt(marks[c], Packet(r), r.item, r.n, got) /\ Len(got) \in Nat
  BY <1>1, ReaderIs
<1>5. Len(got) + 1 \in 1..Len(Mark) /\ Len(Mark) \in Nat
  <2>1. Len(Mark) \in Nat
    BY <1>2, <1>4 DEF Shaped
  <2> QED
    BY <1>3, <1>4, <2>1
<1>6. Need \in Nat
  <2> DEFINE g == marks[c][Len(got) + 1]
  <2>1. Len(g) \in Nat \ {0} /\ g[1].size \in Nat \ {0}
    BY <1>2, <1>4, <1>5, GroupIs
  <2>2. Need = g[1].size * Len(g)
    BY <1>2 DEF Need, Wanted
  <2> HIDE DEF g
  <2> QED
    BY <2>1, <2>2, ProductPositive
<1>7. r.n \in Nat
  BY <1>4 DEF ReadArgStream
<1>8. CASE Whole(r) /\ TakeFrom(r) /\ held' = blocks /\ UNCHANGED <<server, outcome, skipped>>
  <2>1. Need <= r.n
    BY <1>6, <1>7, <1>8 DEF Whole
  <2> QED
    BY <1>3, <1>8, <2>1, TakeStep
<1>9. CASE Packet(r).inLine /\ ~Whole(r) /\ GoAstray(blocks)
  <2>1. r.n # 0
    <3>1. r.n > 0 <=> r.item < Len(Packet(r).data)
      BY <1>4, LeftIs
    <3>2. Len(Packet(r).data) \in Nat \ {0}
      BY <1>4, LeftIs
    <3> QED
      BY <1>7, <3>1, <3>2
  <2>2. Need > r.n
    BY <1>6, <1>7, <1>9 DEF Whole
  <2>3. marks[c][Len(got) + 1][1].size * Len(marks[c][Len(got) + 1]) > r.n
    BY <1>2, <2>2 DEF Need, Wanted
  <2>4. Len(marks[c][Len(got) + 1]) > 1
    BY <1>2, <1>3, <1>4, <2>1, <2>3, TakeShort
  <2>5. \E k \in 1..Len(Mark) : Array(Mark[k])
    BY <1>2, <1>5, <2>4 DEF Array
  <2>6. blocks \subseteq Structure
    BY <1>1, MappedAre DEF Settled
  <2>7. server' = "astray" /\ held' = blocks /\ UNCHANGED <<rd, got, outcome, skipped>>
    BY <1>9 DEF GoAstray
  <2> QED
    BY <2>5, <2>6, <2>7, AstrayStep
<1> QED
  BY <1>8, <1>9 DEF Proceed

\* main, when a mark was carried out or dropped.
LEMMA RestStep ==
  ASSUME UNCHANGED <<client, port, skipped>>, Client(marks, port, as, at), Settled,
         server' = "idle", rd' = NoRead, got' = <<>>, held' = held \ Received,
         ReadingSound, server = "reading",
         NEW x \in Marks \cup {Dropped}, outcome' = Append(outcome, x),
         x = Dropped => \E k \in 1..Len(Mark) : Array(Mark[k])
  PROVE  StreamIInv'
<1> DEFINE c == Len(outcome) + 1
<1>1. MarksShaped(marks)
  BY DEF Client
<1>2. /\ Reader(marks, rd, got, c) /\ Precedes(marks, Last(rd.msgs), port, as, at)
      /\ held = skipped \cup Received
  BY DEF ReadingSound
<1>3. /\ outcome \in Seq(Marks \cup {Dropped}) /\ Len(outcome) <= Len(marks)
      /\ \A i \in 1..Len(outcome) :
           outcome[i] = Dropped => \E k \in 1..Len(marks[i]) : Array(marks[i][k])
      /\ skipped \subseteq Structure /\ \A s \in skipped : s.mark <= Len(outcome)
  BY DEF Settled
<1>4. Len(outcome) \in Nat /\ Len(marks) \in Nat
  BY <1>1, <1>3, LenProperties DEF MarksShaped
<1>5. /\ outcome' \in Seq(Marks \cup {Dropped}) /\ Len(outcome') = c /\ outcome'[c] = x
      /\ \A i \in 1..Len(outcome) : outcome'[i] = outcome[i]
  BY <1>3, AppendIs
<1> HIDE DEF c
<1>6. Mark = marks[c] /\ c \in 1..Len(marks) /\ MarkAt(Last(rd.msgs)) = c
  BY <1>1, <1>2, MarkIs, ReaderIs
<1>7. Received = Mapped(rd)
  BY DEF Received, Mapped
<1>8. \A s \in Received : s.mark = c
  BY <1>1, <1>2, <1>7, MappedAre
<1>9. c = Len(outcome) + 1
  BY DEF c
<1>10. held' = skipped
  <2>1. \A s \in Structure : s.mark \in Nat
    BY DEF Structure
  <2>2. ASSUME NEW s \in skipped PROVE s \notin Received
    <3>1. s.mark \in Nat /\ s.mark <= Len(outcome)
      BY <1>3, <2>1, <2>2
    <3>2. s.mark # c
      BY <1>4, <1>9, <3>1
    <3> QED
      BY <1>8, <3>2
  <2> QED
    BY <1>2, <2>2
<1>11. Expects(marks, c, port, as, at)
  BY <1>2, <1>6, PrecedesExpects
<1>12. IdleSound'
  BY <1>5, <1>10, <1>11 DEF IdleSound, client, NoRead
<1>13. ReadingSound' /\ AstraySound'
  BY DEF ReadingSound, AstraySound
<1>14. Settled'
  <2>1. Len(outcome') <= Len(marks')
    BY <1>4, <1>5, <1>6 DEF client
  <2>2. \A i \in 1..Len(outcome') :
          outcome'[i] = Dropped => \E k \in 1..Len(marks'[i]) : Array(marks'[i][k])
    <3> SUFFICES ASSUME NEW i \in 1..Len(outcome'), outcome'[i] = Dropped
                 PROVE  \E k \in 1..Len(marks[i]) : Array(marks[i][k])
      BY DEF client
    <3>1. CASE i = c
      BY <1>5, <1>6, <3>1
    <3>2. CASE i # c
      <4>1. i \in 1..Len(outcome)
        BY <1>4, <1>5, <1>9, <3>2
      <4> QED
        BY <1>3, <1>5, <4>1
    <3> QED
      BY <3>1, <3>2
  <2>3. \A s \in skipped : s.mark <= Len(outcome')
    <3> SUFFICES ASSUME NEW s \in skipped PROVE s.mark <= c
      BY <1>5
    <3>1. s.mark \in Nat /\ s.mark <= Len(outcome)
      BY <1>3 DEF Structure
    <3> QED
      BY <1>4, <1>9, <3>1
  <2> QED
    BY <1>3, <1>5, <2>1, <2>2, <2>3 DEF Settled, client, Array
<1> QED
  BY <1>12, <1>13, <1>14, ServerStep DEF client

\* Each step of the server: as_read in the packet; ...
LEMMA ReadOnStep ==
  ASSUME StreamIInv, ReadOn
  PROVE  StreamIInv'
<1>1. /\ Client(marks, port, as, at) /\ ReadingSound /\ Settled /\ MarksShaped(marks)
  BY DEF StreamIInv, Client
<1>2. /\ server = "reading" /\ Len(got) < Len(Mark) /\ Need <= rd.n /\ TakeFrom(rd)
      /\ UNCHANGED <<client, port, server, outcome, held, skipped>>
  BY DEF ReadOn, Reading
<1> DEFINE c == Len(outcome) + 1
<1>3. Reader(marks, rd, got, c) /\ Precedes(marks, Last(rd.msgs), port, as, at) /\ held = skipped \cup Received
  BY <1>1, <1>2 DEF ReadingSound
<1>4. Received = Mapped(rd)
  BY DEF Received, Mapped
<1> QED
  BY <1>1, <1>2, <1>3, <1>4, TakeStep

\* ... at the next one; ...
LEMMA ReadNextPacketStep ==
  ASSUME StreamIInv, ReadNextPacket
  PROVE  StreamIInv'
<1> DEFINE z == [rd EXCEPT !.ct = @ + 1, !.n = Packets(rd)[rd.ct + 1].number, !.item = 0]
<1>1. Client(marks, port, as, at) /\ ReadingSound /\ Settled
  BY DEF StreamIInv
<1>2. MarksShaped(marks)
  BY <1>1 DEF Client
<1>3. /\ Reading /\ server = "reading" /\ rd.n = 0 /\ rd.ct < Len(Packets(rd)) /\ Proceed(z, held)
      /\ UNCHANGED <<client, port>>
  BY DEF ReadNextPacket, Reading
<1> DEFINE c == Len(outcome) + 1
<1>4. Reader(marks, rd, got, c)
  BY <1>1, <1>3 DEF ReadingSound
<1>5. Precedes(marks, Last(rd.msgs), port, as, at) /\ held = skipped \cup Received
  BY <1>1, <1>3 DEF ReadingSound
<1>6. /\ z \in ReadArgStream /\ z.msgs = rd.msgs /\ z.ct = rd.ct + 1 /\ z.n = Packets(rd)[rd.ct + 1].number /\ z.item = 0
  <2> HIDE DEF c
  <2>1. /\ rd \in ReadArgStream /\ rd.ct \in Nat
        /\ PacketsOK(marks[c], Packets(rd)) /\ rd.ct \in 1..Len(Packets(rd)) /\ Len(Packets(rd)) \in Nat
    BY <1>4, <1>2, ReaderIs
  <2>2. rd.ct + 1 \in 1..Len(Packets(rd))
    BY <1>3, <2>1
  <2>3. Packets(rd)[rd.ct + 1] \in PacketType
    BY <2>1, <2>2 DEF PacketsOK, PacketOK
  <2>4. Packets(rd)[rd.ct + 1].number \in Nat
    BY <2>3 DEF PacketType
  <2>5. /\ z.msgs = rd.msgs /\ z.ct = rd.ct + 1 /\ z.n = Packets(rd)[rd.ct + 1].number /\ z.item = 0
        /\ z = [msgs |-> rd.msgs, ct |-> rd.ct + 1, n |-> Packets(rd)[rd.ct + 1].number, item |-> 0]
    <3> DEFINE a == rd.ct + 1
               b == Packets(rd)[rd.ct + 1].number
    <3>1. z = [rd EXCEPT !.ct = a, !.n = b, !.item = 0]
      OBVIOUS
    <3> HIDE DEF a, b, z
    <3>9. rd \in ReadArgStream
      BY <2>1 DEF ReadArgStream
    <3>2. z = [msgs |-> rd.msgs, ct |-> a, n |-> b, item |-> 0]
      BY ZenonT(60), <3>9, <3>1, ReadFields
    <3>3. z.msgs = rd.msgs /\ z.ct = a /\ z.n = b /\ z.item = 0
      BY <3>2
    <3> QED
      BY <3>2, <3>3 DEF a, b
  <2> QED
    BY SMTT(30), <2>1, <2>4, <2>5 DEF ReadArgStream
<1> HIDE DEF z
<1>7. Reader(marks, z, got, c) /\ z.msgs = rd.msgs /\ z.item = 0
  <2> HIDE DEF c
  <2>1. rd.n = 0 /\ rd.ct < Len(Packets(rd))
    BY <1>3
  <2> QED
    BY <1>4, <1>6, <1>2, <2>1, NextPacketReads
<1>8. held = skipped \cup Mapped(z)
  BY <1>7, <1>5 DEF Received, Mapped
<1> QED
  BY <1>1, <1>3, <1>4, <1>7, <1>8, <1>5, ProceedStep

\* ... behind the last one, which is a block; ...
LEMMA ReadPastEndStep ==
  ASSUME StreamIInv, ReadPastEnd
  PROVE  StreamIInv'
<1>1. /\ Client(marks, port, as, at) /\ ReadingSound /\ Settled /\ MarksShaped(marks)
  BY DEF StreamIInv, Client
<1>2. /\ server = "reading" /\ rd.n = 0 /\ ~AtEnd(rd) /\ rd.ct = Len(Packets(rd)) /\ GoAstray(held)
      /\ UNCHANGED <<client, port>>
  BY DEF ReadPastEnd, Reading
<1> DEFINE c == Len(outcome) + 1
<1>3. Reader(marks, rd, got, c) /\ held = skipped \cup Received
  BY <1>1, <1>2 DEF ReadingSound
<1>4. ~Packet(rd).inLine
  BY <1>2 DEF AtEnd
<1>5. Shaped(marks[c], c) /\ PacketOK(marks[c], Packet(rd)) /\ Mark = marks[c]
  BY <1>1, <1>3, ReaderIs, MarkIs
<1>6. \E k \in 1..Len(Mark) : Block(Mark[k])
  BY <1>4, <1>5, PacketOfBlock DEF Block
<1>7. held \subseteq Structure
  BY <1>1, <1>3, MappedAre DEF Received, Mapped, Settled
<1> QED
  BY <1>1, <1>2, <1>3, <1>6, <1>7, AstrayStep DEF GoAstray

\* ... where the next message is too large for it; ...
LEMMA ReadTooLargeStep ==
  ASSUME StreamIInv, ReadTooLarge
  PROVE  StreamIInv'
<1>1. /\ Client(marks, port, as, at) /\ ReadingSound /\ Settled /\ MarksShaped(marks)
  BY DEF StreamIInv, Client
<1>2. /\ server = "reading" /\ TooLarge /\ GoAstray(held)
      /\ UNCHANGED <<client, port>>
  BY DEF ReadTooLarge, Reading
<1> DEFINE c == Len(outcome) + 1
<1>3. Reader(marks, rd, got, c) /\ held = skipped \cup Received
  BY <1>1, <1>2 DEF ReadingSound
<1>4. held \subseteq Structure
  BY <1>1, <1>3, MappedAre DEF Received, Mapped, Settled
<1>5. TooLarge'
  BY Zenon, <1>2 DEF TooLarge, GoAstray
<1> QED
  BY <1>1, <1>2, <1>3, <1>4, <1>5, AstrayStep DEF GoAstray

\* ... across the end of a packet, which only an array can lie; ...
LEMMA ReadMismatchStep ==
  ASSUME StreamIInv, ReadMismatch
  PROVE  StreamIInv' /\ Len(outcome) + 1 \in 1..Len(marks)
<1>1. /\ Client(marks, port, as, at) /\ ReadingSound /\ Settled /\ MarksShaped(marks)
  BY DEF StreamIInv, Client
<1>2. /\ server = "reading" /\ Len(got) < Len(Mark) /\ Need > rd.n /\ rd.n # 0
      /\ server' = "idle" /\ rd' = NoRead /\ got' = <<>>
      /\ held' = held \ Received /\ outcome' = Append(outcome, Dropped)
      /\ UNCHANGED <<client, port, skipped>>
  BY DEF ReadMismatch, Raise, Reading
<1> DEFINE c == Len(outcome) + 1
<1>3. Reader(marks, rd, got, c)
  BY <1>1, <1>2 DEF ReadingSound
<1>4. Mark = marks[c]
  BY <1>1, <1>3, MarkIs
<1>5. Shaped(marks[c], c) /\ ReadAt(marks[c], Packet(rd), rd.item, rd.n, got) /\ Len(got) \in Nat
  BY <1>1, <1>3, ReaderIs
<1>6. Len(marks[c][Len(got) + 1]) > 1
  <2>1. marks[c][Len(got) + 1][1].size * Len(marks[c][Len(got) + 1]) > rd.n
    BY <1>2, <1>4 DEF Need, Wanted
  <2> QED
    BY <1>2, <1>4, <1>5, <2>1, TakeShort
<1>7. Len(got) + 1 \in 1..Len(Mark)
  <2>1. Len(marks[c]) \in Nat
    BY <1>5 DEF Shaped
  <2> HIDE DEF c
  <2> QED
    BY <1>2, <1>4, <1>5, <2>1
<1>8. \E k \in 1..Len(Mark) : Array(Mark[k])
  BY <1>4, <1>6, <1>7 DEF Array
<1>9. c \in 1..Len(marks)
  BY <1>1, <1>3, ReaderIs
<1> QED
  BY <1>1, <1>2, <1>8, <1>9, RestStep

\* ... bm_mark with all that was packed; ...
LEMMA CarryOutStep ==
  ASSUME StreamIInv, CarryOut
  PROVE  /\ StreamIInv'
         /\ Len(outcome) + 1 \in 1..Len(marks) /\ got = marks[Len(outcome) + 1]
<1>1. /\ Client(marks, port, as, at) /\ ReadingSound /\ Settled /\ MarksShaped(marks)
  BY DEF StreamIInv, Client
<1>2. /\ server = "reading" /\ Len(got) = Len(Mark)
      /\ server' = "idle" /\ rd' = NoRead /\ got' = <<>>
      /\ held' = held \ Received /\ outcome' = Append(outcome, got)
      /\ UNCHANGED <<client, port, skipped>>
  BY DEF CarryOut
<1> DEFINE c == Len(outcome) + 1
<1>3. Reader(marks, rd, got, c)
  BY SMTT(30), <1>1, <1>2 DEF ReadingSound
<1>4. Mark = marks[c]
  BY <1>1, <1>3, MarkIs
<1>5. /\ Shaped(marks[c], c) /\ c \in 1..Len(marks)
      /\ got \in Seq(Seq(Structure)) /\ \A k \in 1..Len(got) : got[k] = marks[c][k]
  BY <1>1, <1>3, ReaderIs
<1> HIDE DEF c
<1>6. marks[c] \in Seq(Seq(Structure)) /\ Len(marks[c]) \in 1..MaxArgs + 1
  BY <1>5 DEF Shaped
<1>7. got = marks[c]
  BY <1>2, <1>4, <1>5, <1>6, SeqEqual
<1>8. got \in Marks
  <2>1. marks \in Seq(Marks)
    BY <1>1 DEF MarksShaped
  <2> QED
    BY <1>5, <1>7, <2>1, ElementOfSeq
<1>9. got # Dropped
  <2>1. Len(Dropped) = 0
    BY DEF Dropped
  <2>2. Len(got) # 0
    BY <1>6, <1>7
  <2> QED
    BY <2>1, <2>2
<1>10. StreamIInv'
  BY <1>1, <1>2, <1>8, <1>9, RestStep
<1> QED
  BY <1>5, <1>7, <1>10 DEF c

\* ... as_new_message; ...
LEMMA ReadNextMessageStep ==
  ASSUME StreamIInv, ReadNextMessage
  PROVE  StreamIInv'
<1> DEFINE h == Head(port)
           q == Tail(port)
           ms == Append(rd.msgs, h)
           r == Opened(ms)
           c == Len(outcome) + 1
<1>1. Client(marks, port, as, at) /\ ReadingSound /\ Settled
  BY DEF StreamIInv
<1>2. MarksShaped(marks)
  BY <1>1 DEF Client
<1>3. /\ Reading /\ server = "reading" /\ AtEnd(rd) /\ port # <<>> /\ ~h.first /\ port' = q
      /\ Proceed(r, held \cup Blocks(h)) /\ UNCHANGED client
  BY DEF ReadNextMessage, Reading
<1>4. Reader(marks, rd, got, c)
  BY <1>1, <1>3 DEF ReadingSound
<1>5. Precedes(marks, Last(rd.msgs), port, as, at) /\ held = skipped \cup Received
  BY <1>1, <1>3 DEF ReadingSound
<1>6. Packet(rd).inLine /\ rd.n = 0 /\ rd.ct = Len(Packets(rd))
  BY <1>3 DEF AtEnd
<1>7. /\ Client(marks, q, as, at) /\ MessageOK(marks, h)
      /\ Sending(port, as) # <<>> /\ Sending(port, as)[1] = h
      /\ Precedes(marks, h, q, as, at)
  BY <1>1, <1>3, TailIs
<1>8. MessageOK(marks, h)
  BY <1>7
<1>9. Linked(marks, Last(rd.msgs), h)
  BY <1>7, <1>5 DEF Precedes
<1>10. /\ Shaped(marks[c], c) /\ c \in 1..Len(marks) /\ rd.msgs \in Seq(Message) /\ MarkAt(Last(rd.msgs)) = c
      /\ ReadAt(marks[c], Packet(rd), rd.item, rd.n, got)
      /\ got \in Seq(Seq(Structure)) /\ Len(got) <= Len(marks[c]) /\ \A k \in 1..Len(got) : got[k] = marks[c][k]
  BY <1>4, <1>2, ReaderIs
<1>11. \A i \in 1..Len(rd.msgs) : MessageOK(marks, rd.msgs[i]) /\ MarkAt(rd.msgs[i]) = c
  BY SMTT(30), <1>4 DEF Reader
<1> HIDE DEF h, q, c
<1>12. MarkAt(h) = c /\ Follows(marks[c], Last(Packet(rd).data), StartOf(h.packets))
  BY Zenon, <1>3, <1>6, <1>9, <1>10 DEF Linked, EndOf, Packet, Packets, Last
<1>13. StartOf(h.packets).arg = Len(got) + 1 /\ StartOf(h.packets).item = 1
  BY <1>6, <1>10, <1>12, AfterPacket
<1>14. h \in Message
  BY <1>8 DEF MessageOK
<1>15. /\ ms \in Seq(Message) /\ ms # <<>> /\ Last(ms) = h /\ Len(ms) = Len(rd.msgs) + 1 /\ Len(rd.msgs) \in Nat
       /\ ms[Len(rd.msgs) + 1] = h /\ \A i \in 1..Len(rd.msgs) : ms[i] = rd.msgs[i]
  BY SMTT(30), <1>10, <1>14, AppendIs
<1>16. \A i \in 1..Len(ms) : i \in 1..Len(rd.msgs) \/ i = Len(rd.msgs) + 1
  BY <1>15
<1> HIDE DEF ms
<1>17. \A i \in 1..Len(ms) : MessageOK(marks, ms[i]) /\ MarkAt(ms[i]) = c
  BY SMTT(30), <1>11, <1>12, <1>15, <1>16, <1>8
<1>18. Reader(marks, r, got, c) /\ r.msgs = ms /\ r.item = 0
  <2>1. ms \in Seq(Message) /\ ms # <<>> /\ c \in 1..Len(marks)
    BY <1>10, <1>15
  <2>2. got \in Seq(Seq(Structure)) /\ Len(got) <= Len(marks[c]) /\ \A k \in 1..Len(got) : got[k] = marks[c][k]
    BY <1>10
  <2>3. StartOf(Last(ms).packets).arg = Len(got) + 1 /\ StartOf(Last(ms).packets).item = 1
    BY <1>13, <1>15
  <2> QED
    BY <1>17, <1>2, <2>1, <2>2, <2>3, OpenedReads
<1> HIDE DEF r
<1>19. Mapped(r) = Received \cup Blocks(h)
  <2>1. \A i \in 1..Len(rd.msgs) : i \in 1..Len(ms) /\ Blocks(ms[i]) = Blocks(rd.msgs[i])
    BY <1>15
  <2>2. Len(rd.msgs) + 1 \in 1..Len(ms) /\ Blocks(ms[Len(rd.msgs) + 1]) = Blocks(h)
    BY <1>15
  <2>3. \A i \in 1..Len(ms) : Blocks(ms[i]) = Blocks(h) \/ (i \in 1..Len(rd.msgs) /\ Blocks(ms[i]) = Blocks(rd.msgs[i]))
    BY <1>15, <1>16
  <2> QED
    BY <1>18, <2>1, <2>2, <2>3 DEF Mapped, Received
<1>20. held \cup Blocks(h) = skipped \cup Mapped(r)
  BY <1>19, <1>5
<1>21. Precedes(marks, Last(r.msgs), port', as, at) /\ Client(marks, port', as, at)
  BY <1>3, <1>7, <1>15, <1>18
<1>22. c = Len(outcome) + 1
  BY DEF c
<1> QED
  BY <1>1, <1>3, <1>4, <1>18, <1>20, <1>21, <1>22, ProceedStep

\* ... main, with the first message of a mark; ...
LEMMA ReceiveFirstStep ==
  ASSUME StreamIInv, ReceiveFirst
  PROVE  StreamIInv'
<1> DEFINE h == Head(port)
           q == Tail(port)
           r == Opened(<<h>>)
           c == Len(outcome) + 1
<1>1. /\ Client(marks, port, as, at) /\ IdleSound /\ Settled /\ MarksShaped(marks)
  BY DEF StreamIInv, Client
<1>2. /\ server = "idle" /\ port # <<>> /\ h.first /\ port' = q
      /\ held' = held \cup Blocks(h) /\ server' = "reading" /\ rd' = r /\ got' = <<>>
      /\ UNCHANGED <<client, outcome, skipped>>
  BY DEF ReceiveFirst
<1>3. held = skipped /\ Expects(marks, Len(outcome), port, as, at)
  BY <1>1, <1>2 DEF IdleSound
<1>4. /\ Client(marks, q, as, at) /\ MessageOK(marks, h)
      /\ Sending(port, as) # <<>> /\ Sending(port, as)[1] = h
      /\ Precedes(marks, h, q, as, at)
  BY <1>1, <1>2, TailIs
<1>5. MarkAt(h) = c
  BY <1>2, <1>3, <1>4 DEF Expects
<1>6. StartOf(h.packets).arg = 1 /\ StartOf(h.packets).item = 1 /\ h \in Message /\ c \in 1..Len(marks)
  BY <1>2, <1>4, <1>5 DEF MessageOK
<1>7. <<h>> \in Seq(Message) /\ Len(<<h>>) = 1 /\ <<h>>[1] = h /\ <<h>> # <<>> /\ Last(<<h>>) = h
  BY <1>6 DEF Last
<1>8. Len(marks[c]) \in Nat
  BY <1>1, <1>6 DEF MarksShaped, Shaped
<1> HIDE DEF h, q, c
<1>9. \A i \in 1..Len(<<h>>) : MessageOK(marks, <<h>>[i]) /\ MarkAt(<<h>>[i]) = c
  BY <1>4, <1>5, <1>7
<1> DEFINE w == <<>>
<1>10. w \in Seq(Seq(Structure)) /\ Len(w) = 0 /\ Len(w) <= Len(marks[c]) /\ \A k \in 1..Len(w) : w[k] = marks[c][k]
  BY <1>8
<1>11. StartOf(Last(<<h>>).packets).arg = Len(w) + 1 /\ StartOf(Last(<<h>>).packets).item = 1
  BY <1>6, <1>7, <1>10
<1> HIDE DEF w
<1>12. Reader(marks, r, w, c) /\ r.msgs = <<h>>
  BY <1>1, <1>6, <1>7, <1>9, <1>10, <1>11, OpenedReads
<1> HIDE DEF r
<1>13. Received' = Blocks(h)
  BY <1>2, <1>7, <1>12 DEF Received, Blocks
<1>14. ReadingSound'
  BY <1>2, <1>3, <1>4, <1>7, <1>12, <1>13 DEF ReadingSound, client, c, w
<1>15. IdleSound' /\ AstraySound'
  BY <1>2 DEF IdleSound, AstraySound
<1>16. Settled'
  BY <1>1, <1>2 DEF Settled, client, Array
<1> QED
  BY <1>2, <1>4, <1>14, <1>15, <1>16, ServerStep

\* ... and with the rest of one that was dropped.
LEMMA SkipStep ==
  ASSUME StreamIInv, Skip
  PROVE  StreamIInv'
<1> DEFINE h == Head(port)
           q == Tail(port)
<1>1. /\ Client(marks, port, as, at) /\ IdleSound /\ Settled /\ MarksShaped(marks)
  BY DEF StreamIInv, Client
<1>2. /\ server = "idle" /\ port # <<>> /\ ~h.first /\ port' = q
      /\ held' = held \cup Blocks(h) /\ skipped' = skipped \cup Blocks(h)
      /\ UNCHANGED <<client, server, rd, got, outcome>>
  BY DEF Skip
<1>3. rd = NoRead /\ got = <<>> /\ held = skipped /\ Expects(marks, Len(outcome), port, as, at)
  BY <1>1, <1>2 DEF IdleSound
<1>4. /\ Client(marks, q, as, at) /\ MessageOK(marks, h)
      /\ Sending(port, as) # <<>> /\ Sending(port, as)[1] = h
      /\ Precedes(marks, h, q, as, at)
  BY <1>1, <1>2, TailIs
<1> HIDE DEF h, q
<1>5. MarkAt(h) = Len(outcome)
  BY <1>2, <1>3, <1>4 DEF Expects
<1>6. Expects(marks, Len(outcome), q, as, at)
  BY <1>4, <1>5, PrecedesExpects
<1>7. Blocks(h) \subseteq Structure /\ \A s \in Blocks(h) : s.mark = Len(outcome)
  BY <1>1, <1>4, <1>5, BlocksAre
<1>8. IdleSound'
  BY <1>2, <1>3, <1>6 DEF IdleSound, client, NoRead
<1>9. ReadingSound' /\ AstraySound'
  BY <1>2 DEF ReadingSound, AstraySound
<1>10. Settled'
  <2>1. Len(outcome) \in Nat
    BY <1>1, LenProperties DEF Settled
  <2>2. \A s \in skipped' : s.mark <= Len(outcome)
    BY <1>1, <1>2, <1>7, <2>1 DEF Settled
  <2> QED
    BY <1>1, <1>2, <1>7, <2>2 DEF Settled, client, Array
<1> QED
  BY <1>2, <1>4, <1>8, <1>9, <1>10, ServerStep

\* The inductive invariant holds at the start, ...
LEMMA StreamIInvInit == Init => StreamIInv
<1> SUFFICES ASSUME Init PROVE StreamIInv
  OBVIOUS
<1> DEFINE e == <<>>
<1>1. /\ marks = e /\ at = Done /\ as = Fresh /\ port = e /\ server = "idle" /\ rd = NoRead /\ got = e
      /\ outcome = e /\ held = {} /\ skipped = {}
  BY DEF Init
<1>2. /\ e \in Seq(Marks) /\ e \in Seq(Message) /\ e \in Seq(Marks \cup {Dropped}) /\ Len(e) = 0 /\ MaxMarks \in Nat
  BY EmptySeq, SizesPositive
<1> HIDE DEF e
<1>3. MarksShaped(e)
  BY <1>2 DEF MarksShaped
<1>4. Sending(e, Fresh) = e
  BY FreshOK DEF Sending
<1>5. e = <<>>
  BY DEF e
<1>6. Stream(e, e)
  BY <1>2 DEF Stream
<1>7. WriteAt(e, Done)
  BY SizesPositive DEF WriteAt, Done
<1>8. Client(e, e, Fresh, Done)
  BY <1>2, <1>3, <1>4, <1>5, <1>6, <1>7, FreshOK DEF Client
<1>9. Expects(e, 0, e, Fresh, Done)
  <2>1. Before(e, Done) = 0
    BY <1>2, StartIs DEF Before
  <2> QED
    BY <1>4, <1>5, <2>1 DEF Expects
<1>10. IdleSound
  BY <1>1, <1>2, <1>5, <1>9 DEF IdleSound
<1>11. ReadingSound /\ AstraySound
  BY <1>1 DEF ReadingSound, AstraySound
<1>12. Settled
  BY SMTT(30), <1>1, <1>2 DEF Settled
<1> QED
  BY <1>1, <1>8, <1>10, <1>11, <1>12 DEF StreamIInv

\* ... is kept by every step, ...
LEMMA StreamStutters == StreamIInv /\ UNCHANGED vars => StreamIInv'
BY Zenon DEF vars, client, StreamIInv, ReadingSound, IdleSound, AstraySound, TooLarge, Settled, Received, Mark, Array, Block

LEMMA StreamIInvStep == StreamIInv /\ [Next]_vars => StreamIInv'
<1> SUFFICES ASSUME StreamIInv, [Next]_vars PROVE StreamIInv'
  OBVIOUS
<1>1. CASE NDMark
  BY <1>1, MakeStep
<1>2. CASE Write
  BY <1>2, WriteStep
<1>3. CASE Finish
  BY <1>3, FinishStep
<1>4. CASE ReceiveFirst
  BY <1>4, ReceiveFirstStep
<1>5. CASE Skip
  BY <1>5, SkipStep
<1>6. CASE ReadOn
  BY <1>6, ReadOnStep
<1>7. CASE ReadNextPacket
  BY <1>7, ReadNextPacketStep
<1>8. CASE ReadPastEnd
  BY <1>8, ReadPastEndStep
<1>9. CASE ReadNextMessage
  BY <1>9, ReadNextMessageStep
<1>13. CASE ReadTooLarge
  BY <1>13, ReadTooLargeStep
<1>10. CASE ReadMismatch
  BY <1>10, ReadMismatchStep
<1>11. CASE CarryOut
  BY <1>11, CarryOutStep
<1>12. CASE UNCHANGED vars
  BY <1>12, StreamStutters
<1> QED
  BY <1>1, <1>2, <1>3, <1>4, <1>5, <1>6, <1>7, <1>8, <1>9, <1>10, <1>11, <1>12, <1>13 DEF Next, Server

\* ... gives the properties, ...
LEMMA BufferIs ==
  ASSUME NEW a, BufferOK(a)
  PROVE  /\ {a.p, a.n, a.ct} \subseteq Nat /\ a.ct <= a.p /\ a.open \in Seq(Structure) /\ a.first \in BOOLEAN
         /\ a.p <= BufferSize /\ a.n = BufferSize - a.p
BY DEF BufferOK, StreamType

LEMMA StreamIInvSound == StreamIInv => StreamSound /\ PlainMarksSurvive
<1> SUFFICES ASSUME StreamIInv PROVE StreamSound /\ PlainMarksSurvive
  OBVIOUS
<1>1. /\ server \in {"idle", "reading", "astray"} /\ Client(marks, port, as, at)
      /\ ReadingSound /\ IdleSound /\ AstraySound /\ Settled
  BY DEF StreamIInv
<1>2. /\ MarksShaped(marks) /\ marks \in Seq(Marks) /\ Len(marks) <= MaxMarks /\ port \in Seq(Message)
      /\ BufferOK(as) /\ at \in [group : 0..MaxArgs+2, item : Nat]
  BY <1>1 DEF Client, MarksShaped, WriteAt
<1>3. /\ outcome \in Seq(Marks \cup {Dropped}) /\ skipped \subseteq Structure
      /\ \A i \in 1..Len(outcome) :
           outcome[i] = Dropped => \E k \in 1..Len(marks[i]) : Array(marks[i][k])
  BY <1>1 DEF Settled
<1>4. /\ rd \in ReadArgStream /\ got \in Seq(Seq(Structure)) /\ held \subseteq Structure
  <2>1. CASE server = "idle"
    <3>1. rd = NoRead /\ got = <<>> /\ held = skipped
      BY <1>1, <2>1 DEF IdleSound
    <3>2. NoRead \in ReadArgStream
      <4>1. <<>> \in Seq(Message) /\ 0 \in Nat
        BY EmptySeq
      <4> QED
        BY <4>1 DEF NoRead, ReadArgStream
    <3> QED
      BY <1>3, <3>1, <3>2, EmptySeq
  <2>2. CASE server = "reading"
    <3>1. Reader(marks, rd, got, Len(outcome) + 1) /\ held = skipped \cup Mapped(rd)
      BY SMTT(30), <1>1, <2>2 DEF ReadingSound, Received, Mapped
    <3> QED
      BY <1>2, <1>3, <3>1, ReaderIs, MappedAre
  <2>3. CASE server = "astray"
    BY <1>1, <2>3 DEF AstraySound
  <2> QED
    BY <1>1, <2>1, <2>2, <2>3
<1>5. rd.msgs \in Seq(Message) /\ {rd.ct, rd.n, rd.item} \subseteq Nat
  BY <1>4 DEF ReadArgStream
<1>6. /\ {as.p, as.n, as.ct} \subseteq Nat /\ as.ct <= as.p /\ as.open \in Seq(Structure) /\ as.first \in BOOLEAN
      /\ as.p <= BufferSize /\ as.n = BufferSize - as.p
  BY <1>2, BufferIs
<1>7. TypeOK
  BY <1>1, <1>2, <1>3, <1>4, <1>5, <1>6 DEF TypeOK
<1>8. BufferKept
  BY <1>6 DEF BufferKept
<1>9. OnlySkippedStay
  BY <1>1 DEF OnlySkippedStay, IdleSound
<1>10. PlainMarksSurvive
  BY <1>1, <1>3 DEF PlainMarksSurvive, AstraySound
<1> QED
  BY <1>7, <1>8, <1>9, <1>10 DEF StreamSound

\* ... and holds throughout.
LEMMA StreamIInvCorrect == Spec => []StreamIInv
<1>1. Init => StreamIInv
  BY StreamIInvInit
<1>2. StreamIInv /\ [Next]_vars => StreamIInv'
  BY StreamIInvStep
<1> QED
  BY <1>1, <1>2, PTL DEF Spec

\* For every choice of arguments and a buffer of any size that has room for a
\* block: as_write stays inside the buffer, its pointer and its count agree, and
\* when the server rests, having gone astray in no mark, only blocks of messages
\* it skipped are mapped (as_write, as_flushmsg, as_read, as_destroyRead, MarkExceptionCleanup).
THEOREM StreamCorrect == Spec => []StreamSound
<1>1. StreamIInv => StreamSound
  BY StreamIInvSound
<1> QED
  BY <1>1, StreamIInvCorrect, PTL

\* A mark is dropped only if it has an array, and the server goes astray only in
\* a mark with an array or a block, or before a message larger than the mark's
\* first, whatever the marks and the buffer (as_read, as_new_message, msg_receive).
THEOREM PlainMarksSurviveCorrect == Spec => []PlainMarksSurvive
<1>1. StreamIInv => PlainMarksSurvive
  BY StreamIInvSound
<1> QED
  BY <1>1, StreamIInvCorrect, PTL

\* Every step is a step of the abstract channel, or none of it.
LEMMA ChannelInit == Init => Channel!Init
BY DEF Init, Channel!Init

LEMMA ChannelStep == StreamIInv /\ [Next]_vars => [Channel!Next]_Channel!vars
<1> SUFFICES ASSUME StreamIInv, [Next]_vars PROVE [Channel!Next]_Channel!vars
  OBVIOUS
<1>1. UNCHANGED <<marks, outcome>> => [Channel!Next]_Channel!vars
  BY DEF Channel!vars
<1>2. CASE NDMark
  <2>1. PICK args \in Args : marks' = Append(marks, MarkOf(Len(marks) + 1, args))
    BY <1>2 DEF NDMark
  <2>2. Len(marks) < MaxMarks /\ UNCHANGED outcome
    BY <1>2 DEF NDMark
  <2>3. Len(marks) \in Nat /\ MaxMarks \in Nat
    <3>1. marks \in Seq(Marks)
      BY DEF StreamIInv, Client, MarksShaped
    <3> QED
      BY <3>1, LenProperties, SizesPositive
  <2>4. Len(marks) + 1 \in 1..MaxMarks
    BY <2>2, <2>3
  <2>5. MarkOf(Len(marks) + 1, args) \in Marks
    BY <2>4, MarksAreShaped
  <2>6. Channel!Make
    BY <2>1, <2>2, <2>5 DEF Channel!Make
  <2> QED
    BY <2>6 DEF Channel!Next
<1>3. CASE Write \/ Finish
  BY <1>1, <1>3 DEF Write, Finish
<1>4. CASE ReceiveFirst \/ Skip \/ ReadOn
  BY <1>1, <1>4 DEF ReceiveFirst, Skip, ReadOn, client
<1>5. CASE ReadNextPacket \/ ReadPastEnd \/ ReadNextMessage \/ ReadTooLarge
  BY <1>1, <1>5 DEF ReadNextPacket, ReadPastEnd, ReadNextMessage, ReadTooLarge, Proceed, GoAstray, client
<1>6. CASE ReadMismatch
  <2>1. Len(outcome) + 1 \in 1..Len(marks)
    BY <1>6, ReadMismatchStep
  <2>2. outcome' = Append(outcome, Dropped) /\ UNCHANGED marks
    BY <1>6 DEF ReadMismatch, Raise, client
  <2>3. Len(outcome) < Len(marks)
    <3>1. outcome \in Seq(Marks \cup {Dropped}) /\ marks \in Seq(Marks)
      BY DEF StreamIInv, Settled, Client, MarksShaped
    <3>2. Len(outcome) \in Nat /\ Len(marks) \in Nat
      BY <3>1, LenProperties
    <3> QED
      BY <2>1, <3>2
  <2> QED
    BY <2>2, <2>3 DEF Channel!Next, Channel!Settle
<1>7. CASE CarryOut
  <2>1. Len(outcome) + 1 \in 1..Len(marks) /\ got = marks[Len(outcome) + 1]
    BY <1>7, CarryOutStep
  <2>2. outcome' = Append(outcome, got) /\ UNCHANGED marks
    BY <1>7 DEF CarryOut, client
  <2>3. Len(outcome) < Len(marks)
    <3>1. outcome \in Seq(Marks \cup {Dropped}) /\ marks \in Seq(Marks)
      BY DEF StreamIInv, Settled, Client, MarksShaped
    <3>2. Len(outcome) \in Nat /\ Len(marks) \in Nat
      BY <3>1, LenProperties
    <3> QED
      BY <2>1, <3>2
  <2> QED
    BY <2>1, <2>2, <2>3 DEF Channel!Next, Channel!Settle
<1>8. CASE UNCHANGED vars
  BY <1>1, <1>8 DEF vars, client
<1> QED
  BY <1>2, <1>3, <1>4, <1>5, <1>6, <1>7, <1>8 DEF Next, Server

\* Marks are carried out with the very arguments they were made with, in their
\* order and once each, or are dropped (as_write, as_flushmsg, as_read,
\* ps_rbm_mark, os_raise's handler), as long as the server has not gone astray:
\* of what it does then nothing is said.
THEOREM ArgStreamImplementsChannel == Spec => ImplementsChannel
<1>1. Init => Channel!Init
  BY ChannelInit
<1>2. StreamIInv /\ [Next]_vars => [Channel!Next]_Channel!vars
  BY ChannelStep
<1> QED
  BY <1>1, <1>2, StreamIInvCorrect, PTL DEF Spec, ImplementsChannel, Channel!Spec
=============================================================================
