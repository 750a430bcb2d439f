----------------------------- MODULE ArgStream ------------------------------
(***************************************************************************)
(* The argument streams that carry the marks of the window server to the   *)
(* PostScript server on the board (argstream.c, markpack.c): the arguments *)
(* are packed into messages, small ones inline, large ones as out-of-line  *)
(* packets, and unpacked by reads of the same sizes in the same order.  An *)
(* array of structures is written one structure at a time and read with    *)
(* one call.  Messages keep their order on their way.  The reader expects  *)
(* messages as large as the mark's first.  Sizes are in words; everything  *)
(* that is written is a whole number of words.                             *)
(***************************************************************************)
EXTENDS Integers, Sequences, FiniteSets, SequencesExt

CONSTANTS Groups,         \* arguments: [size: of one structure, count: structures]
          BufferSize,     \* AS_BUFFERSIZE
          TypeSize,       \* sizeof(msg_type_long_t)
          PtrSize,        \* sizeof(char *)
          RequestSize,    \* sizeof(MarkRequest), with which every mark begins
          MaxArgs,        \* bound: arguments of all marks after their requests
          MaxMarks        \* bound: marks made

OobSize == 2 * TypeSize + PtrSize       \* sizeof(OOCharsDataTemplate)
Threshold == BufferSize \div 2          \* AS_INLINE_THRESHOLD

\* Structures go inline; only single blocks may be large.
ASSUME ArgStreamAssumption ==
  /\ {TypeSize, PtrSize, RequestSize} \subseteq Nat \ {0}
  /\ BufferSize \in Nat /\ RequestSize <= Threshold /\ OobSize <= Threshold
  /\ MaxArgs \in Nat /\ MaxMarks \in Nat
  /\ \A g \in Groups : /\ g.size \in Nat \ {0} /\ g.count \in Nat \ {0}
                       /\ g.count > 1 => g.size <= Threshold

VARIABLES marks,          \* the marks made, each with all its structures
          at,             \* what the client writes next: [group, item]
          as,             \* the WriteArgStream of the mark being made
          port,           \* messages on their way to the server's port, and those
                          \* the kernel has queued there (NDMessages)
          server,         \* "idle", "reading", or "astray" in memory that is
                          \* no part of the message, where it is not followed
          rd,             \* the ReadArgStream
          got,            \* what as_read has returned for this mark
          outcome,        \* the marks settled, as they were carried out
          held,           \* out-of-line blocks mapped on the board
          skipped         \* those of messages that main skipped

client == <<marks, at, as>>
vars == <<client, port, server, rd, got, outcome, held, skipped>>

Dropped == <<>>                          \* for a mark that is dropped

Group(number, k, g) == [j \in 1..g.count |-> [mark |-> number, arg |-> k, item |-> j, size |-> g.size]]
Args == UNION {[1..n -> Groups] : n \in 0..MaxArgs}
Request == [size |-> RequestSize, count |-> 1]
MarkOf(number, args) == [k \in 1..Len(args)+1 |->
                           Group(number, k, IF k = 1 THEN Request ELSE args[k - 1])]
Marks == UNION {{MarkOf(number, args) : args \in Args} : number \in 1..MaxMarks}

Done == [group |-> 0, item |-> 0]        \* no mark is being made
Fresh == [p |-> 0, n |-> BufferSize, ct |-> 0, open |-> <<>>, packets |-> <<>>, first |-> TRUE]
NoRead == [msgs |-> <<>>, ct |-> 0, n |-> 0, item |-> 0]

Structure == [mark : 1..MaxMarks, arg : 1..MaxArgs+1, item : Nat \ {0},
              size : {g.size : g \in Groups \cup {Request}}]
Message == [first : BOOLEAN, size : Int,
            packets : Seq([inLine : BOOLEAN, number : Nat \ {0}, data : Seq(Structure)])]

TypeOK == /\ marks \in Seq(Marks) /\ Len(marks) <= MaxMarks
          /\ at \in [group : 0..MaxArgs+2, item : Nat]
          /\ {as.p, as.n, as.ct} \subseteq Nat /\ as.ct <= as.p
          /\ as.open \in Seq(Structure) /\ as.first \in BOOLEAN
          /\ port \in Seq(Message) /\ rd.msgs \in Seq(Message)
          /\ server \in {"idle", "reading", "astray"} /\ {rd.ct, rd.n, rd.item} \subseteq Nat
          /\ got \in Seq(Seq(Structure)) /\ outcome \in Seq(Marks \cup {Dropped})
          /\ held \subseteq Structure /\ skipped \subseteq Structure

Init == /\ marks = <<>> /\ at = Done /\ as = Fresh
        /\ port = <<>> /\ server = "idle" /\ rd = NoRead /\ got = <<>>
        /\ outcome = <<>> /\ held = {} /\ skipped = {}

----------------------------------------------------------------------------
(* The client: RBMMark.                                                    *)

\* p counts from msg.buffer; ct is where the data of the open inline packet
\* begins.
Inline(a) == [inLine |-> TRUE, number |-> a.p - a.ct, data |-> a.open]
OutOfLine(s) == [inLine |-> FALSE, number |-> s.size, data |-> <<s>>]

\* msg_size, less what every message has; an empty last packet is taken off.
MsgSize(a) == IF a.p = a.ct THEN a.p - TypeSize ELSE a.p

\* as_flushmsg.
FlushedStream(a) == IF a.p = 0 THEN a ELSE [Fresh EXCEPT !.first = FALSE]
FlushedPort(a) ==
  IF a.p = 0 THEN port
  ELSE Append(port, [first |-> a.first, size |-> MsgSize(a),
                     packets |-> IF a.p = a.ct THEN a.packets ELSE Append(a.packets, Inline(a))])

\* as_write of structure s into stream a, inline.
PutInline(a, s) == [a EXCEPT !.p = @ + s.size, !.n = @ - s.size, !.open = Append(@, s)]

\* Mistake: the space regained by writing over an empty packet is counted twice.
PutOutOfLineTwice(a, s) ==
  LET b == IF a.p = a.ct THEN [a EXCEPT !.p = @ - TypeSize, !.n = @ + 2 * TypeSize]
           ELSE [a EXCEPT !.packets = Append(@, Inline(a))]
  IN [b EXCEPT !.p = @ + OobSize, !.n = @ - OobSize, !.ct = b.p + OobSize,
               !.open = <<>>, !.packets = Append(@, OutOfLine(s))]

\* as_write out of line: over the open packet if that is empty.
PutOutOfLine(a, s) ==
  LET b == IF a.p = a.ct THEN [a EXCEPT !.p = @ - TypeSize, !.n = @ + TypeSize]
           ELSE [a EXCEPT !.packets = Append(@, Inline(a))]
  IN [b EXCEPT !.p = @ + OobSize, !.n = @ - OobSize, !.ct = b.p + OobSize,
               !.open = <<>>, !.packets = Append(@, OutOfLine(s))]

ArgsMade == FoldLeft(LAMBDA n, m : n + Len(m) - 1, 0, marks)

NDMark == /\ at = Done /\ Len(marks) < MaxMarks
          /\ \E args \in Args : /\ Len(args) <= MaxArgs - ArgsMade
                              /\ marks' = Append(marks, MarkOf(Len(marks) + 1, args))
          /\ as' = Fresh
          /\ at' = [group |-> 1, item |-> 1]
          /\ UNCHANGED <<port, server, rd, got, outcome, held, skipped>>

\* There is no room for structure s.
FlushFirst(s) == as.n < (IF s.size <= Threshold THEN s.size ELSE OobSize)

Write ==
  LET m == Last(marks)
      s == m[at.group][at.item]
      a == IF FlushFirst(s) THEN FlushedStream(as) ELSE as
  IN /\ at # Done /\ at.group <= Len(m)
     /\ port' = IF FlushFirst(s) THEN FlushedPort(as) ELSE port
     /\ as' = IF s.size <= Threshold THEN PutInline(a, s) ELSE PutOutOfLine(a, s)
     /\ at' = IF at.item < Len(m[at.group]) THEN [at EXCEPT !.item = @ + 1]
              ELSE [group |-> at.group + 1, item |-> 1]
     /\ UNCHANGED <<marks, server, rd, got, outcome, held, skipped>>

\* Mistake: what is left in the buffer is not sent.
FinishUnflushed == /\ at # Done /\ at.group > Len(Last(marks))
                   /\ at' = Done /\ as' = Fresh
                   /\ UNCHANGED <<marks, port, server, rd, got, outcome, held, skipped>>

Finish == /\ at # Done /\ at.group > Len(Last(marks))
          /\ port' = FlushedPort(as)
          /\ at' = Done /\ as' = Fresh
          /\ UNCHANGED <<marks, server, rd, got, outcome, held, skipped>>

----------------------------------------------------------------------------
(* The server: the loop of main, ps_rbm_mark and as_read.                  *)

Blocks(msg) == {msg.packets[i].data[1] : i \in {j \in 1..Len(msg.packets) : ~msg.packets[j].inLine}}
Received == UNION {Blocks(rd.msgs[i]) : i \in 1..Len(rd.msgs)}

\* as_newRead and as_new_message: at the first packet of a message.
Opened(msgs) == [msgs |-> msgs, ct |-> 1, n |-> Last(msgs).packets[1].number, item |-> 0]

\* main receives the first message of a mark, or skips one that continues a
\* mark that was dropped, whose blocks it keeps.
ReceiveFirst == /\ server = "idle" /\ port # <<>> /\ Head(port).first
                /\ port' = Tail(port)
                /\ held' = held \cup Blocks(Head(port))
                /\ server' = "reading" /\ rd' = Opened(<<Head(port)>>)
                /\ got' = <<>>
                /\ UNCHANGED <<client, outcome, skipped>>

Skip == /\ server = "idle" /\ port # <<>> /\ ~Head(port).first
        /\ port' = Tail(port)
        /\ held' = held \cup Blocks(Head(port))
        /\ skipped' = skipped \cup Blocks(Head(port))
        /\ UNCHANGED <<client, server, rd, got, outcome>>

\* The mark that is being read, and its next argument: what was read before
\* tells how long it is.
Mark == marks[rd.msgs[1].packets[1].data[1].mark]
Wanted == Mark[Len(got) + 1]
Need == Wanted[1].size * Len(Wanted)

Packets(r) == Last(r.msgs).packets
Packet(r) == Packets(r)[r.ct]

\* What is left of an out-of-line packet is not counted in p, so that after
\* one the end of the message is not seen.
AtEnd(r) == Packet(r).inLine /\ r.n = 0 /\ r.ct = Len(Packets(r))

\* Mistake: an out-of-line packet is not marked as read.
TakeAgain(r) ==
  /\ got' = Append(got, SubSeq(Packet(r).data, r.item + 1, r.item + Len(Wanted)))
  /\ rd' = IF Packet(r).inLine THEN [r EXCEPT !.n = @ - Need, !.item = @ + Len(Wanted)] ELSE r

\* What the read returns, and the stream after it; an array takes as many
\* structures as it has, a block one.
TakeFrom(r) ==
  LET count == Len(Wanted)
  IN /\ got' = Append(got, SubSeq(Packet(r).data, r.item + 1, r.item + count))
     /\ rd' = [r EXCEPT !.n = @ - Need, !.item = @ + count]

\* Mistake: the handler does not know about the stream.
RaiseForgets == /\ server' = "idle" /\ rd' = NoRead /\ got' = <<>>
                /\ outcome' = Append(outcome, Dropped)
                /\ UNCHANGED <<held, skipped>>

\* os_raise: main's handler destroys the stream, and with it the blocks of the
\* messages it has received.
Raise == /\ server' = "idle" /\ rd' = NoRead /\ got' = <<>>
         /\ held' = held \ Received
         /\ outcome' = Append(outcome, Dropped)
         /\ UNCHANGED skipped

\* as_read's two other errors, a block of another size than is asked for and a
\* message that does not continue the stream, have no step here: a run that met
\* one would stop, and EveryMarkSettled shows that none does.
Whole(r) == IF Packet(r).inLine THEN Need <= r.n ELSE Need = r.n

\* From here on as_read uses what is no part of a message.
GoAstray(blocks) == /\ server' = "astray" /\ held' = blocks
                    /\ UNCHANGED <<rd, got, outcome, skipped>>

\* as_read at the start of packet r; inline it does not look whether all is there.
Proceed(r, blocks) ==
  \/ /\ Whole(r)
     /\ TakeFrom(r)
     /\ held' = blocks
     /\ UNCHANGED <<server, outcome, skipped>>
  \/ /\ Packet(r).inLine /\ ~Whole(r)
     /\ GoAstray(blocks)

Reading == server = "reading" /\ Len(got) < Len(Mark)

\* Enough left in the current packet.
ReadOn == /\ Reading /\ Need <= rd.n /\ Whole(rd)
          /\ TakeFrom(rd)
          /\ UNCHANGED <<client, port, server, outcome, held, skipped>>

ReadNextPacket ==
  /\ Reading /\ Need > rd.n /\ rd.n = 0 /\ ~AtEnd(rd) /\ rd.ct < Len(Packets(rd))
  /\ Proceed([rd EXCEPT !.ct = @ + 1, !.n = Packets(rd)[rd.ct + 1].number, !.item = 0], held)
  /\ UNCHANGED <<client, port>>

\* The message has no packet after its last block.
ReadPastEnd ==
  /\ Reading /\ Need > rd.n /\ rd.n = 0 /\ ~AtEnd(rd) /\ rd.ct = Len(Packets(rd))
  /\ GoAstray(held)
  /\ UNCHANGED <<client, port>>

\* Mistake: the count of the words left is not set anew.
ReadNextMessageStale ==
  /\ Reading /\ Need > rd.n /\ AtEnd(rd)
  /\ port # <<>> /\ ~Head(port).first
  /\ port' = Tail(port)
  /\ Proceed([Opened(Append(rd.msgs, Head(port))) EXCEPT !.n = rd.n],
             held \cup Blocks(Head(port)))
  /\ UNCHANGED client

\* as_new_message waits for the message that continues the stream, or finds it in
\* the port's queue.
ReadNextMessage ==
  /\ Reading /\ Need > rd.n /\ AtEnd(rd)
  /\ port # <<>> /\ ~Head(port).first
  /\ port' = Tail(port)
  /\ Proceed(Opened(Append(rd.msgs, Head(port))), held \cup Blocks(Head(port)))
  /\ UNCHANGED client

\* msg_receive leaves a message that is in the queue already and larger than the
\* mark's first, whose header the new one is a copy of; mark_receive_msg does not
\* look at what it returns.  A reader that waits gets the message whatever its size.
TooLarge == port # <<>> /\ Head(port).size > rd.msgs[1].size
ReadTooLarge ==
  /\ Reading /\ Need > rd.n /\ AtEnd(rd)
  /\ TooLarge /\ ~Head(port).first
  /\ GoAstray(held)
  /\ UNCHANGED <<client, port>>

\* "as_read: size mismatch on read"
ReadMismatch == /\ Reading /\ Need > rd.n /\ rd.n # 0
                /\ Raise
                /\ UNCHANGED <<client, port>>

\* bm_mark, and as_destroyRead.
CarryOut == /\ server = "reading" /\ Len(got) = Len(Mark)
            /\ server' = "idle" /\ rd' = NoRead /\ got' = <<>>
            /\ held' = held \ Received
            /\ outcome' = Append(outcome, got)
            /\ UNCHANGED <<client, port, skipped>>

Server == \/ ReceiveFirst \/ Skip \/ ReadOn \/ ReadNextPacket \/ ReadPastEnd
          \/ ReadNextMessage \/ ReadTooLarge \/ ReadMismatch \/ CarryOut

Next == NDMark \/ Write \/ Finish \/ Server

\* The window server finishes the mark it is making; the board's server goes on.
Spec == Init /\ [][Next]_vars /\ WF_vars(Write \/ Finish) /\ WF_vars(Server)
----------------------------------------------------------------------------
(* Properties.                                                             *)

\* An argument that is an array, and one that goes out of line.
Array(g) == Len(g) > 1
Block(g) == g[1].size > Threshold

\* A mark is carried out with the very arguments that were packed, in its turn and
\* once, wherever the messages were cut and whatever went before it; or it is
\* dropped (as_write, as_flushmsg, as_read, os_raise's handler).  Of a server that
\* has gone astray nothing is said.
Channel == INSTANCE MarkChannel WITH Mark <- Marks, made <- marks
ImplementsChannel == Channel!Spec

\* as_write never writes beyond the buffer: its pointer and its count of what is
\* left agree, over alignment, rewinds and flushes.
BufferKept == as.p <= BufferSize /\ as.n = BufferSize - as.p

\* A mark is dropped only if it has an array, which a message boundary may have
\* cut, and the server goes astray only in a mark with an array or a block, or
\* before a message that is larger than the mark's first.
PlainMarksSurvive ==
  /\ \A i \in 1..Len(outcome) :
       outcome[i] = Dropped => \E k \in 1..Len(marks[i]) : Array(marks[i][k])
  /\ server = "astray" => TooLarge \/ \E k \in 1..Len(Mark) : Array(Mark[k]) \/ Block(Mark[k])

\* When the server rests, the blocks that are still mapped on the board are those
\* of messages it skipped (as_destroyRead, MarkExceptionCleanup).
OnlySkippedStay == server = "idle" => held = skipped

\* Both ends keep to what they have: the client to its buffer, the board to the
\* blocks of messages it still reads or skipped.
StreamSound == TypeOK /\ BufferKept /\ OnlySkippedStay

\* The server is never left waiting for the rest of a mark, but goes astray.
EveryMarkSettled == \A i \in 1..MaxMarks :
  Len(marks) >= i ~> (Len(outcome) >= i \/ server = "astray")

\* What the code means to provide and does not: the reader stays inside the
\* messages; every mark is carried out; nothing stays mapped.
NeverAstray == server # "astray"
NothingDropped == \A i \in 1..Len(outcome) : outcome[i] # Dropped
NothingStays == server = "idle" => held = {}
=============================================================================
