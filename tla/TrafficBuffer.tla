--------------------------- MODULE TrafficBuffer ---------------------------
(***************************************************************************)
(* The buffer between the two sockets of a bridge (buffer.h): a chain of   *)
(* blocks, filled at the back through Reserve and Commit, emptied at the   *)
(* front through Peek and Drain.                                           *)
(*                                                                         *)
(* The bridge calls the four operations one at a time (on its strand), but *)
(* a read into reserved space and a write from peeked data go on for long  *)
(* and beside each other: the kernel fills the space and sends the data    *)
(* byte by byte while the other pair is at work, so the loops of the       *)
(* operations are steps here, too.  (CopyIn and CopyOut do both halves in  *)
(* one go, with memcpy in place of the kernel.)                            *)
(*                                                                         *)
(* Blocks are numbered in the order in which the free list hands them out, *)
(* so that next is the number that follows; memory that is used again      *)
(* counts as a new block.                                                  *)
(***************************************************************************)
EXTENDS Integers, Sequences

CONSTANTS Capacity,      \* bytes in a block: kBlockSize less the header
          Bytes,
          Unset,         \* what is in memory before it is written
          Stream,        \* the bytes that the source sends
          ReserveSizes,  \* what Reserve and ReserveAtLeast are asked for
          MaxBlocks      \* bound: blocks handed out

ASSUME TrafficAssumption ==
    /\ Capacity \in Nat \ {0}
    /\ Stream \in Seq(Bytes)
    /\ ReserveSizes \subseteq Nat \ {0}
    /\ MaxBlocks \in Nat

Null == 0
Blocks == 1..MaxBlocks
Cells == 0..Capacity - 1

VARIABLES
    head_,       \* start of the chain
    end_,        \* last block with data
    tail_,       \* last block of the chain, which goes up to here
    block_cnt_,  \* how many blocks the chain has
    data_size_,  \* committed bytes
    reserved_,   \* there is an outstanding Reserve
    peeked_,     \* there is an outstanding Peek
    offset,      \* offset[k]: where the data of block k starts
    len,         \* len[k]: and how much of it there is
    mem,         \* mem[k]: the bytes of block k
    call         \* the operation that is being carried out

chainVars == <<head_, end_, tail_, block_cnt_, offset, len>>

VARIABLES
    space,       \* space[k]: the buffer in block k that Reserve has returned
    fill,        \* where the kernel puts the next byte, and how many it has read
    view,        \* view[k]: the buffer in block k that Peek has returned
    take,        \* where the kernel takes the next byte, and how many it has written
    received,    \* bytes read from the source
    wire,        \* the bytes written to the sink
    base         \* history: base[k] is the position in the stream of cell 0 of block k

ioVars == <<space, fill, view, take, received, wire>>
bufferVars == <<chainVars, data_size_, reserved_, peeked_, mem, call, ioVars, base>>

NoCall == [op |-> "none", size |-> 0, rem |-> 0, block |-> Null, exact |-> FALSE]
NoBuffer == [from |-> 0, size |-> 0]
NoCursor == [block |-> Null, n |-> 0, total |-> 0]

BufferInit ==
    /\ head_ = Null /\ end_ = Null /\ tail_ = Null
    /\ block_cnt_ = 0 /\ data_size_ = 0
    /\ reserved_ = FALSE /\ peeked_ = FALSE
    /\ offset = [k \in Blocks |-> 0]
    /\ len = [k \in Blocks |-> 0]
    /\ mem = [k \in Blocks |-> [j \in Cells |-> Unset]]
    /\ call = NoCall
    /\ space = [k \in Blocks |-> NoBuffer]
    /\ view = [k \in Blocks |-> NoBuffer]
    /\ fill = NoCursor /\ take = NoCursor
    /\ received = 0 /\ wire = <<>>
    /\ base = [k \in Blocks |-> 0]

----------------------------------------------------------------------------
(* Blocks.                                                                 *)

SpaceLen(k) == Capacity - offset[k] - len[k]
next(k) == IF k < tail_ THEN k + 1 ELSE Null
Least(m, n) == IF m < n THEN m ELSE n

(* Since the data is contiguous.                                           *)
space_size == IF head_ = Null THEN 0 ELSE block_cnt_ * Capacity - data_size_ - offset[head_]

(* SpaceStepper: where space begins.                                       *)
SpaceStepper == IF end_ # Null /\ SpaceLen(end_) = 0 THEN next(end_) ELSE end_

----------------------------------------------------------------------------
(* Reserve (exact) and ReserveAtLeast.                                     *)

Reserve(size, exact) ==
    /\ call.op = "none" /\ ~reserved_
    /\ tail_ + size <= MaxBlocks
    /\ reserved_' = TRUE
    /\ call' = [op |-> "reserve", size |-> size, rem |-> size, block |-> SpaceStepper,
                exact |-> exact]
    /\ space' = [k \in Blocks |-> NoBuffer]
    /\ fill' = NoCursor
    /\ UNCHANGED <<chainVars, data_size_, peeked_, mem, view, take, received, wire, base>>

(* SpaceStepper::Next at the end of the chain.                             *)
AppendNewBlock ==
    LET new == tail_ + 1 IN
    /\ call.op = "reserve" /\ call.block = Null
    /\ tail_' = new
    /\ IF head_ = Null THEN head_' = new /\ end_' = new ELSE UNCHANGED <<head_, end_>>
    /\ block_cnt_' = block_cnt_ + 1
    /\ offset' = [offset EXCEPT ![new] = 0]
    /\ len' = [len EXCEPT ![new] = 0]
    /\ call' = [call EXCEPT !.block = new]
    /\ base' = [base EXCEPT ![new] = IF head_ = Null THEN received ELSE base[tail_] + Capacity]
    /\ UNCHANGED <<data_size_, reserved_, peeked_, mem, ioVars>>

(* A turn of the loop; what is left over is not part of an exact buffer.   *)
ReserveStep ==
    LET k == call.block
        n == IF call.exact THEN Least(call.rem, SpaceLen(k)) ELSE SpaceLen(k) IN
    /\ call.op = "reserve" /\ k # Null
    /\ space' = [space EXCEPT ![k] = [from |-> offset[k] + len[k], size |-> n]]
    /\ fill' = IF fill.block = Null THEN [fill EXCEPT !.block = k] ELSE fill
    /\ call' = IF n < call.rem THEN [call EXCEPT !.rem = @ - n, !.block = next(k)] ELSE NoCall
    /\ UNCHANGED <<chainVars, data_size_, reserved_, peeked_, mem, view, take, received, wire, base>>

(* The kernel goes through a vector of buffers in order.                   *)
Cursor(vector, cursor) ==
    IF cursor.n < vector[cursor.block].size THEN cursor
    ELSE [cursor EXCEPT !.block = @ + 1, !.n = 0]

InBuffer(vector, cursor) == cursor.block \in Blocks /\ cursor.n < vector[cursor.block].size

Advance(cursor) == [cursor EXCEPT !.n = @ + 1, !.total = @ + 1]

(* It reads a byte into the reserved space.                                *)
ReadByte ==
    LET at == Cursor(space, fill) IN
    /\ reserved_ /\ call.op \notin {"reserve", "commit"}
    /\ received < Len(Stream)
    /\ InBuffer(space, at)
    /\ mem' = [mem EXCEPT ![at.block][space[at.block].from + at.n] = Stream[received + 1]]
    /\ fill' = Advance(at)
    /\ received' = received + 1
    /\ UNCHANGED <<chainVars, data_size_, reserved_, peeked_, call, space, view, take, wire, base>>

----------------------------------------------------------------------------
(* Commit, called with the number of bytes that have been read.            *)

CommitCall ==
    /\ call.op = "none" /\ reserved_
    /\ call' = [op |-> "commit", size |-> fill.total, rem |-> fill.total, block |-> SpaceStepper,
                exact |-> FALSE]
    /\ UNCHANGED <<chainVars, data_size_, reserved_, peeked_, mem, ioVars, base>>

(* A turn of the loop.  (Without a block it would append one.)             *)
CommitStep ==
    LET k == call.block
        n == Least(call.rem, SpaceLen(k)) IN
    /\ call.op = "commit" /\ call.rem > 0 /\ k # Null
    /\ end_' = k
    /\ len' = [len EXCEPT ![k] = @ + n]
    /\ call' = [call EXCEPT !.rem = @ - n, !.block = next(k)]
    /\ UNCHANGED <<head_, tail_, block_cnt_, offset, data_size_, reserved_, peeked_, mem, ioVars, base>>

CommitReturns ==
    /\ call.op = "commit" /\ call.rem = 0
    /\ data_size_' = data_size_ + call.size
    /\ reserved_' = FALSE
    /\ call' = NoCall
    /\ space' = [k \in Blocks |-> NoBuffer]
    /\ fill' = NoCursor
    /\ UNCHANGED <<chainVars, peeked_, mem, view, take, received, wire, base>>

----------------------------------------------------------------------------
(* Peek.                                                                   *)

Peek ==
    /\ call.op = "none" /\ ~peeked_
    /\ peeked_' = TRUE
    /\ view' = [k \in Blocks |->
                   IF head_ # Null /\ k \in head_..tail_ /\ \A i \in head_..k : len[i] > 0
                     THEN [from |-> offset[k], size |-> len[k]]
                     ELSE NoBuffer]
    /\ take' = [block |-> head_, n |-> 0, total |-> 0]
    /\ UNCHANGED <<chainVars, data_size_, reserved_, mem, call, space, fill, received, wire, base>>

(* The kernel writes a byte of the peeked data.                            *)
WriteByte ==
    LET at == Cursor(view, take) IN
    /\ peeked_ /\ call.op # "drain" /\ take.block # Null
    /\ InBuffer(view, at)
    /\ wire' = Append(wire, mem[at.block][view[at.block].from + at.n])
    /\ take' = Advance(at)
    /\ UNCHANGED <<chainVars, data_size_, reserved_, peeked_, mem, call, space, fill, view, received, base>>

----------------------------------------------------------------------------
(* Drain, called with the number of bytes that have been written.          *)

DrainCall ==
    /\ call.op = "none" /\ peeked_
    /\ call' = [op |-> "drain", size |-> take.total, rem |-> take.total, block |-> Null,
                exact |-> FALSE]
    /\ UNCHANGED <<chainVars, data_size_, reserved_, peeked_, mem, ioVars, base>>

(* A turn of the loop: a block goes back to the free list when there is    *)
(* neither data nor space in it.                                           *)
DrainStep ==
    LET n == Least(len[head_], call.rem) IN
    /\ call.op = "drain" /\ call.rem > 0
    /\ offset' = [offset EXCEPT ![head_] = @ + n]
    /\ len' = [len EXCEPT ![head_] = @ - n]
    /\ call' = [call EXCEPT !.rem = @ - n]
    /\ IF len'[head_] = 0 /\ offset'[head_] = Capacity
         THEN head_' = next(head_) /\ block_cnt_' = block_cnt_ - 1
         ELSE UNCHANGED <<head_, block_cnt_>>
    /\ UNCHANGED <<end_, tail_, data_size_, reserved_, peeked_, mem, ioVars, base>>

(* When all is drained, the last block may have gone, and the space at the *)
(* front of the first is used again unless some space is reserved.         *)
end_AfterDrain_Kept == end_                \* mutant: the last block is not looked after

end_AfterDrain == IF data_size_ = call.size THEN head_ ELSE end_

ResetsHead_Always == data_size_ = call.size /\ head_ # Null    \* mutant: Reserve is ignored

ResetsHead == data_size_ = call.size /\ head_ # Null /\ ~reserved_

DrainReturns ==
    /\ call.op = "drain" /\ call.rem = 0
    /\ data_size_' = data_size_ - call.size
    /\ peeked_' = FALSE
    /\ call' = NoCall
    /\ end_' = end_AfterDrain
    /\ IF ResetsHead
         THEN /\ offset' = [offset EXCEPT ![head_] = 0]
              /\ base' = [k \in Blocks |-> IF k < head_ THEN base[k] ELSE base[k] + offset[head_]]
         ELSE UNCHANGED <<offset, base>>
    /\ view' = [k \in Blocks |-> NoBuffer]
    /\ take' = NoCursor
    /\ UNCHANGED <<head_, tail_, block_cnt_, len, reserved_, mem, space, fill, received, wire>>

BufferNext ==
    \/ \E size \in ReserveSizes, exact \in BOOLEAN : Reserve(size, exact)
    \/ AppendNewBlock \/ ReserveStep \/ ReadByte
    \/ CommitCall \/ CommitStep \/ CommitReturns
    \/ Peek \/ WriteByte
    \/ DrainCall \/ DrainStep \/ DrainReturns

BufferSpec == BufferInit /\ [][BufferNext]_bufferVars

----------------------------------------------------------------------------
(* Properties.                                                             *)

InChain(k) == head_ # Null /\ head_ <= k /\ k <= tail_

Queue == INSTANCE ByteQueue WITH data_size <- data_size_, pending <- take.total

(* However reads and writes overlap, the buffer is a queue, as the bridge  *)
(* takes it to be: the sink is sent the bytes of the source, each one once *)
(* and in order, out of those committed, and data_size() counts them.      *)
ImplementsQueue == Queue!QueueSpec

(* The kernel reads into blocks that have not been given back, beside the  *)
(* data, and writes from data that is still there; and an operation starts *)
(* from blocks that are still there.                                       *)
BuffersStay ==
    \A k \in Blocks :
        /\ space[k].size > 0 =>
              InChain(k) /\ (call.op # "commit" => space[k].from >= offset[k] + len[k])
        /\ view[k].size > 0 /\ call.op # "drain" =>
              /\ InChain(k)
              /\ offset[k] <= view[k].from
              /\ view[k].from + view[k].size <= offset[k] + len[k]
        /\ k \in {end_, call.block} /\ call.op # "drain" => InChain(k)

(* The assertions of Commit and Drain hold when the bridge calls them with *)
(* what the kernel has read and written.                                   *)
AssertsHold ==
    /\ call.op = "none" /\ reserved_ => head_ # Null /\ space_size >= fill.total
    /\ take.total <= data_size_

(* The loops end: every turn finds a block, with some space to reserve or  *)
(* to commit, or some data to drain; and Commit never appends a block.     *)
LoopsAdvance ==
    /\ call.op \in {"reserve", "commit"} /\ call.block # Null /\ call.rem > 0 =>
          SpaceLen(call.block) > 0
    /\ call.op = "commit" /\ call.rem > 0 => call.block # Null
    /\ call.op = "drain" /\ call.rem > 0 => head_ # Null /\ len[head_] > 0

(* The operations are safe, however those of the two sides alternate: none *)
(* leaves the kernel with memory that was given back, meets a size that    *)
(* its assertions rule out, or goes round without getting on.              *)
OperationsAreSafe == BuffersStay /\ AssertsHold /\ LoopsAdvance

----------------------------------------------------------------------------
(* The inductive invariant.  It places every cell of the chain in the      *)
(* stream: base[k] + j is the position of cell j of block k.               *)

BufferTypeOK ==
    /\ head_ \in 0..MaxBlocks /\ end_ \in 0..MaxBlocks /\ tail_ \in 0..MaxBlocks
    /\ block_cnt_ \in Int /\ data_size_ \in Int
    /\ reserved_ \in BOOLEAN /\ peeked_ \in BOOLEAN
    /\ offset \in [Blocks -> Nat] /\ len \in [Blocks -> Nat]
    /\ mem \in [Blocks -> [Cells -> Bytes \cup {Unset}]]
    /\ call \in [op : {"none", "reserve", "commit", "drain"}, size : Nat, rem : Nat,
                 block : 0..MaxBlocks, exact : BOOLEAN]
    /\ space \in [Blocks -> [from : Nat, size : Nat]]
    /\ view \in [Blocks -> [from : Nat, size : Nat]]
    /\ fill \in [block : 0..MaxBlocks, n : Nat, total : Nat]
    /\ take \in [block : 0..MaxBlocks, n : Nat, total : Nat]
    /\ received \in 0..Len(Stream)
    /\ wire \in Seq(Bytes)
    /\ base \in [Blocks -> Int]

(* What is committed and drained, when the operation at hand has returned  *)
(* and with what its loop has done so far.                                 *)
Committed == received - fill.total
Drained == Len(wire) - take.total
CommittedNow == Committed + (IF call.op = "commit" THEN call.size - call.rem ELSE 0)
DrainedNow == Drained + (IF call.op = "drain" THEN call.size - call.rem ELSE 0)

Chain == {k \in Blocks : InChain(k)}

(* Blocks are full up to end_ and empty beyond it.                         *)
ChainInv ==
    /\ head_ <= tail_
    /\ head_ # Null => end_ # Null /\ end_ <= tail_ /\ head_ <= end_ + 1
    /\ call.op # "drain" => (head_ = Null => end_ = Null) /\ head_ <= end_
    /\ \A k \in Chain : /\ offset[k] < Capacity /\ offset[k] + len[k] <= Capacity
                        /\ k > head_ => offset[k] = 0
                        /\ k < end_ => offset[k] + len[k] = Capacity
                        /\ k > end_ => len[k] = 0

(* The chain covers the stream without gaps: the first byte in it is the   *)
(* next to be drained, the last one the last that was committed.           *)
PlaceInv ==
    /\ \A k \in Chain : k < tail_ => base[k + 1] = base[k] + Capacity
    /\ \A k, m \in Chain : k < m => base[k] + Capacity <= base[m]
    /\ head_ # Null => base[head_] + offset[head_] = DrainedNow
    /\ end_ \in Chain => base[end_] + offset[end_] + len[end_] = CommittedNow
    /\ head_ = Null \/ head_ = end_ + 1 => DrainedNow = CommittedNow

CountInv ==
    /\ head_ = Null => block_cnt_ = 0
    /\ head_ # Null => base[tail_] + Capacity = base[head_] + block_cnt_ * Capacity

SizeInv ==
    /\ data_size_ = Committed - Drained
    /\ take.total <= data_size_

(* Memory holds what has been read.                                        *)
MemInv ==
    \A k \in Chain, j \in Cells :
        offset[k] <= j /\ base[k] + j < received => mem[k][j] = Stream[base[k] + j + 1]

(* What the kernel may use: the buffers of a vector lie one after another. *)
Contiguous(vector, k) ==
    k > 1 /\ vector[k].size > 0 =>
        /\ vector[k].from = 0
        /\ vector[k - 1].size > 0 /\ vector[k - 1].from + vector[k - 1].size = Capacity

SpaceInv ==
    /\ ~reserved_ => /\ fill = NoCursor
                     /\ \A k \in Blocks : space[k].size = 0
                     /\ call.op \notin {"reserve", "commit"}
    /\ reserved_ /\ call.op # "reserve" => fill.block # Null
    /\ \A k \in Blocks : space[k].size > 0 => /\ k \in Chain
                                              /\ space[k].from + space[k].size <= Capacity
                                              /\ base[k] + space[k].from >= Committed
    /\ fill.block # Null =>
          /\ space[fill.block].size > 0
          /\ fill.n <= space[fill.block].size
          /\ base[fill.block] + space[fill.block].from + fill.n = received
          /\ \A k \in Blocks : k > fill.block => Contiguous(space, k)

CallInv == call.op # "drain" /\ call.block # Null => call.block \in Chain

ReserveInv ==
    call.op = "reserve" =>
        /\ fill.n = 0 /\ fill.total = 0 /\ call.rem > 0
        /\ tail_ + call.rem <= (IF call.block = Null THEN MaxBlocks ELSE MaxBlocks + 1)
        /\ fill.block = Null => call.block = SpaceStepper /\ \A k \in Blocks : space[k].size = 0
        /\ fill.block # Null =>
              LET last == IF call.block = Null THEN tail_ ELSE call.block - 1 IN
              /\ end_ <= last /\ fill.block <= last /\ call.block <= tail_
              /\ space[last].size > 0 /\ space[last].from + space[last].size = Capacity
              /\ \A k \in Blocks : k > last => space[k].size = 0

CommitInv ==
    call.op = "commit" =>
        /\ call.size = fill.total /\ call.rem <= call.size
        /\ call.rem > 0 => /\ call.block \in Chain
                           /\ end_ <= call.block /\ call.block <= end_ + 1
                           /\ base[call.block] + offset[call.block] + len[call.block] = CommittedNow
                           /\ offset[call.block] + len[call.block] < Capacity

ViewInv ==
    /\ ~peeked_ => take = NoCursor /\ call.op # "drain" /\ \A k \in Blocks : view[k].size = 0
    /\ call.op # "drain" =>
        /\ \A k \in Blocks : view[k].size > 0 =>
              /\ k \in Chain /\ take.block # Null
              /\ view[k].from = offset[k] /\ view[k].size <= len[k]
              /\ base[k] + view[k].from + view[k].size <= Committed
        /\ take.block # Null =>
              /\ take.n <= view[take.block].size
              /\ view[take.block].size > 0 =>
                    base[take.block] + view[take.block].from + take.n = Len(wire)
              /\ \A k \in Blocks : k > take.block => Contiguous(view, k)

DrainInv ==
    call.op = "drain" => call.size = take.total /\ call.rem <= call.size

BufferInv ==
    /\ BufferTypeOK
    /\ ChainInv
    /\ PlaceInv
    /\ CountInv
    /\ SizeInv
    /\ MemInv
    /\ SpaceInv
    /\ CallInv
    /\ ReserveInv
    /\ CommitInv
    /\ ViewInv
    /\ DrainInv
=============================================================================
