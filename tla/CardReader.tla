------------------------------ MODULE CardReader ------------------------------
(***************************************************************************)
(* The reader of a FELIX card in the on-host mode. The card writes the     *)
(* blocks of its links in a ring of memory; ProtoDuneReader::run() polls   *)
(* how far it is, hands the address of each new block to the dispatcher of *)
(* its link and gives the memory back. Dispatchers and their parsers read  *)
(* the blocks where they are, when they come to it.                        *)
(*                                                                         *)
(* A position counts the blocks since the start; the address of a block is *)
(* its position modulo the ring. Block n of a link is part n % ChunkParts  *)
(* of superchunk n \div ChunkParts: that a block may hold the end of one   *)
(* chunk and the start of the next is left out.                            *)
(***************************************************************************)
EXTENDS Integers, Sequences, FiniteSets, SequencesExt

CONSTANTS
  CardLinks,     \* links of the card
  RingBlocks,    \* PROTODUNE_MEMSIZE / BLOCKSIZE
  BlockThreshold, \* BLOCK_THRESHOLD: 256
  MarginBlocks,  \* MARGIN_BLOCKS: 4
  DispatchRoom,  \* addresses the queue of a dispatcher holds: 6000000 - 1
  ChunkParts,    \* blocks that SUPERCHUNK_SIZE bytes take
  MaxBlocks      \* blocks the card writes (bound)

ASSUME CardAssumption ==
  /\ {RingBlocks, BlockThreshold, ChunkParts, DispatchRoom} \subseteq Nat \ {0}
  /\ {MarginBlocks, MaxBlocks} \subseteq Nat /\ MarginBlocks < RingBlocks

VARIABLES
  memory,       \* the ring: address -> [link, n]
  written,      \* card: position it writes next
  freed,        \* card: position up to which it may overwrite, set by dma_set_ptr()
  nextBlock,    \* link -> number of its next block
  seenPos,      \* m_currentAddress, as a position
  readPos,      \* m_read_index, as a position
  readerAt,     \* "poll", "queue"
  addresses,    \* dispatcher -> m_queue
  pieces,       \* dispatcher -> addresses of the parts of the chunk its parser has begun
  chunks,       \* dispatcher -> superchunks written to the queue of the link, contents
  unqueued,     \* history: blocks that found the queue of their dispatcher full
  overrun,      \* history: the card has written over a block that was queued or in a chunk
  parsed        \* history: link -> blocks its dispatcher has taken

card == <<memory, written, freed, nextBlock, overrun>>
dispatchers == <<pieces, chunks, parsed>>
cardVars == <<memory, written, freed, nextBlock, seenPos, readPos, readerAt, addresses, pieces,
              chunks, unqueued, overrun, parsed>>

Address(pos) == pos % RingBlocks
NoBlock == [link |-> CHOOSE l \in CardLinks : TRUE, n |-> -1]

CardInit ==
  /\ memory = [a \in 0..(RingBlocks - 1) |-> NoBlock] /\ written = 0 /\ freed = 0
  /\ nextBlock = [l \in CardLinks |-> 0] /\ seenPos = 0 /\ readPos = 0 /\ readerAt = "poll"
  /\ addresses = [l \in CardLinks |-> <<>>] /\ pieces = [l \in CardLinks |-> <<>>]
  /\ chunks = [l \in CardLinks |-> <<>>] /\ unqueued = {} /\ overrun = FALSE
  /\ parsed = [l \in CardLinks |-> {}]
-----------------------------------------------------------------------------
(* The card (external) writes until it has come to the pointer. *)

InUse == UNION {ToSet(addresses[l]) \cup ToSet(pieces[l]) : l \in CardLinks}

CardWrites(l) ==
  LET b == [link |-> l, n |-> nextBlock[l]] IN
  /\ written < MaxBlocks /\ written - freed < RingBlocks
  /\ written' = written + 1 /\ nextBlock' = [nextBlock EXCEPT ![l] = @ + 1]
  /\ memory' = [memory EXCEPT ![Address(written)] = b]
  /\ overrun' = (overrun \/ Address(written) \in InUse)
  /\ UNCHANGED <<freed, seenPos, readPos, readerAt, addresses, unqueued, dispatchers>>
-----------------------------------------------------------------------------
(* ProtoDuneReader::run(). *)

Available(pos) == (pos - readPos) % RingBlocks        \* bytesAvailable()

PollCard ==
  /\ readerAt = "poll" /\ seenPos' = written
  /\ readerAt' = IF Available(written) < BlockThreshold THEN "poll" ELSE "queue"
  /\ UNCHANGED <<card, readPos, addresses, unqueued, dispatchers>>

\* ProtoDuneDispatcher::queue(): what the queue has no room for is dropped
QueueBlock ==
  LET b == memory[Address(readPos)] IN
  /\ readerAt = "queue" /\ Address(readPos) # Address(seenPos)
  /\ readPos' = readPos + 1
  /\ IF Len(addresses[b.link]) < DispatchRoom
     THEN /\ addresses' = [addresses EXCEPT ![b.link] = Append(@, Address(readPos))]
          /\ UNCHANGED unqueued
     ELSE unqueued' = unqueued \cup {b} /\ UNCHANGED addresses
  /\ UNCHANGED <<card, seenPos, readerAt, dispatchers>>

\* the memory is given back but for the margin, whatever the dispatchers have read
GiveBack ==
  /\ readerAt = "queue" /\ Address(readPos) = Address(seenPos)
  /\ freed' = seenPos - MarginBlocks /\ readerAt' = "poll"
  /\ UNCHANGED <<memory, written, nextBlock, overrun, seenPos, readPos, addresses, unqueued,
                 dispatchers>>
-----------------------------------------------------------------------------
(* ProtoDuneDispatcher::run() and the parser (external): it calls           *)
(* chunk_processed() at the last part of a chunk, with pointers to the      *)
(* parts; a first part makes it give up the chunk it had begun, or not.     *)

FirstPart(b) == b.n % ChunkParts = 0
LastPart(b) == b.n % ChunkParts = ChunkParts - 1

AnySize(parts) == parts # <<>>                 \* variant: the length is not compared
RightSize(parts) == Len(parts) = ChunkParts    \* sumLength == SUPERCHUNK_SIZE

\* chunk_processed(): the chunk is copied out of the ring
ChunkProcessed(l, parts) ==
  chunks' = IF RightSize(parts)
            THEN [chunks EXCEPT ![l] = Append(@, [i \in DOMAIN parts |-> memory[parts[i]]])]
            ELSE chunks

TakeBlock(l) ==
  LET a == Head(addresses[l])
      b == memory[a] IN
  /\ addresses[l] # <<>> /\ addresses' = [addresses EXCEPT ![l] = Tail(@)]
  /\ parsed' = [parsed EXCEPT ![l] = @ \cup {b}]
  /\ \E begun \in {pieces[l]} \cup (IF FirstPart(b) THEN {<<>>} ELSE {}) :
       IF LastPart(b)
       THEN ChunkProcessed(l, Append(begun, a)) /\ pieces' = [pieces EXCEPT ![l] = <<>>]
       ELSE pieces' = [pieces EXCEPT ![l] = Append(begun, a)] /\ UNCHANGED chunks
  /\ UNCHANGED <<card, seenPos, readPos, readerAt, unqueued>>
-----------------------------------------------------------------------------
CardNext ==
  \/ PollCard \/ QueueBlock \/ GiveBack
  \/ \E l \in CardLinks : CardWrites(l) \/ TakeBlock(l)

CardSpec == CardInit /\ [][CardNext]_cardVars
-----------------------------------------------------------------------------
(* Properties. *)

Blocks == [link : CardLinks, n : Int]

(* Every variable has a value the code can give it. *)
CardTypeOK ==
  /\ memory \in [0..(RingBlocks - 1) -> Blocks] /\ written \in 0..MaxBlocks /\ freed \in Int
  /\ nextBlock \in [CardLinks -> Nat] /\ seenPos \in Nat /\ readPos \in Nat
  /\ readerAt \in {"poll", "queue"} /\ overrun \in BOOLEAN /\ unqueued \subseteq Blocks
  /\ \A l \in CardLinks : /\ addresses[l] \in Seq(0..(RingBlocks - 1))
                          /\ Len(addresses[l]) <= DispatchRoom
                          /\ pieces[l] \in Seq(0..(RingBlocks - 1)) /\ chunks[l] \in Seq(Seq(Blocks))
                          /\ parsed[l] \subseteq Blocks

Part(l, c, p) == [link |-> l, n |-> c * ChunkParts + p]
WholeChunk(l, c) == [i \in 1..ChunkParts |-> Part(l, c, i - 1)]
Touched(l, c) == \E p \in 0..(ChunkParts - 1) : Part(l, c, p) \in unqueued

\* the length is right of what is left of chunks that have lost parts
LengthRight(s) == Len(s) = ChunkParts
OfTouched(l, s) == \A i \in DOMAIN s : s[i].link = l /\ Touched(l, s[i].n \div ChunkParts)
InStream(s) == \A i, j \in DOMAIN s : i < j => s[i].n < s[j].n

\* the chunk was parsed to its end, and the one before it was not left open
Owed(l, c) ==
  /\ Part(l, c, ChunkParts - 1) \in parsed[l] /\ ~Touched(l, c)
  /\ c > 0 => Part(l, c - 1, ChunkParts - 1) \notin unqueued

(* As long as the card overwrites no block that a dispatcher still needs,  *)
(* each superchunk a link is given is one whole chunk of that link, or is  *)
(* made of chunks that lost blocks to a full queue; they come in order,    *)
(* none twice; and a loss costs no chunk but those it touches and the one  *)
(* that follows.                                                           *)
ChunksIntact ==
  ~overrun => \A l \in CardLinks :
    /\ \A i \in DOMAIN chunks[l] :
         LET s == chunks[l][i] IN
         /\ LengthRight(s) /\ InStream(s)
         /\ s = WholeChunk(l, s[1].n \div ChunkParts) \/ OfTouched(l, s)
    /\ InStream([i \in DOMAIN chunks[l] |-> chunks[l][i][1]])
    /\ \A c \in 0..MaxBlocks : Owed(l, c) => WholeChunk(l, c) \in ToSet(chunks[l])
=============================================================================
