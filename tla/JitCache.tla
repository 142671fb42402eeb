------------------------------ MODULE JitCache ------------------------------
(***************************************************************************)
(* The caches between memory and what a hart executes: the decode cache    *)
(* (src/include/decode.hpp, src/src/decode.cpp) and the cache of           *)
(* translated blocks with the code that builds, runs and drops them        *)
(* (src/src/rvjit/rvjit.cpp, Hart::tick in src/src/hart.cpp).              *)
(*                                                                         *)
(* An address is a parcel that holds one instruction.  What a word does is *)
(* abstracted to what the caches tell apart: an operation or a store,      *)
(* which are translated, a jump, FENCE.I and an illegal word, which are    *)
(* not.  Where a store writes and where a jump goes is left open.  Other   *)
(* harts and DMA write memory without this hart taking notice; so does     *)
(* translated code.                                                        *)
(***************************************************************************)
EXTENDS Naturals, Sequences, FiniteSets

CONSTANTS
  Base, Top,       \* DRAM is Base .. Top; the addresses below are the boot ROM
  PageSize,        \* parcels in a page
  NumSlots,        \* JIT_CACHE_SIZE
  NumSets,         \* CACHE_SIZE of the decode cache
  PcCap,           \* RVJIT_PC_CAP
  MaxInstructions, \* RVJIT_MAX_INSTRUCTIONS
  ArenaFuncs,      \* functions that fit into an arena
  Programs,        \* the initial contents of memory
  TrapPc,          \* where a trap goes
  Writable,        \* the addresses that stores go to
  Stored,          \* the words that are stored
  MaxWrites,       \* bound: the writes to memory
  MaxBlocks        \* bound: the blocks that are translated

Addrs == 0 .. Top
Dram == Base .. Top
Pages == 0 .. ((Top - Base) \div PageSize)
Slots == 0 .. (NumSlots - 1)
Words == {"op", "store", "jump", "fence.i", "illegal"}

ASSUME CacheAssumption ==
  /\ Base \in Nat /\ Top \in Nat /\ Base <= Top
  /\ PageSize \in Nat \ {0} /\ NumSlots \in Nat \ {0} /\ NumSets \in Nat \ {0}
  /\ ArenaFuncs \in Nat \ {0} /\ Programs \subseteq [Addrs -> Words]
  /\ TrapPc \in Dram /\ Writable \subseteq Dram /\ Stored \subseteq Words

VARIABLES
  pc, mem,
  ways, victim,        \* decode cache: the two entries of a set, the next to go
  jits,                \* the slots: pc, size, valid, page_version and where the code is
  arenas,              \* the code of every arena, function after function
  count,               \* JIT_Context::count
  page_verion_bitmap,  \* the version of every page
  hits, ignore,        \* pc_hits: the hits of an address and the ignored ones
  block_c, block,      \* a block is being built; its pc and its instructions
  writes,              \* the writes so far
  ran,                 \* history: what the last tick executed, and how
  unseen               \* history: addresses written unnoticed since a block was built

jitVars == <<jits, arenas, count, page_verion_bitmap, hits, ignore, block_c, block>>
vars == <<pc, mem, ways, victim, jitVars, writes, ran, unseen>>

jit_index(a) == (a \div 2) % NumSlots
set_index(a) == (a \div 2) % NumSets
Page(a) == (a - Base) \div PageSize

NoEntry == [pc |-> 0, inst_raw |-> "none", valid |-> FALSE]
NoFunction == [pc |-> 0, inst_size |-> 0, valid |-> FALSE, page_version |-> 0, arena |-> 0, func |-> 0]
NoBlock == [pc |-> 0, code |-> <<>>, unseen |-> {}]
Nothing == [how |-> "none", pc |-> 0, code |-> <<>>]
Translated == {"op", "store"}     \* the keys of conversion_tbl

JitInit ==
  /\ pc = TrapPc /\ mem \in Programs
  /\ ways = [s \in 0 .. (NumSets - 1) |-> <<NoEntry, NoEntry>>]
  /\ victim = [s \in 0 .. (NumSets - 1) |-> 1]
  /\ jits = [i \in Slots |-> NoFunction]
  /\ arenas = <<<<>>>> /\ count = 0
  /\ page_verion_bitmap = [p \in Pages |-> 0]
  /\ hits = [a \in Dram |-> 0] /\ ignore = {}
  /\ block_c = FALSE /\ block = NoBlock
  /\ writes = 0 /\ ran = Nothing /\ unseen = [i \in Slots |-> {}]

-----------------------------------------------------------------------------
(* The decode cache. *)

Hit_slip(a, w) == {i \in 1 .. 2 : ways[set_index(a)][i].valid /\ ways[set_index(a)][i].pc = a}

(* The ways that hold the word that was fetched. *)
Hit(a, w) ==
  {i \in 1 .. 2 : LET e == ways[set_index(a)][i]
                  IN  e.valid /\ e.pc = a /\ e.inst_raw = w}

decode_inst_slow(a, w) == [pc |-> a, inst_raw |-> w, valid |-> w # "illegal"]

(* The entry for word w at a. *)
decode_inst(a, w) ==
  IF Hit(a, w) = {} THEN decode_inst_slow(a, w)
  ELSE ways[set_index(a)][IF 1 \in Hit(a, w) THEN 1 ELSE 2]

(* A miss replaces the victim, also by an entry that is not valid. *)
DecodeFills(a, w) ==
  LET s == set_index(a)
  IN  IF Hit(a, w) # {} THEN UNCHANGED <<ways, victim>>
      ELSE /\ ways' = [ways EXCEPT ![s][victim[s]] = decode_inst_slow(a, w)]
           /\ victim' = [victim EXCEPT ![s] = 3 - @]

(* FENCE.I empties the decode cache; the translated blocks stay. *)
exec_FENCE_I ==
  /\ ways' = [s \in DOMAIN ways |-> <<NoEntry, NoEntry>>]
  /\ victim' = [s \in DOMAIN victim |-> 1]

-----------------------------------------------------------------------------
(* Building a block. *)

(* JIT_Arena::push_function: the place of the code, in a new arena when    *)
(* the last one is full.                                                   *)
push_function(code) ==
  IF Len(arenas[Len(arenas)]) = ArenaFuncs
  THEN Append(arenas, <<code>>)
  ELSE [arenas EXCEPT ![Len(arenas)] = Append(@, code)]

(* Slip: the version is the one at the end of the block. *)
end_block_gen_slip(b) ==
  LET full == push_function(b.code)
      last == Len(full)
      i == jit_index(b.pc)
  IN  /\ arenas' = full
      /\ jits' = [jits EXCEPT ![i] = [pc |-> b.pc, inst_size |-> Len(b.code), valid |-> TRUE,
                                      page_version |-> page_verion_bitmap'[Page(b.pc)],
                                      arena |-> last, func |-> Len(full[last])]]
      /\ unseen' = [unseen EXCEPT ![i] = b.unseen]
      /\ count' = count + 1
      /\ block_c' = FALSE /\ block' = NoBlock

(* The end of handleInstruction for block b.  The move of JIT_Function     *)
(* leaves the slot's page_version as it was, which is 0.                   *)
end_block_gen(b) ==
  LET full == push_function(b.code)
      last == Len(full)
      i == jit_index(b.pc)
  IN  /\ arenas' = full
      /\ jits' = [jits EXCEPT ![i] = [pc |-> b.pc, inst_size |-> Len(b.code), valid |-> TRUE,
                                      page_version |-> jits[i].page_version,
                                      arena |-> last, func |-> Len(full[last])]]
      /\ unseen' = [unseen EXCEPT ![i] = b.unseen]
      /\ count' = count + 1
      /\ block_c' = FALSE /\ block' = NoBlock

(* The host refuses memory or a change of its protection, or the code is   *)
(* too large: the function that push_function returns is not valid, but it *)
(* takes the slot and is counted, and a new arena stays.                   *)
end_block_fails(b) ==
  LET i == jit_index(b.pc)
  IN  /\ arenas' = IF Len(arenas[Len(arenas)]) = ArenaFuncs THEN Append(arenas, <<>>) ELSE arenas
      /\ jits' = [jits EXCEPT ![i] = [pc |-> b.pc, inst_size |-> Len(b.code), valid |-> FALSE,
                                      page_version |-> jits[i].page_version,
                                      arena |-> 0, func |-> 0]]
      /\ count' = count + 1
      /\ block_c' = FALSE /\ block' = NoBlock
      /\ UNCHANGED unseen

(* handleInstruction in a block that is being built: the instruction       *)
(* continues it or ends it.                                                *)
Continues(a, w) ==
  w \in Translated /\ Len(block.code) < MaxInstructions /\ a = block.pc + Len(block.code)

(* handleInstruction after word w at a was executed.  A block that is      *)
(* being built stays open when the slot of the instruction is taken, or    *)
(* the instruction is ignored.                                             *)
handleInstruction(a, w) ==
  IF a < Base \/ jits[jit_index(a)].valid \/ a \in ignore
  THEN UNCHANGED <<jits, arenas, count, hits, ignore, block_c, block, unseen>>
  ELSE IF block_c
  THEN /\ ignore' = ignore \cup {a} /\ UNCHANGED hits
       /\ IF Continues(a, w)
          THEN /\ block' = [block EXCEPT !.code = Append(@, w)]
               /\ UNCHANGED <<jits, arenas, count, block_c, unseen>>
          ELSE end_block_gen(block) \/ end_block_fails(block)
  ELSE /\ hits' = [hits EXCEPT ![a] = @ + 1]
       /\ ignore' = IF hits'[a] > PcCap THEN ignore \cup {a} ELSE ignore
       /\ IF hits'[a] > PcCap /\ w \in Translated
          THEN block' = [pc |-> a, code |-> <<w>>, unseen |-> {}] /\ block_c' = TRUE
          ELSE UNCHANGED <<block, block_c>>
       /\ UNCHANGED <<jits, arenas, count, unseen>>

stopBlock == block_c' = FALSE /\ block' = NoBlock

-----------------------------------------------------------------------------
(* Hart::tick. *)

Entry == jits[jit_index(pc)]
CodeOf(e) == arenas[e.arena][e.func]
Matches == count # 0 /\ Entry.valid /\ Entry.pc = pc
Fresh == Entry.page_version = page_verion_bitmap[Page(pc)]

(* A block whose page was written since is dropped, and the hits with it. *)
tick_drops ==
  /\ Matches /\ ~Fresh
  /\ jits' = [jits EXCEPT ![jit_index(pc)].valid = FALSE]
  /\ hits' = [a \in Dram |-> 0] /\ ignore' = {}
  /\ ran' = Nothing
  /\ UNCHANGED <<pc, mem, ways, victim, arenas, count, page_verion_bitmap, block_c, block,
                 writes, unseen>>

(* The outcomes of n stores: at most n addresses change. *)
AfterStores(n) ==
  {[a \in Addrs |-> IF a \in DOMAIN f THEN f[a] ELSE mem[a]] :
     f \in UNION {[S -> Stored] : S \in {T \in SUBSET Writable : Cardinality(T) <= n}}}

(* A translated block runs.  Its stores go past MMIO::write. *)
tick_runs ==
  LET code == CodeOf(Entry)
      stores == Cardinality({i \in DOMAIN code : code[i] = "store"})
  IN  /\ Matches /\ Fresh
      /\ pc' = pc + Entry.inst_size
      /\ IF stores = 0 \/ writes >= MaxWrites THEN UNCHANGED <<mem, writes, unseen, block>>
         ELSE /\ mem' \in AfterStores(stores)
              /\ writes' = writes + 1
              /\ unseen' = [i \in Slots |-> unseen[i] \cup {a \in Addrs : mem'[a] # mem[a]}]
              /\ block' = IF block_c
                          THEN [block EXCEPT !.unseen = @ \cup {a \in Addrs : mem'[a] # mem[a]}]
                          ELSE block
      /\ ran' = [how |-> "block", pc |-> pc, code |-> code]
      /\ UNCHANGED <<ways, victim, jits, arenas, count, page_verion_bitmap, hits, ignore, block_c>>

(* The interpreter: fetch, decode and execute one instruction. *)
Interprets(w) ==
  /\ ~Matches
  /\ pc \in Addrs
  /\ decode_inst(pc, mem[pc]).inst_raw = w
  /\ ran' = [how |-> "inst", pc |-> pc, code |-> <<w>>]
  /\ count < MaxBlocks

tick_traps ==
  /\ Interprets("illegal")
  /\ DecodeFills(pc, mem[pc])
  /\ stopBlock
  /\ pc' = TrapPc
  /\ UNCHANGED <<mem, jits, arenas, count, page_verion_bitmap, hits, ignore, writes, unseen>>

(* A fetch past the memory traps and returns the word 0, which is an       *)
(* instruction: the tick executes it at the handler.  handleInstruction    *)
(* then asserts that the pc the tick began with has a page, unless its     *)
(* slot is taken: without a block in the slot the program ends here.       *)
tick_faults ==
  /\ ~Matches
  /\ pc \notin Addrs
  /\ jits[jit_index(pc)].valid
  /\ DecodeFills(TrapPc, "zero")
  /\ pc' = TrapPc + 1
  /\ ran' = Nothing
  /\ UNCHANGED <<mem, jits, arenas, count, page_verion_bitmap, hits, ignore, block_c, block,
                 writes, unseen>>

tick_op ==
  /\ Interprets("op")
  /\ DecodeFills(pc, mem[pc])
  /\ pc' = pc + 1
  /\ UNCHANGED <<mem, page_verion_bitmap, writes>>
  /\ handleInstruction(pc, "op")

tick_jump ==
  /\ Interprets("jump")
  /\ DecodeFills(pc, mem[pc])
  /\ pc' \in Addrs
  /\ UNCHANGED <<mem, page_verion_bitmap, writes>>
  /\ handleInstruction(pc, "jump")

tick_fence_i ==
  /\ Interprets("fence.i")
  /\ exec_FENCE_I
  /\ pc' = pc + 1
  /\ UNCHANGED <<mem, page_verion_bitmap, writes>>
  /\ handleInstruction(pc, "fence.i")

(* MMIO::write bumps the version of the page.  The bound on the writes     *)
(* makes a store that would pass it go to a device.                        *)
tick_store ==
  /\ Interprets("store")
  /\ DecodeFills(pc, mem[pc])
  /\ pc' = pc + 1
  /\ IF writes >= MaxWrites THEN UNCHANGED <<mem, page_verion_bitmap, writes>>
     ELSE \E a \in Writable, w \in Stored :
            /\ mem' = [mem EXCEPT ![a] = w]
            /\ page_verion_bitmap' = [page_verion_bitmap EXCEPT ![Page(a)] = @ + 1]
            /\ writes' = writes + 1
  /\ handleInstruction(pc, "store")

(* Another hart, or a device, writes memory. *)
OtherWrites ==
  /\ writes < MaxWrites
  /\ \E a \in Writable, w \in Stored :
       /\ mem' = [mem EXCEPT ![a] = w]
       /\ unseen' = [i \in Slots |-> unseen[i] \cup {a}]
       /\ block' = IF block_c THEN [block EXCEPT !.unseen = @ \cup {a}] ELSE block
  /\ writes' = writes + 1
  /\ ran' = Nothing
  /\ UNCHANGED <<pc, ways, victim, jits, arenas, count, page_verion_bitmap, hits, ignore, block_c>>

JitNext ==
  \/ tick_drops
  \/ tick_runs
  \/ tick_traps
  \/ tick_faults
  \/ tick_op
  \/ tick_jump
  \/ tick_fence_i
  \/ tick_store
  \/ OtherWrites

JitSpec == JitInit /\ [][JitNext]_vars

-----------------------------------------------------------------------------
(* The interpreter executes what memory holds: the decode cache never      *)
(* answers with another word, although stores and FENCE.I do not keep it   *)
(* up to date.                                                             *)
InterpretsMemory == [][ran'.how = "inst" => ran'.code = <<mem[pc]>>]_vars

(* A block that runs is what memory held at its addresses, whatever this   *)
(* hart's interpreted stores changed since or while it was built: a        *)
(* difference is at an address written unnoticed, or beyond the page the   *)
(* block begins in, whose version is the only one looked at.               *)
BlocksMatchMemory ==
  [][ran'.how = "block" =>
       \A i \in DOMAIN ran'.code :
         LET a == pc + i - 1
         IN  \/ ran'.code[i] = mem[a]
             \/ a \in unseen[jit_index(pc)]
             \/ Page(a) # Page(pc)]_vars

-----------------------------------------------------------------------------
CacheTypeOK ==
  /\ pc \in Nat /\ mem \in [Addrs -> Words]
  /\ jits \in [Slots -> [pc : Nat, inst_size : Nat, valid : BOOLEAN, page_version : {0},
                        arena : Nat, func : Nat]]
  /\ arenas \in Seq(Seq(Seq(Translated))) /\ arenas # <<>>
  /\ page_verion_bitmap \in [Pages -> Nat]
  /\ block_c \in BOOLEAN
  /\ block \in [pc : Nat, code : Seq(Translated), unseen : SUBSET Addrs]
  /\ unseen \in [Slots -> SUBSET Addrs]

(* The code of a block that begins at a is what memory m holds in DRAM, as *)
(* far as version 0 of the page in v lets it be.                           *)
Agrees(a, code, missed, m, v) ==
  \A k \in 1 .. Len(code) :
    LET b == a + k - 1
    IN  /\ b \in Dram
        /\ code[k] = m[b] \/ b \in missed \/ Page(b) # Page(a) \/ v[Page(a)] # 0

(* A slot that is valid names a block of its own index that was emitted    *)
(* into an arena and is still what its page holds, unless the version of   *)
(* the page moved on; so is the block that is being built.                 *)
CacheInv ==
  /\ CacheTypeOK
  /\ \A i \in Slots :
       LET e == jits[i]
       IN  e.valid => /\ e.arena \in 1 .. Len(arenas)
                      /\ e.func \in 1 .. Len(arenas[e.arena])
                      /\ e.pc \in Dram /\ jit_index(e.pc) = i
                      /\ e.inst_size = Len(CodeOf(e)) /\ CodeOf(e) # <<>>
                      /\ Agrees(e.pc, CodeOf(e), unseen[i], mem, page_verion_bitmap)
  /\ block_c => /\ block.pc \in Dram /\ block.code # <<>>
                /\ Agrees(block.pc, block.code, block.unseen, mem, page_verion_bitmap)
=============================================================================
