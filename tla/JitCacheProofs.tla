--------------------------- MODULE JitCacheProofs ---------------------------
(***************************************************************************)
(* For every memory size, page size, cache geometry and program: the       *)
(* interpreter executes what memory holds, and a translated block that     *)
(* runs is what its page holds, but for writes that the hart cannot see.   *)
(***************************************************************************)
EXTENDS JitCache, SequenceTheorems, TLAPS

(* The decode cache answers with the word that was fetched, whatever it    *)
(* holds: a way only hits when it holds that very word.                    *)
LEMMA DecodesTheWord ==
  ASSUME NEW a, NEW w
  PROVE  decode_inst(a, w).inst_raw = w
<1>1. CASE Hit(a, w) = {}
  BY <1>1 DEF decode_inst, decode_inst_slow
<1>2. CASE Hit(a, w) # {}
  <2> DEFINE way == IF 1 \in Hit(a, w) THEN 1 ELSE 2
  <2>1. way \in Hit(a, w)
    BY <1>2 DEF Hit
  <2>2. decode_inst(a, w) = ways[set_index(a)][way]
    BY <1>2 DEF decode_inst
  <2> HIDE DEF way
  <2> QED
    BY <2>1, <2>2 DEF Hit
<1> QED
  BY <1>1, <1>2

LEMMA InterpretsWord ==
  ASSUME NEW w, Interprets(w)
  PROVE  w = mem[pc] /\ pc \in Addrs /\ ran' = [how |-> "inst", pc |-> pc, code |-> <<w>>]
BY DecodesTheWord DEF Interprets

(* The steps that are not the interpreter's say so in ran. *)
LEMMA RanSaysHow ==
  ASSUME JitNext
  PROVE  \/ \E w \in Words : Interprets(w)
         \/ tick_runs /\ ran' = [how |-> "block", pc |-> pc, code |-> CodeOf(Entry)]
         \/ ran' = Nothing
<1>1. CASE tick_drops \/ tick_faults \/ OtherWrites
  BY <1>1 DEF tick_drops, tick_faults, OtherWrites
<1>2. CASE tick_runs
  BY <1>2 DEF tick_runs
<1>3. CASE tick_traps \/ tick_op \/ tick_jump \/ tick_fence_i \/ tick_store
  BY <1>3 DEF tick_traps, tick_op, tick_jump, tick_fence_i, tick_store, Words
<1> QED
  BY <1>1, <1>2, <1>3 DEF JitNext

(* No stale instruction is interpreted, although neither stores nor the    *)
(* writes of others touch the decode cache.                                *)
THEOREM InterpreterIsNeverStale == JitSpec => InterpretsMemory
<1>1. JitNext => (ran'.how = "inst" => ran'.code = <<mem[pc]>>)
  <2> SUFFICES ASSUME JitNext, ran'.how = "inst" PROVE ran'.code = <<mem[pc]>>
    OBVIOUS
  <2>1. \E w \in Words : Interprets(w)
    BY RanSaysHow DEF Nothing
  <2> QED
    BY <2>1, InterpretsWord
<1> QED
  BY <1>1, PTL DEF JitSpec, InterpretsMemory

-----------------------------------------------------------------------------
LEMMA DivMonotone ==
  ASSUME NEW m \in Nat, NEW n \in Nat, m <= n, NEW d \in Nat \ {0}
  PROVE  m \div d \in Nat /\ m \div d <= n \div d
<1> DEFINE q == m \div d
           p == n \div d
<1>1. /\ q \in Nat /\ m = d * q + (m % d) /\ m % d \in 0 .. (d - 1)
      /\ p \in Nat /\ n = d * p + (n % d) /\ n % d \in 0 .. (d - 1)
  BY Z3
<1> HIDE DEF q, p
<1>2. ~(p + 1 <= q)
  <2> SUFFICES ASSUME p + 1 <= q PROVE FALSE
    OBVIOUS
  <2>1. d * (p + 1) <= d * q
    BY <1>1
  <2>2. d * (p + 1) = d * p + d
    BY <1>1
  <2> QED
    BY <1>1, <2>1, <2>2
<1> QED
  BY <1>1, <1>2 DEF q, p

LEMMA PagesOfDram ==
  ASSUME NEW a \in Dram
  PROVE  Page(a) \in Pages
<1>1. a - Base \in Nat /\ Top - Base \in Nat /\ a - Base <= Top - Base
  BY CacheAssumption DEF Dram
<1> QED
  BY <1>1, DivMonotone, CacheAssumption DEF Page, Pages

LEMMA SlotsOfAddresses ==
  ASSUME NEW a \in Nat
  PROVE  jit_index(a) \in Slots
<1>1. a \div 2 \in Nat
  BY Z3
<1> QED
  BY <1>1, CacheAssumption DEF jit_index, Slots

(* What a step may do to memory under a block whose unnoticed writes grow  *)
(* from missed to more.                                                    *)
Keeps(missed, more) ==
  /\ missed \subseteq more
  /\ \A x \in Dram : \/ mem'[x] = mem[x]
                     \/ x \in more
                     \/ page_verion_bitmap'[Page(x)] # 0
  /\ \A p \in Pages : page_verion_bitmap[p] # 0 => page_verion_bitmap'[p] # 0

LEMMA AgreesKept ==
  ASSUME NEW a \in Dram, NEW code, NEW missed, NEW more, Keeps(missed, more),
         Agrees(a, code, missed, mem, page_verion_bitmap)
  PROVE  Agrees(a, code, more, mem', page_verion_bitmap')
<1> SUFFICES ASSUME NEW k \in 1 .. Len(code)
             PROVE  /\ a + k - 1 \in Dram
                    /\ \/ code[k] = mem'[a + k - 1]
                       \/ a + k - 1 \in more
                       \/ Page(a + k - 1) # Page(a)
                       \/ page_verion_bitmap'[Page(a)] # 0
  BY DEF Agrees
<1> DEFINE b == a + k - 1
<1>1. /\ b \in Dram
      /\ code[k] = mem[b] \/ b \in missed \/ Page(b) # Page(a) \/ page_verion_bitmap[Page(a)] # 0
  BY DEF Agrees
<1> HIDE DEF b
<1>2. \/ code[k] = mem'[b] \/ b \in more \/ Page(b) # Page(a) \/ page_verion_bitmap'[Page(a)] # 0
  BY <1>1, PagesOfDram DEF Keeps
<1> QED
  BY <1>1, <1>2 DEF b

-----------------------------------------------------------------------------
(* Emitting a block leaves the code of every other block where it was. *)
Codes == Seq(Translated)

LEMMA AppendKeeps ==
  ASSUME NEW S, NEW s \in Seq(S), NEW x \in S
  PROVE  /\ Append(s, x) \in Seq(S) /\ Len(Append(s, x)) = Len(s) + 1 /\ Len(s) \in Nat
         /\ \A i \in 1 .. Len(s) : Append(s, x)[i] = s[i]
         /\ Append(s, x)[Len(s) + 1] = x
OBVIOUS

LEMMA PushFunction ==
  ASSUME NEW code \in Codes, arenas \in Seq(Seq(Codes)), arenas # <<>>
  PROVE  LET full == push_function(code)
             last == Len(full)
         IN  /\ full \in Seq(Seq(Codes)) /\ full # <<>>
             /\ last \in 1 .. Len(full) /\ Len(full[last]) \in 1 .. Len(full[last])
             /\ full[last][Len(full[last])] = code
             /\ \A i \in 1 .. Len(arenas), j \in Nat :
                  j \in 1 .. Len(arenas[i]) =>
                    /\ i \in 1 .. Len(full) /\ j \in 1 .. Len(full[i])
                    /\ full[i][j] = arenas[i][j]
<1> DEFINE n == Len(arenas)
           full == push_function(code)
<1>1. n \in Nat /\ n >= 1 /\ n \in 1 .. n /\ arenas[n] \in Seq(Codes)
  OBVIOUS
<1>2. /\ Append(arenas[n], code) \in Seq(Codes)
      /\ Len(Append(arenas[n], code)) = Len(arenas[n]) + 1 /\ Len(arenas[n]) \in Nat
      /\ \A j \in 1 .. Len(arenas[n]) : Append(arenas[n], code)[j] = arenas[n][j]
      /\ Append(arenas[n], code)[Len(arenas[n]) + 1] = code
  BY <1>1, AppendKeeps
<1>3. \A i \in 1 .. n : Len(arenas[i]) \in Nat
  BY <1>1
<1>4. CASE Len(arenas[n]) = ArenaFuncs
  <2>1. full = Append(arenas, <<code>>)
    BY <1>4 DEF push_function
  <2>2. /\ <<code>> \in Seq(Codes) /\ Len(<<code>>) = 1 /\ <<code>>[1] = code
    OBVIOUS
  <2>3. /\ full \in Seq(Seq(Codes)) /\ Len(full) = n + 1 /\ full[n + 1] = <<code>>
        /\ \A i \in 1 .. n : full[i] = arenas[i]
    BY <2>1, <2>2, AppendKeeps
  <2> HIDE DEF full, n
  <2> QED
    BY <2>2, <2>3, <1>1, <1>3 DEF full, n
<1>5. CASE Len(arenas[n]) # ArenaFuncs
  <2>1. full = [arenas EXCEPT ![n] = Append(arenas[n], code)]
    BY <1>5 DEF push_function
  <2>2. /\ full \in Seq(Seq(Codes)) /\ Len(full) = n
        /\ full[n] = Append(arenas[n], code)
        /\ \A i \in 1 .. n : i # n => full[i] = arenas[i]
    BY <2>1, <1>1, <1>2
  <2> HIDE DEF full, n
  <2>3. \A i \in 1 .. n, j \in Nat :
          j \in 1 .. Len(arenas[i]) =>
            /\ i \in 1 .. Len(full) /\ j \in 1 .. Len(full[i])
            /\ full[i][j] = arenas[i][j]
    <3> SUFFICES ASSUME NEW i \in 1 .. n, NEW j \in Nat, j \in 1 .. Len(arenas[i])
                 PROVE  j \in 1 .. Len(full[i]) /\ full[i][j] = arenas[i][j]
      BY <2>2
    <3>1. CASE i = n
      BY <3>1, <2>2, <1>2
    <3>2. CASE i # n
      BY <3>2, <2>2
    <3> QED
      BY <3>1, <3>2
  <2> QED
    BY <2>2, <2>3, <1>1, <1>2 DEF full, n
<1> QED
  BY <1>4, <1>5

(* The parts of CacheInv about a slot and about the block being built. *)
SlotOK(e, i, ar, missed, m, v) ==
  e.valid => /\ e.arena \in 1 .. Len(ar)
             /\ e.func \in 1 .. Len(ar[e.arena])
             /\ e.pc \in Dram /\ jit_index(e.pc) = i
             /\ e.inst_size = Len(ar[e.arena][e.func]) /\ ar[e.arena][e.func] # <<>>
             /\ Agrees(e.pc, ar[e.arena][e.func], missed, m, v)

BlockOK(b, m, v) ==
  /\ b.pc \in Dram /\ b.code # <<>>
  /\ Agrees(b.pc, b.code, b.unseen, m, v)

SlotsOK == \A i \in Slots : SlotOK(jits[i], i, arenas, unseen[i], mem, page_verion_bitmap)

LEMMA CacheInvParts ==
  /\ CacheInv <=> /\ CacheTypeOK /\ SlotsOK
                  /\ block_c => BlockOK(block, mem, page_verion_bitmap)
  /\ CacheInv' <=> /\ CacheTypeOK' /\ SlotsOK'
                   /\ block_c' => BlockOK(block', mem', page_verion_bitmap')
BY DEF CacheInv, SlotsOK, SlotOK, BlockOK, CodeOf

-----------------------------------------------------------------------------
LEMMA SlotKept ==
  ASSUME NEW e, NEW i, NEW missed, NEW more, Keeps(missed, more),
         SlotOK(e, i, arenas, missed, mem, page_verion_bitmap)
  PROVE  SlotOK(e, i, arenas, more, mem', page_verion_bitmap')
BY AgreesKept DEF SlotOK

LEMMA SlotsKept ==
  ASSUME CacheInv, UNCHANGED <<jits, arenas>>,
         \A i \in Slots : Keeps(unseen[i], unseen'[i])
  PROVE  SlotsOK'
<1> SUFFICES ASSUME NEW i \in Slots
             PROVE  SlotOK(jits[i], i, arenas, unseen'[i], mem', page_verion_bitmap')
  BY DEF SlotsOK
<1>1. SlotOK(jits[i], i, arenas, unseen[i], mem, page_verion_bitmap)
  BY CacheInvParts DEF SlotsOK
<1> QED
  BY <1>1, SlotKept

LEMMA BlockKept ==
  ASSUME CacheInv, block_c, block'.pc = block.pc, block'.code = block.code,
         Keeps(block.unseen, block'.unseen)
  PROVE  BlockOK(block', mem', page_verion_bitmap')
<1>1. BlockOK(block, mem, page_verion_bitmap)
  BY CacheInvParts
<1> QED
  BY <1>1, AgreesKept DEF BlockOK

(* A block that could not be placed leaves a slot that is not valid; the   *)
(* code of the other slots stays where it was.                             *)
LEMMA FailsBlock ==
  ASSUME CacheInv, block_c, end_block_fails(block), Keeps({}, {})
  PROVE  /\ SlotsOK' /\ ~block_c'
         /\ jits' \in [Slots -> [pc : Nat, inst_size : Nat, valid : BOOLEAN,
                                 page_version : {0}, arena : Nat, func : Nat]]
         /\ arenas' \in Seq(Seq(Codes)) /\ arenas' # <<>>
         /\ block' \in [pc : Nat, code : Codes, unseen : SUBSET Addrs]
         /\ unseen' \in [Slots -> SUBSET Addrs]
<1> DEFINE s == jit_index(block.pc)
           new == [pc |-> block.pc, inst_size |-> Len(block.code), valid |-> FALSE,
                   page_version |-> jits[s].page_version, arena |-> 0, func |-> 0]
<1>1. CacheTypeOK /\ SlotsOK
  BY CacheInvParts
<1>2. /\ block.code \in Codes /\ block.pc \in Nat
      /\ arenas \in Seq(Seq(Codes)) /\ arenas # <<>>
  BY <1>1 DEF CacheTypeOK, Codes
<1>3. s \in Slots
  BY <1>2, SlotsOfAddresses
<1>4. /\ arenas' \in {arenas, Append(arenas, <<>>)}
      /\ jits' = [jits EXCEPT ![s] = new]
      /\ block_c' = FALSE /\ block' = NoBlock /\ unseen' = unseen
  BY DEF end_block_fails
<1>5. <<>> \in Codes /\ <<>> \in Seq(Codes) /\ Len(block.code) \in Nat
  BY <1>2 DEF Codes
<1>6. /\ arenas' \in Seq(Seq(Codes)) /\ arenas' # <<>>
      /\ \A i \in 1 .. Len(arenas) : i \in 1 .. Len(arenas') /\ arenas'[i] = arenas[i]
  <2>1. CASE arenas' = arenas
    BY <2>1, <1>2
  <2>2. CASE arenas' = Append(arenas, <<>>)
    <3>1. /\ Append(arenas, <<>>) \in Seq(Seq(Codes))
          /\ Len(Append(arenas, <<>>)) = Len(arenas) + 1 /\ Len(arenas) \in Nat
          /\ \A i \in 1 .. Len(arenas) : Append(arenas, <<>>)[i] = arenas[i]
      BY <1>2, <1>5, AppendKeeps
    <3> QED
      BY <2>2, <3>1
  <2> QED
    BY <2>1, <2>2, <1>4
<1>7. new \in [pc : Nat, inst_size : Nat, valid : BOOLEAN,
               page_version : {0}, arena : Nat, func : Nat]
  BY <1>1, <1>2, <1>3, <1>5 DEF CacheTypeOK
<1>8. \A i \in Slots : SlotOK(jits'[i], i, arenas', unseen'[i], mem', page_verion_bitmap')
  <2> SUFFICES ASSUME NEW i \in Slots
               PROVE  SlotOK(jits'[i], i, arenas', unseen'[i], mem', page_verion_bitmap')
    OBVIOUS
  <2>1. CASE i = s
    <3>1. jits'[i].valid = FALSE
      BY <2>1, <1>1, <1>4 DEF CacheTypeOK
    <3> QED
      BY <3>1 DEF SlotOK
  <2>2. CASE i # s
    <3>1. jits'[i] = jits[i] /\ unseen'[i] = unseen[i]
      BY <2>2, <1>1, <1>4 DEF CacheTypeOK
    <3>2. SlotOK(jits[i], i, arenas, unseen[i], mem', page_verion_bitmap')
      BY <1>1, SlotKept DEF SlotsOK, Keeps
    <3>3. PICK e : e = jits[i]
      OBVIOUS
    <3>4. SlotOK(e, i, arenas', unseen[i], mem', page_verion_bitmap')
      BY <3>2, <3>3, <1>6 DEF SlotOK
    <3> QED
      BY <3>1, <3>3, <3>4
  <2> QED
    BY <2>1, <2>2
<1>9. block' \in [pc : Nat, code : Codes, unseen : SUBSET Addrs]
  BY <1>4, <1>5 DEF NoBlock
<1>10. /\ jits' \in [Slots -> [pc : Nat, inst_size : Nat, valid : BOOLEAN,
                               page_version : {0}, arena : Nat, func : Nat]]
       /\ unseen' \in [Slots -> SUBSET Addrs]
  BY <1>1, <1>4, <1>7 DEF CacheTypeOK
<1> QED
  BY <1>4, <1>6, <1>8, <1>9, <1>10 DEF SlotsOK

(* The new slot is the finished block, the others stay as they are. *)
LEMMA EndsBlock ==
  ASSUME CacheInv, block_c, end_block_gen(block), Keeps({}, {})
  PROVE  /\ SlotsOK' /\ ~block_c'
         /\ jits' \in [Slots -> [pc : Nat, inst_size : Nat, valid : BOOLEAN,
                                 page_version : {0}, arena : Nat, func : Nat]]
         /\ arenas' \in Seq(Seq(Codes)) /\ arenas' # <<>>
         /\ block' \in [pc : Nat, code : Codes, unseen : SUBSET Addrs]
         /\ unseen' \in [Slots -> SUBSET Addrs]
<1> DEFINE full == push_function(block.code)
           last == Len(full)
           s == jit_index(block.pc)
<1>1. CacheTypeOK /\ SlotsOK /\ BlockOK(block, mem, page_verion_bitmap)
  BY CacheInvParts
<1>2. /\ block.code \in Codes /\ block.pc \in Nat /\ block.unseen \in SUBSET Addrs
      /\ arenas \in Seq(Seq(Codes)) /\ arenas # <<>>
  BY <1>1 DEF CacheTypeOK, Codes
<1>3. s \in Slots
  BY <1>2, SlotsOfAddresses
<1>4. /\ full \in Seq(Seq(Codes)) /\ full # <<>>
      /\ last \in 1 .. Len(full) /\ Len(full[last]) \in 1 .. Len(full[last])
      /\ full[last][Len(full[last])] = block.code
      /\ \A i \in 1 .. Len(arenas), j \in Nat :
           j \in 1 .. Len(arenas[i]) =>
             /\ i \in 1 .. Len(full) /\ j \in 1 .. Len(full[i])
             /\ full[i][j] = arenas[i][j]
  BY <1>2, PushFunction
<1>5. /\ arenas' = full
      /\ jits' = [jits EXCEPT ![s] = [pc |-> block.pc, inst_size |-> Len(block.code),
                                      valid |-> TRUE, page_version |-> jits[s].page_version,
                                      arena |-> last, func |-> Len(full[last])]]
      /\ unseen' = [unseen EXCEPT ![s] = block.unseen]
      /\ block_c' = FALSE /\ block' = NoBlock
  BY DEF end_block_gen
<1> HIDE DEF full, last, s
<1>6. last \in Nat /\ Len(full[last]) \in Nat /\ Len(block.code) \in Nat
  BY <1>2, <1>4 DEF Codes
<1>7. jits' \in [Slots -> [pc : Nat, inst_size : Nat, valid : BOOLEAN,
                           page_version : {0}, arena : Nat, func : Nat]]
  BY <1>1, <1>2, <1>3, <1>5, <1>6 DEF CacheTypeOK
<1>8. unseen' \in [Slots -> SUBSET Addrs]
  BY <1>1, <1>2, <1>5 DEF CacheTypeOK
<1>9. block' \in [pc : Nat, code : Codes, unseen : SUBSET Addrs]
  <2>1. <<>> \in Codes
    BY DEF Codes
  <2> QED
    BY <1>5, <2>1 DEF NoBlock
<1>10. \A i \in Slots : SlotOK(jits'[i], i, full, unseen'[i], mem', page_verion_bitmap')
  <2> SUFFICES ASSUME NEW i \in Slots
               PROVE  SlotOK(jits'[i], i, full, unseen'[i], mem', page_verion_bitmap')
    OBVIOUS
  <2>1. CASE i = s
    <3>1. /\ jits'[i] = [pc |-> block.pc, inst_size |-> Len(block.code),
                         valid |-> TRUE, page_version |-> jits[s].page_version,
                         arena |-> last, func |-> Len(full[last])]
          /\ unseen'[i] = block.unseen
      BY <2>1, <1>1, <1>3, <1>5 DEF CacheTypeOK
    <3>2. Agrees(block.pc, block.code, block.unseen, mem', page_verion_bitmap')
      BY <1>1, AgreesKept DEF BlockOK, Keeps
    <3>3. PICK e : e = jits'[i]
      OBVIOUS
    <3>4. /\ e.pc = block.pc /\ e.inst_size = Len(block.code)
          /\ e.arena = last /\ e.func = Len(full[last])
      BY <3>1, <3>3
    <3>5. full[e.arena][e.func] = block.code
      BY <3>4, <1>4
    <3>6. /\ e.arena \in 1 .. Len(full) /\ e.func \in 1 .. Len(full[e.arena])
          /\ e.pc \in Dram /\ jit_index(e.pc) = i /\ block.code # <<>>
      BY <3>4, <2>1, <1>1, <1>4 DEF BlockOK, s
    <3>7. unseen'[i] = block.unseen
      BY <3>1
    <3>8. SlotOK(e, i, full, unseen'[i], mem', page_verion_bitmap')
      BY <3>2, <3>4, <3>5, <3>6, <3>7 DEF SlotOK
    <3> QED
      BY <3>8, <3>3
  <2>2. CASE i # s
    <3>1. jits'[i] = jits[i] /\ unseen'[i] = unseen[i]
      BY <2>2, <1>1, <1>5 DEF CacheTypeOK
    <3>2. SlotOK(jits[i], i, arenas, unseen[i], mem', page_verion_bitmap')
      BY <1>1, SlotKept DEF SlotsOK, Keeps
    <3>3. PICK e : e = jits[i]
      OBVIOUS
    <3>4. SlotOK(e, i, full, unseen[i], mem', page_verion_bitmap')
      <4> SUFFICES ASSUME e.valid
                   PROVE  SlotOK(e, i, full, unseen[i], mem', page_verion_bitmap')
        BY DEF SlotOK
      <4>1. e.arena \in 1 .. Len(arenas) /\ e.func \in 1 .. Len(arenas[e.arena]) /\ e.func \in Nat
        BY <3>2, <3>3, <1>1 DEF SlotOK, CacheTypeOK
      <4>2. /\ e.arena \in 1 .. Len(full) /\ e.func \in 1 .. Len(full[e.arena])
            /\ full[e.arena][e.func] = arenas[e.arena][e.func]
        BY <4>1, <1>4
      <4> QED
        BY <4>2, <3>2, <3>3 DEF SlotOK
    <3> QED
      BY <3>1, <3>3, <3>4
  <2> QED
    BY <2>1, <2>2
<1> QED
  BY <1>4, <1>5, <1>7, <1>8, <1>9, <1>10 DEF SlotsOK

(* The instruction that was executed joins the block: its word is what     *)
(* memory held, and a store that overwrote it moved the page's version.    *)
LEMMA JoinsBlock ==
  ASSUME NEW a \in Dram, NEW code \in Codes, NEW missed, NEW w, w = mem[pc], pc \in Dram,
         pc = a + Len(code), Keeps({}, {}),
         code # <<>> => Agrees(a, code, missed, mem, page_verion_bitmap)
  PROVE  Agrees(a, Append(code, w), missed, mem', page_verion_bitmap')
<1>1. /\ Len(Append(code, w)) = Len(code) + 1 /\ Len(code) \in Nat
      /\ \A k \in 1 .. Len(code) : Append(code, w)[k] = code[k]
      /\ Append(code, w)[Len(code) + 1] = w
  BY DEF Codes
<1>2. code # <<>> => Agrees(a, code, missed, mem', page_verion_bitmap')
  BY AgreesKept DEF Keeps
<1>3. \A k \in 1 .. (Len(code) + 1) : k \in 1 .. Len(code) \/ k = Len(code) + 1
  BY <1>1
<1>4. a + (Len(code) + 1) - 1 = pc
  BY <1>1, CacheAssumption DEF Dram
<1>5. w = mem'[pc] \/ page_verion_bitmap'[Page(pc)] # 0
  BY DEF Keeps
<1> SUFFICES ASSUME NEW k \in 1 .. (Len(code) + 1)
             PROVE  /\ a + k - 1 \in Dram
                    /\ \/ Append(code, w)[k] = mem'[a + k - 1]
                       \/ a + k - 1 \in missed
                       \/ Page(a + k - 1) # Page(a)
                       \/ page_verion_bitmap'[Page(a)] # 0
  BY <1>1 DEF Agrees
<1>6. CASE k \in 1 .. Len(code)
  <2>1. code # <<>>
    BY <1>6
  <2> QED
    BY <1>6, <2>1, <1>1, <1>2 DEF Agrees
<1>7. CASE k = Len(code) + 1
  <2>1. a + k - 1 = pc /\ Append(code, w)[k] = w
    BY <1>7, <1>4, <1>1
  <2> QED
    BY <2>1, <1>5
<1> QED
  BY <1>3, <1>6, <1>7

LEMMA Handles ==
  ASSUME CacheInv, NEW w \in Words, w = mem[pc], pc \in Addrs, handleInstruction(pc, w),
         Keeps({}, {}), pc' \in Nat, mem' \in [Addrs -> Words],
         page_verion_bitmap' \in [Pages -> Nat]
  PROVE  CacheInv'
<1>1. CacheTypeOK
  BY CacheInvParts
<1>2. \A missed : Keeps(missed, missed)
  BY DEF Keeps
<1>3. CASE pc < Base \/ jits[jit_index(pc)].valid \/ pc \in ignore
  <2>1. UNCHANGED <<jits, arenas, block_c, block, unseen>>
    BY <1>3 DEF handleInstruction
  <2>2. CacheTypeOK'
    BY <2>1, <1>1 DEF CacheTypeOK
  <2>3. SlotsOK' /\ (block_c' => BlockOK(block', mem', page_verion_bitmap'))
    BY <2>1, <1>2, SlotsKept, BlockKept
  <2> QED
    BY <2>2, <2>3, CacheInvParts
<1>4. CASE ~(pc < Base \/ jits[jit_index(pc)].valid \/ pc \in ignore) /\ block_c
  <2>0. pc \in Dram
    BY <1>4, CacheAssumption DEF Addrs, Dram
  <2>1. CASE Continues(pc, w)
    <3>1. /\ UNCHANGED <<jits, arenas, block_c, unseen>>
          /\ block' = [block EXCEPT !.code = Append(@, w)]
      BY <1>4, <2>1 DEF handleInstruction
    <3>2. w \in Translated /\ pc = block.pc + Len(block.code)
      BY <2>1 DEF Continues
    <3>3. /\ block'.pc = block.pc /\ block'.code = Append(block.code, w)
          /\ block'.unseen = block.unseen
          /\ block.code \in Codes
      BY <3>1, <1>1 DEF CacheTypeOK, Codes
    <3>4. BlockOK(block, mem, page_verion_bitmap)
      BY <1>4, CacheInvParts
    <3>5. Agrees(block.pc, Append(block.code, w), block.unseen, mem', page_verion_bitmap')
      BY <3>2, <3>3, <3>4, <2>0, JoinsBlock DEF BlockOK
    <3>6. Append(block.code, w) \in Codes /\ Append(block.code, w) # <<>>
      BY <3>2, <3>3 DEF Codes
    <3>7. BlockOK(block', mem', page_verion_bitmap')
      BY <3>3, <3>4, <3>5, <3>6 DEF BlockOK
    <3>8. block' \in [pc : Nat, code : Codes, unseen : SUBSET Addrs]
      BY <3>1, <3>6, <1>1 DEF CacheTypeOK, Codes
    <3>9. CacheTypeOK'
      BY <3>1, <3>8, <1>1 DEF CacheTypeOK, Codes
    <3> QED
      BY <3>1, <3>7, <3>9, <1>2, SlotsKept, CacheInvParts
  <2>2. CASE ~Continues(pc, w)
    <3>1. end_block_gen(block) \/ end_block_fails(block)
      BY <1>4, <2>2 DEF handleInstruction
    <3>2. /\ jits' \in [Slots -> [pc : Nat, inst_size : Nat, valid : BOOLEAN,
                                  page_version : {0}, arena : Nat, func : Nat]]
          /\ arenas' \in Seq(Seq(Codes)) /\ arenas' # <<>>
          /\ block' \in [pc : Nat, code : Codes, unseen : SUBSET Addrs]
          /\ unseen' \in [Slots -> SUBSET Addrs]
          /\ ~block_c'
      BY <3>1, <1>4, EndsBlock, FailsBlock
    <3>3. block_c' \in BOOLEAN
      BY <3>1 DEF end_block_gen, end_block_fails
    <3>4. CacheTypeOK'
      BY <3>2, <3>3 DEF CacheTypeOK, Codes
    <3> QED
      BY <3>1, <3>2, <3>4, <1>4, EndsBlock, FailsBlock, CacheInvParts
  <2> QED
    BY <2>1, <2>2
<1>5. CASE ~(pc < Base \/ jits[jit_index(pc)].valid \/ pc \in ignore) /\ ~block_c
  <2>0. pc \in Dram
    BY <1>5, CacheAssumption DEF Addrs, Dram
  <2>1. /\ UNCHANGED <<jits, arenas, unseen>>
        /\ \/ w \in Translated /\ block' = [pc |-> pc, code |-> <<w>>, unseen |-> {}] /\ block_c' = TRUE
           \/ UNCHANGED <<block, block_c>>
    BY <1>5 DEF handleInstruction
  <2>2. SlotsOK'
    BY <2>1, <1>2, SlotsKept
  <2>3. CASE w \in Translated /\ block' = [pc |-> pc, code |-> <<w>>, unseen |-> {}] /\ block_c' = TRUE
    <3>1. <<>> \in Codes /\ Len(<<>>) = 0 /\ Append(<<>>, w) = <<w>> /\ pc = pc + 0
      BY <2>0, CacheAssumption DEF Codes, Dram
    <3>2. Agrees(pc, <<w>>, {}, mem', page_verion_bitmap')
      BY <3>1, <2>0, JoinsBlock
    <3>3. <<w>> \in Codes /\ <<w>> # <<>>
      BY <2>3 DEF Codes
    <3>4. CacheTypeOK'
      BY <3>3, <2>1, <2>3, <1>1 DEF CacheTypeOK, Codes, Addrs
    <3> QED
      BY <3>2, <3>3, <3>4, <2>0, <2>2, <2>3, CacheInvParts DEF BlockOK
  <2>4. CASE UNCHANGED <<block, block_c>>
    <3>1. CacheTypeOK'
      BY <2>1, <2>4, <1>1 DEF CacheTypeOK
    <3> QED
      BY <3>1, <2>2, <2>4, <1>5, CacheInvParts
  <2> QED
    BY <2>1, <2>3, <2>4
<1> QED
  BY <1>3, <1>4, <1>5

-----------------------------------------------------------------------------
LEMMA InitCache == JitInit => CacheInv
<1> SUFFICES ASSUME JitInit PROVE CacheInv
  OBVIOUS
<1>1. /\ <<>> \in Codes /\ <<<<>>>> \in Seq(Seq(Codes)) /\ <<<<>>>> # <<>>
  BY DEF Codes
<1>2. NoFunction \in [pc : Nat, inst_size : Nat, valid : BOOLEAN, page_version : {0},
                      arena : Nat, func : Nat]
      /\ ~NoFunction.valid
  BY DEF NoFunction
<1>3. NoBlock \in [pc : Nat, code : Codes, unseen : SUBSET Addrs]
  BY <1>1 DEF NoBlock
<1>4. CacheTypeOK
  <2>1. pc \in Nat /\ mem \in [Addrs -> Words]
    BY CacheAssumption DEF JitInit, Dram
  <2>2. arenas \in Seq(Seq(Codes)) /\ arenas # <<>>
    BY <1>1 DEF JitInit
  <2> QED
    BY <1>2, <1>3, <2>1, <2>2 DEF JitInit, CacheTypeOK, Codes
<1>5. SlotsOK /\ ~block_c
  BY <1>2 DEF JitInit, SlotsOK, SlotOK
<1> QED
  BY <1>4, <1>5, CacheInvParts

LEMMA Drops ==
  ASSUME CacheInv, tick_drops
  PROVE  CacheInv'
<1> DEFINE s == jit_index(pc)
<1>1. CacheTypeOK /\ SlotsOK /\ s \in Slots
  BY CacheInvParts, SlotsOfAddresses DEF CacheTypeOK
<1>2. /\ jits' = [jits EXCEPT ![s].valid = FALSE]
      /\ UNCHANGED <<pc, mem, arenas, page_verion_bitmap, block_c, block, unseen>>
  BY DEF tick_drops
<1> HIDE DEF s
<1>3. CacheTypeOK'
  BY <1>1, <1>2 DEF CacheTypeOK
<1>4. ~jits'[s].valid /\ \A i \in Slots : i # s => jits'[i] = jits[i]
  BY <1>1, <1>2 DEF CacheTypeOK
<1>5. SlotsOK'
  BY <1>1, <1>2, <1>4 DEF SlotsOK, SlotOK
<1> QED
  BY <1>2, <1>3, <1>5, CacheInvParts

(* Writes that this hart does not notice are remembered for every slot and *)
(* for the block that is being built.                                      *)
LEMMA Unnoticed ==
  ASSUME CacheInv, NEW S \in SUBSET Addrs, pc' \in Nat, mem' \in [Addrs -> Words],
         \A x \in Addrs : mem'[x] # mem[x] => x \in S,
         UNCHANGED <<jits, arenas, page_verion_bitmap, block_c>>,
         unseen' = [i \in Slots |-> unseen[i] \cup S],
         block' = IF block_c THEN [block EXCEPT !.unseen = @ \cup S] ELSE block
  PROVE  CacheInv'
<1>1. CacheTypeOK
  BY CacheInvParts
<1>2. CacheTypeOK'
  BY <1>1 DEF CacheTypeOK
<1>3. \A missed : Keeps(missed, missed \cup S)
  BY CacheAssumption DEF Keeps, Addrs, Dram
<1>4. \A i \in Slots : Keeps(unseen[i], unseen'[i])
  BY <1>3
<1>5. block_c => /\ block'.pc = block.pc /\ block'.code = block.code
                 /\ block'.unseen = block.unseen \cup S
  BY <1>1 DEF CacheTypeOK
<1>6. block_c' => BlockOK(block', mem', page_verion_bitmap')
  BY <1>3, <1>5, BlockKept
<1> QED
  BY <1>2, <1>4, <1>6, SlotsKept, CacheInvParts

LEMMA Runs ==
  ASSUME CacheInv, tick_runs
  PROVE  CacheInv'
<1> DEFINE code == CodeOf(Entry)
           stores == Cardinality({i \in DOMAIN code : code[i] = "store"})
           S == {a \in Addrs : mem'[a] # mem[a]}
<1>1. CacheTypeOK
  BY CacheInvParts
<1>2. pc' \in Nat
  <2>1. Entry \in [pc : Nat, inst_size : Nat, valid : BOOLEAN, page_version : {0},
                   arena : Nat, func : Nat]
    BY <1>1, SlotsOfAddresses DEF CacheTypeOK, Entry
  <2> QED
    BY <2>1, <1>1 DEF tick_runs, CacheTypeOK
<1>3. CASE stores = 0 \/ writes >= MaxWrites
  <2>1. UNCHANGED <<mem, jits, arenas, page_verion_bitmap, block_c, block, unseen>>
    BY <1>3 DEF tick_runs
  <2> QED
    BY <2>1, <1>2 DEF CacheInv, CacheTypeOK, CodeOf
<1>4. CASE ~(stores = 0 \/ writes >= MaxWrites)
  <2>1. /\ mem' \in AfterStores(stores)
        /\ unseen' = [i \in Slots |-> unseen[i] \cup S]
        /\ block' = IF block_c THEN [block EXCEPT !.unseen = @ \cup S] ELSE block
        /\ UNCHANGED <<jits, arenas, page_verion_bitmap, block_c>>
    BY <1>4 DEF tick_runs
  <2>2. PICK f \in UNION {[T -> Stored] : T \in {U \in SUBSET Writable : Cardinality(U) <= stores}} :
          mem' = [a \in Addrs |-> IF a \in DOMAIN f THEN f[a] ELSE mem[a]]
    BY <2>1 DEF AfterStores
  <2>3. \A a \in DOMAIN f : f[a] \in Words
    BY <2>2, CacheAssumption
  <2>4. mem' \in [Addrs -> Words]
    BY <2>2, <2>3, <1>1 DEF CacheTypeOK
  <2>5. S \in SUBSET Addrs /\ \A x \in Addrs : mem'[x] # mem[x] => x \in S
    OBVIOUS
  <2> HIDE DEF stores, code, S
  <2> QED
    BY <2>1, <2>4, <2>5, <1>2, Unnoticed
<1> QED
  BY <1>3, <1>4

LEMMA OthersWrite ==
  ASSUME CacheInv, OtherWrites
  PROVE  CacheInv'
<1>1. CacheTypeOK
  BY CacheInvParts
<1>2. PICK a \in Writable, w \in Stored :
        /\ mem' = [mem EXCEPT ![a] = w]
        /\ unseen' = [i \in Slots |-> unseen[i] \cup {a}]
        /\ block' = IF block_c THEN [block EXCEPT !.unseen = @ \cup {a}] ELSE block
  BY DEF OtherWrites
<1>3. a \in Addrs /\ w \in Words
  BY CacheAssumption DEF Addrs, Dram
<1>4. /\ mem' \in [Addrs -> Words] /\ pc' \in Nat
      /\ \A x \in Addrs : mem'[x] # mem[x] => x \in {a}
      /\ UNCHANGED <<jits, arenas, page_verion_bitmap, block_c>>
  BY <1>1, <1>2, <1>3 DEF CacheTypeOK, OtherWrites
<1> QED
  BY <1>2, <1>3, <1>4, Unnoticed

LEMMA Traps ==
  ASSUME CacheInv, tick_traps
  PROVE  CacheInv'
<1>1. CacheTypeOK
  BY CacheInvParts
<1>2. /\ block_c' = FALSE /\ block' = NoBlock /\ pc' = TrapPc
      /\ UNCHANGED <<mem, jits, arenas, page_verion_bitmap, unseen>>
  BY DEF tick_traps, stopBlock
<1>3. NoBlock \in [pc : Nat, code : Codes, unseen : SUBSET Addrs]
  <2>1. <<>> \in Codes
    BY DEF Codes
  <2> QED
    BY <2>1 DEF NoBlock
<1>4. CacheTypeOK'
  <2>1. pc' \in Nat
    BY <1>2, CacheAssumption DEF Dram
  <2> QED
    BY <1>1, <1>2, <1>3, <2>1 DEF CacheTypeOK, Codes
<1>5. \A i \in Slots : Keeps(unseen[i], unseen'[i])
  BY <1>2 DEF Keeps
<1> QED
  BY <1>2, <1>4, <1>5, SlotsKept, CacheInvParts

LEMMA Faults ==
  ASSUME CacheInv, tick_faults
  PROVE  CacheInv'
<1>1. /\ UNCHANGED <<mem, jits, arenas, page_verion_bitmap, block_c, block, unseen>>
      /\ pc' = TrapPc + 1
  BY DEF tick_faults
<1>2. pc' \in Nat
  BY <1>1, CacheAssumption DEF Dram
<1> QED
  BY <1>1, <1>2 DEF CacheInv, CacheTypeOK, CodeOf

(* A tick that leaves memory alone, and one whose store is noticed. *)
LEMMA Steps ==
  ASSUME CacheInv, tick_op \/ tick_jump \/ tick_fence_i
  PROVE  CacheInv'
<1>1. CacheTypeOK
  BY CacheInvParts
<1>2. PICK w \in Words : Interprets(w) /\ handleInstruction(pc, w)
  BY DEF tick_op, tick_jump, tick_fence_i, Words
<1>3. pc' \in Nat /\ UNCHANGED <<mem, page_verion_bitmap>>
  BY <1>1, CacheAssumption DEF tick_op, tick_jump, tick_fence_i, CacheTypeOK, Addrs
<1>4. /\ Keeps({}, {}) /\ mem' \in [Addrs -> Words]
      /\ page_verion_bitmap' \in [Pages -> Nat]
  BY <1>1, <1>3 DEF Keeps, CacheTypeOK
<1> QED
  BY <1>2, <1>3, <1>4, InterpretsWord, Handles

LEMMA Stores ==
  ASSUME CacheInv, tick_store
  PROVE  CacheInv'
<1>1. CacheTypeOK
  BY CacheInvParts
<1>2. Interprets("store") /\ handleInstruction(pc, "store") /\ pc' \in Nat /\ "store" \in Words
  BY <1>1 DEF tick_store, CacheTypeOK, Words
<1>3. /\ Keeps({}, {}) /\ mem' \in [Addrs -> Words]
      /\ page_verion_bitmap' \in [Pages -> Nat]
  <2>1. CASE writes >= MaxWrites
    BY <2>1, <1>1 DEF tick_store, Keeps, CacheTypeOK
  <2>2. CASE ~(writes >= MaxWrites)
    <3>1. PICK a \in Writable, w \in Stored :
            /\ mem' = [mem EXCEPT ![a] = w]
            /\ page_verion_bitmap' = [page_verion_bitmap EXCEPT ![Page(a)] = @ + 1]
      BY <2>2 DEF tick_store
    <3>2. a \in Dram /\ a \in Addrs /\ w \in Words /\ Page(a) \in Pages /\ Dram \subseteq Addrs
      BY CacheAssumption, PagesOfDram DEF Addrs, Dram
    <3>3. mem' \in [Addrs -> Words] /\ \A x \in Dram : x # a => mem'[x] = mem[x]
      BY <3>1, <3>2, <1>1 DEF CacheTypeOK
    <3>4. /\ page_verion_bitmap' \in [Pages -> Nat]
          /\ page_verion_bitmap'[Page(a)] # 0
          /\ \A p \in Pages : p # Page(a) => page_verion_bitmap'[p] = page_verion_bitmap[p]
      BY <3>1, <3>2, <1>1 DEF CacheTypeOK
    <3> QED
      BY <3>3, <3>4 DEF Keeps
  <2> QED
    BY <2>1, <2>2
<1> QED
  BY <1>2, <1>3, InterpretsWord, Handles

LEMMA CacheInductive == CacheInv /\ [JitNext]_vars => CacheInv'
<1> SUFFICES ASSUME CacheInv, [JitNext]_vars PROVE CacheInv'
  OBVIOUS
<1>1. CASE UNCHANGED vars
  BY <1>1 DEF vars, jitVars, CacheInv, CacheTypeOK, CodeOf
<1>2. CASE JitNext
  BY <1>2, Drops, Runs, Traps, Faults, Steps, Stores, OthersWrite DEF JitNext
<1> QED
  BY <1>1, <1>2

(* In every reachable state a valid slot names code of its own index that  *)
(* agrees with memory as long as its page's version is 0, and so does the  *)
(* block that is being built.                                              *)
THEOREM CacheInvHolds == JitSpec => []CacheInv
BY InitCache, CacheInductive, PTL DEF JitSpec

(* A block that runs executes what memory holds, but for writes that the   *)
(* hart could not notice and instructions beyond the block's first page.   *)
THEOREM BlocksAreNeverStale == JitSpec => BlocksMatchMemory
<1> DEFINE Match ==
      ran'.how = "block" =>
        \A i \in DOMAIN ran'.code :
          LET a == pc + i - 1
          IN  \/ ran'.code[i] = mem[a]
              \/ a \in unseen[jit_index(pc)]
              \/ Page(a) # Page(pc)
<1>1. CacheInv /\ JitNext => Match
  <2> SUFFICES ASSUME CacheInv, JitNext, ran'.how = "block",
                      NEW i \in DOMAIN ran'.code
               PROVE  \/ ran'.code[i] = mem[pc + i - 1]
                      \/ pc + i - 1 \in unseen[jit_index(pc)]
                      \/ Page(pc + i - 1) # Page(pc)
    OBVIOUS
  <2>1. CacheTypeOK /\ SlotsOK /\ jit_index(pc) \in Slots
    BY CacheInvParts, SlotsOfAddresses DEF CacheTypeOK
  <2>2. tick_runs /\ ran'.code = CodeOf(Entry)
    BY RanSaysHow, InterpretsWord DEF Nothing
  <2>3. Entry.valid /\ Entry.pc = pc /\ Entry.page_version = page_verion_bitmap[Page(pc)]
    BY <2>2 DEF tick_runs, Matches, Fresh
  <2>4. page_verion_bitmap[Page(pc)] = 0
    BY <2>1, <2>3 DEF CacheTypeOK, Entry
  <2>5. Agrees(pc, CodeOf(Entry), unseen[jit_index(pc)], mem, page_verion_bitmap)
    BY <2>1, <2>3 DEF SlotsOK, SlotOK, Entry, CodeOf
  <2>6. CodeOf(Entry) \in Codes
    BY <2>1, <2>3 DEF SlotsOK, SlotOK, Entry, CodeOf, CacheTypeOK, Codes
  <2>7. i \in 1 .. Len(CodeOf(Entry))
    BY <2>2, <2>6 DEF Codes
  <2> QED
    BY <2>2, <2>4, <2>5, <2>7 DEF Agrees
<1>2. CacheInv /\ [JitNext]_vars => [Match]_vars
  BY <1>1
<1> QED
  BY <1>2, CacheInvHolds, PTL DEF JitSpec, BlocksMatchMemory
=============================================================================
