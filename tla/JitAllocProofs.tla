--------------------------- MODULE JitAllocProofs ---------------------------
(***************************************************************************)
(* The allocator is correct for every number of guest and host registers   *)
(* and every length of a block: it implements a register file.             *)
(***************************************************************************)
EXTENDS JitAlloc, TLAPS, WellFoundedInduction

(* AllocInv and CleanIsSaved of an emitter. *)
Consistent(e) ==
  /\ e.allocated = e.valid /\ e.dirty \subseteq e.allocated
  /\ 0 \notin e.allocated
  /\ \A g \in e.allocated : e.host_reg[g] \in e.used /\ e.vreg[e.host_reg[g]] = g
  /\ \A i \in e.used : e.vreg[i] \in e.allocated /\ e.host_reg[e.vreg[i]] = i
  /\ \A g \in e.allocated \ e.dirty : e.hv[e.host_reg[g]] = e.mem[g]

Regs(e) ==
  [g \in Guest |-> IF g \in e.allocated THEN e.hv[e.host_reg[g]] ELSE e.mem[g]]

(* What an allocation of g keeps, with some host registers locked. *)
Keeps(e, n, g, locked) ==
  /\ n \in Emitter /\ Consistent(n) /\ Regs(n) = Regs(e)
  /\ g # 0 => g \in n.allocated
  /\ \A k \in e.allocated :
       e.host_reg[k] \in locked => k \in n.allocated /\ n.host_reg[k] = e.host_reg[k]

-----------------------------------------------------------------------------
(* Every set of numbers that is not empty has a least element. *)
LEMMA LeastExists ==
  ASSUME NEW T, T \subseteq Nat, T # {}
  PROVE  \E x \in T : \A y \in T : x <= y
<1>1. \E x \in T : \A y \in T : ~ (<<y, x>> \in OpToRel(<, Nat))
  BY NatLessThanWellFounded, WFMin, Zenon
<1>2. PICK x \in T : \A y \in T : ~ (<<y, x>> \in OpToRel(<, Nat))
  BY <1>1
<1>3. \A y \in T : ~ (y < x)
  BY <1>2, Zenon DEF OpToRel
<1> QED
  BY <1>3

(* The register found free is a host register that is not used or locked. *)
LEMMA LeastFree ==
  ASSUME NEW e, NEW locked, Free(e, locked) # {}
  PROVE  Least(Free(e, locked)) \in Free(e, locked)
<1>1. Free(e, locked) \subseteq Nat
  BY HostsAssumption DEF Free, Hosts
<1>2. \E x \in Free(e, locked) : \A y \in Free(e, locked) : x <= y
  BY <1>1, LeastExists
<1> QED
  BY <1>2 DEF Least

(* The victim is a host register that is not locked. *)
LEMMA VictimOpen ==
  ASSUME NEW e \in Emitter, NEW locked, Hosts \ locked # {}
  PROVE  Victim(e, locked) \in Hosts \ locked
<1> DEFINE open == Hosts \ locked
           Ages == {Age(e, i) : i \in open}
<1>1. \A i \in open : Age(e, i) \in Nat
  <2> SUFFICES ASSUME NEW i \in open PROVE Age(e, i) \in Nat
    OBVIOUS
  <2>1. i \in Nat /\ i \in Hosts
    BY HostsAssumption DEF Hosts
  <2>2. e.last_use[i] \in Nat
    BY <2>1 DEF Emitter
  <2>3. HostCount \in Nat
    BY HostsAssumption
  <2>4. \A a, b, c \in Nat : a * b + c \in Nat
    OBVIOUS
  <2> QED
    BY <2>1, <2>2, <2>3, <2>4 DEF Age
<1>2. Ages \subseteq Nat /\ Ages # {}
  BY <1>1
<1>3. PICK x \in Ages : \A y \in Ages : x <= y
  BY <1>2, LeastExists
<1>4. PICK i \in open : x = Age(e, i)
  BY <1>3
<1>5. \A j \in open : Age(e, i) <= Age(e, j)
  BY <1>3, <1>4
<1> QED
  BY <1>4, <1>5 DEF Victim

(* With at most two host registers locked, one is left. *)
LEMMA HostLeft ==
  ASSUME NEW a, NEW b
  PROVE  Hosts \ {a, b} # {} /\ Hosts \ {a} # {} /\ Hosts \ {} # {}
<1>1. {1, 2, 3} \subseteq Hosts
  BY HostsAssumption DEF Hosts
<1>2. \E i \in {1, 2, 3} : i # a /\ i # b
  OBVIOUS
<1> QED
  BY <1>1, <1>2

(* The parts of a register file that lives in an emitter. *)
LEMMA RegsOf ==
  ASSUME NEW e \in Emitter, NEW g \in Guest
  PROVE  Regs(e)[g] = IF g \in e.allocated THEN e.hv[e.host_reg[g]] ELSE e.mem[g]
BY DEF Regs

LEMMA RegsEqual ==
  ASSUME NEW e, NEW n, \A g \in Guest : Regs(n)[g] = Regs(e)[g]
  PROVE  Regs(n) = Regs(e)
BY DEF Regs

-----------------------------------------------------------------------------
(* A register that is allocated already is only stamped. *)
LEMMA StampKeeps ==
  ASSUME NEW e \in Emitter, Consistent(e), NEW g \in e.allocated, NEW locked
  PROVE  Keeps(e, ensure_loaded(Stamp(e, g), g), g, locked)
<1> DEFINE n == Stamp(e, g)
<1>1. g \in Guest /\ g \in e.valid
  BY DEF Emitter, Consistent
<1>2. /\ n.allocated = e.allocated /\ n.valid = e.valid /\ n.dirty = e.dirty
      /\ n.host_reg = e.host_reg /\ n.used = e.used /\ n.vreg = e.vreg
      /\ n.hv = e.hv /\ n.mem = e.mem
  BY DEF Stamp, Emitter
<1>3. n \in Emitter
  <2>1. e.uses + 1 \in Nat /\ e.host_idx[g] \in Hosts
    BY <1>1 DEF Emitter
  <2>2. [e.last_use EXCEPT ![e.host_idx[g]] = e.uses + 1] \in [Hosts -> Nat]
    BY <2>1 DEF Emitter
  <2> QED
    BY <2>1, <2>2 DEF Stamp, Emitter
<1>4. ensure_loaded(n, g) = n
  BY <1>1, <1>2 DEF ensure_loaded
<1> HIDE DEF n
<1>5. Consistent(n)
  BY <1>2 DEF Consistent
<1>6. Regs(n) = Regs(e)
  BY <1>2 DEF Regs
<1> QED
  BY <1>2, <1>3, <1>4, <1>5, <1>6 DEF Keeps, n

(* A free host register is taken and loaded. *)
LEMMA TakeFreeKeeps ==
  ASSUME NEW e \in Emitter, Consistent(e), NEW locked,
         NEW g \in Guest \ {0}, g \notin e.allocated, NEW i \in Hosts \ e.used
  PROVE  Keeps(e, ensure_loaded(TakeFree(e, g, i), g), g, locked)
<1> DEFINE t == TakeFree(e, g, i)
           n == ensure_loaded(t, g)
<1>1. /\ t.allocated = e.allocated \cup {g} /\ t.valid = e.valid /\ t.dirty = e.dirty
      /\ t.host_reg = [e.host_reg EXCEPT ![g] = i] /\ t.used = e.used \cup {i}
      /\ t.vreg = [e.vreg EXCEPT ![i] = g] /\ t.hv = e.hv /\ t.mem = e.mem
      /\ t \in Emitter
  BY DEF TakeFree, Emitter
<1> HIDE DEF t
<1>2. t.host_reg[g] = i /\ g \notin t.valid
  BY <1>1 DEF Emitter, Consistent
<1>3. n = [t EXCEPT !.hv = [t.hv EXCEPT ![i] = t.mem[g]], !.valid = t.valid \cup {g}]
  BY <1>1, <1>2 DEF ensure_loaded, Emitter
<1>4. /\ n.allocated = e.allocated \cup {g} /\ n.valid = e.valid \cup {g} /\ n.dirty = e.dirty
      /\ n.host_reg = [e.host_reg EXCEPT ![g] = i] /\ n.used = e.used \cup {i}
      /\ n.vreg = [e.vreg EXCEPT ![i] = g] /\ n.hv = [e.hv EXCEPT ![i] = e.mem[g]]
      /\ n.mem = e.mem
  BY <1>1, <1>3 DEF Emitter
<1>5. n \in Emitter
  <2>1. t.mem[g] \in Val
    BY <1>1 DEF Emitter
  <2>2. [t.hv EXCEPT ![i] = t.mem[g]] \in [Hosts -> Val]
    BY <1>1, <2>1 DEF Emitter
  <2>3. t.valid \cup {g} \in SUBSET Guest
    BY <1>1 DEF Emitter
  <2> QED
    BY <1>1, <1>3, <2>2, <2>3 DEF Emitter
<1> HIDE DEF n
<1>6. \A k \in e.allocated : /\ k # g /\ k \in Guest /\ e.host_reg[k] \in e.used
                             /\ e.host_reg[k] # i /\ n.host_reg[k] = e.host_reg[k]
                             /\ n.hv[n.host_reg[k]] = e.hv[e.host_reg[k]]
  BY <1>4 DEF Emitter, Consistent
<1>7. n.host_reg[g] = i /\ n.vreg[i] = g /\ n.hv[i] = e.mem[g]
  BY <1>4 DEF Emitter
<1>8. \A j \in e.used : j # i /\ j \in Hosts /\ n.vreg[j] = e.vreg[j]
  BY <1>4 DEF Emitter
<1>9. Consistent(n)
  <2>1. n.allocated = n.valid /\ n.dirty \subseteq n.allocated /\ 0 \notin n.allocated
    BY <1>4 DEF Consistent
  <2>2. \A k \in n.allocated : n.host_reg[k] \in n.used /\ n.vreg[n.host_reg[k]] = k
    BY <1>4, <1>6, <1>7, <1>8 DEF Consistent
  <2>3. \A j \in n.used : n.vreg[j] \in n.allocated /\ n.host_reg[n.vreg[j]] = j
    BY <1>4, <1>6, <1>7, <1>8 DEF Consistent
  <2>4. \A k \in n.allocated \ n.dirty : n.hv[n.host_reg[k]] = n.mem[k]
    BY <1>4, <1>6, <1>7 DEF Consistent
  <2> QED
    BY <2>1, <2>2, <2>3, <2>4 DEF Consistent
<1>10. Regs(n) = Regs(e)
  <2> SUFFICES ASSUME NEW k \in Guest PROVE Regs(n)[k] = Regs(e)[k]
    BY RegsEqual
  <2>1. CASE k = g
    BY <2>1, <1>4, <1>5, <1>7, RegsOf
  <2>2. CASE k \in e.allocated
    BY <2>2, <1>4, <1>5, <1>6, RegsOf
  <2>3. CASE k \notin e.allocated /\ k # g
    BY <2>3, <1>4, <1>5, RegsOf
  <2> QED
    BY <2>1, <2>2, <2>3
<1> QED
  BY <1>4, <1>5, <1>6, <1>9, <1>10 DEF Keeps, n, t

(* A host register that is not locked is spilled, taken and loaded. *)
LEMMA TakeSpilledKeeps ==
  ASSUME NEW e \in Emitter, Consistent(e), NEW locked,
         NEW g \in Guest \ {0}, g \notin e.allocated, NEW i \in e.used \ locked
  PROVE  Keeps(e, ensure_loaded(TakeSpilled(e, g, i), g), g, locked)
<1> DEFINE v == e.vreg[i]
           m == IF v \in e.dirty THEN [e.mem EXCEPT ![v] = e.hv[i]] ELSE e.mem
           t == TakeSpilled(e, g, i)
           n == ensure_loaded(t, g)
<1>1. /\ i \in Hosts /\ v \in e.allocated /\ v \in Guest /\ v # g /\ e.host_reg[v] = i
      /\ e.hv[i] \in Val
  BY DEF Emitter, Consistent
<1>2. m \in [Guest -> Val] /\ m[v] = e.hv[i] /\ \A k \in Guest \ {v} : m[k] = e.mem[k]
  <2>1. CASE v \in e.dirty
    BY <1>1, <2>1 DEF Emitter
  <2>2. CASE v \notin e.dirty
    <3>1. e.hv[e.host_reg[v]] = e.mem[v]
      BY <1>1, <2>2 DEF Consistent
    <3> QED
      BY <1>1, <2>2, <3>1 DEF Emitter
  <2> QED
    BY <2>1, <2>2
<1> HIDE DEF m
<1> DEFINE p == spill(e, i)
<1>3. /\ p \in Emitter
      /\ p.used = e.used \ {i} /\ p.mem = m /\ p.allocated = e.allocated \ {v}
      /\ p.valid = e.valid \ {v} /\ p.dirty = e.dirty \ {v} /\ p.vreg = e.vreg
      /\ p.host_reg = e.host_reg /\ p.host_idx = e.host_idx /\ p.hv = e.hv
  <2>1. p = [e EXCEPT !.used = e.used \ {i}, !.mem = m, !.allocated = e.allocated \ {v},
                      !.valid = e.valid \ {v}, !.dirty = e.dirty \ {v}]
    BY DEF spill, m, Emitter
  <2> HIDE DEF p
  <2>2. /\ e.used \ {i} \in SUBSET Hosts /\ e.allocated \ {v} \in SUBSET Guest
        /\ e.valid \ {v} \in SUBSET Guest /\ e.dirty \ {v} \in SUBSET Guest
    BY DEF Emitter
  <2>3. p \in Emitter
    BY <1>2, <2>1, <2>2 DEF Emitter
  <2> QED
    BY <2>1, <2>3 DEF Emitter
<1> HIDE DEF p
<1>4. t = [p EXCEPT !.vreg = [p.vreg EXCEPT ![i] = g], !.used = p.used \cup {i},
                    !.valid = p.valid \ {g}, !.allocated = p.allocated \cup {g},
                    !.host_reg = [p.host_reg EXCEPT ![g] = i],
                    !.host_idx = [p.host_idx EXCEPT ![g] = i]]
  BY <1>3 DEF TakeSpilled, p, Emitter
<1>5. t \in Emitter
  <2>1. /\ [p.vreg EXCEPT ![i] = g] \in [Hosts -> Guest \cup {NoReg}]
        /\ [p.host_reg EXCEPT ![g] = i] \in [Guest -> Hosts \cup {NoReg}]
        /\ [p.host_idx EXCEPT ![g] = i] \in [Guest -> Hosts]
    BY <1>1, <1>3 DEF Emitter
  <2>2. /\ p.used \cup {i} \in SUBSET Hosts /\ p.valid \ {g} \in SUBSET Guest
        /\ p.allocated \cup {g} \in SUBSET Guest
    BY <1>1, <1>3 DEF Emitter
  <2> DEFINE q == [p EXCEPT !.vreg = [p.vreg EXCEPT ![i] = g],
                            !.host_reg = [p.host_reg EXCEPT ![g] = i],
                            !.host_idx = [p.host_idx EXCEPT ![g] = i]]
  <2>3. q \in Emitter
    <3>1. p \in Emitter
      BY <1>3
    <3> QED
      BY <3>1, <2>1 DEF Emitter
  <2>4. t = [q EXCEPT !.used = p.used \cup {i}, !.valid = p.valid \ {g},
                      !.allocated = p.allocated \cup {g}]
    <3>1. p \in Emitter
      BY <1>3
    <3> HIDE DEF t
    <3> QED
      BY <3>1, <1>4 DEF Emitter
  <2> HIDE DEF t, q
  <2> QED
    BY <2>2, <2>3, <2>4 DEF Emitter
<1>6. /\ t.allocated = (e.allocated \ {v}) \cup {g} /\ t.valid = e.valid \ {v, g}
      /\ t.dirty = e.dirty \ {v} /\ t.host_reg = [e.host_reg EXCEPT ![g] = i]
      /\ t.used = e.used /\ t.vreg = [e.vreg EXCEPT ![i] = g] /\ t.hv = e.hv /\ t.mem = m
  <2> HIDE DEF t
  <2>1. /\ t.allocated = p.allocated \cup {g} /\ t.valid = p.valid \ {g} /\ t.dirty = p.dirty
        /\ t.host_reg = [p.host_reg EXCEPT ![g] = i] /\ t.used = p.used \cup {i}
        /\ t.vreg = [p.vreg EXCEPT ![i] = g] /\ t.hv = p.hv /\ t.mem = p.mem
    BY <1>3, <1>4 DEF Emitter
  <2> QED
    BY <1>3, <2>1
<1> HIDE DEF t
<1>7. t.host_reg[g] = i /\ g \notin t.valid
  BY <1>6 DEF Emitter
<1>8. n = [t EXCEPT !.hv = [t.hv EXCEPT ![i] = t.mem[g]], !.valid = t.valid \cup {g}]
  BY <1>5, <1>6, <1>7 DEF ensure_loaded, Emitter
<1>9. m[g] = e.mem[g] /\ m[g] \in Val
  BY <1>1, <1>2
<1>10. n \in Emitter
  <2>1. [t.hv EXCEPT ![i] = t.mem[g]] \in [Hosts -> Val]
    BY <1>1, <1>5, <1>6, <1>9 DEF Emitter
  <2>2. t.valid \cup {g} \in SUBSET Guest
    BY <1>5 DEF Emitter
  <2> HIDE DEF n
  <2> QED
    BY <1>5, <1>8, <2>1, <2>2 DEF Emitter
<1>11. /\ n.allocated = (e.allocated \ {v}) \cup {g} /\ n.valid = (e.valid \ {v}) \cup {g}
       /\ n.dirty = e.dirty \ {v} /\ n.host_reg = [e.host_reg EXCEPT ![g] = i]
       /\ n.used = e.used /\ n.vreg = [e.vreg EXCEPT ![i] = g]
       /\ n.hv = [e.hv EXCEPT ![i] = m[g]] /\ n.mem = m
  BY <1>1, <1>5, <1>6, <1>8 DEF Emitter
<1> HIDE DEF n
<1>12. n.host_reg[g] = i /\ n.vreg[i] = g /\ n.hv[i] = m[g]
  BY <1>1, <1>11 DEF Emitter
<1>13. \A k \in e.allocated \ {v} :
         /\ k # g /\ k \in Guest /\ e.host_reg[k] \in e.used /\ e.host_reg[k] \in Hosts
         /\ e.host_reg[k] # i
  BY <1>1 DEF Emitter, Consistent
<1>14. \A k \in e.allocated \ {v} :
         /\ n.host_reg[k] = e.host_reg[k]
         /\ n.hv[n.host_reg[k]] = e.hv[e.host_reg[k]]
         /\ m[k] = e.mem[k]
  BY <1>2, <1>11, <1>13 DEF Emitter
<1>15. \A j \in e.used \ {i} : /\ j \in Hosts /\ n.vreg[j] = e.vreg[j]
                               /\ e.vreg[j] \in e.allocated \ {v}
  BY <1>1, <1>11 DEF Emitter, Consistent
<1>16. Consistent(n)
  <2>1. n.allocated = n.valid /\ n.dirty \subseteq n.allocated /\ 0 \notin n.allocated
    BY <1>11 DEF Consistent
  <2>2. \A k \in n.allocated : n.host_reg[k] \in n.used /\ n.vreg[n.host_reg[k]] = k
    BY <1>11, <1>12, <1>13, <1>14, <1>15 DEF Consistent
  <2>3. \A j \in n.used : n.vreg[j] \in n.allocated /\ n.host_reg[n.vreg[j]] = j
    BY <1>11, <1>12, <1>13, <1>14, <1>15 DEF Consistent
  <2>4. \A k \in n.allocated \ n.dirty : n.hv[n.host_reg[k]] = n.mem[k]
    BY <1>11, <1>12, <1>14 DEF Consistent
  <2> QED
    BY <2>1, <2>2, <2>3, <2>4 DEF Consistent
<1>17. Regs(n) = Regs(e)
  <2> SUFFICES ASSUME NEW k \in Guest PROVE Regs(n)[k] = Regs(e)[k]
    BY RegsEqual
  <2>1. CASE k = g
    <3>1. Regs(e)[k] = e.mem[g]
      BY <2>1, RegsOf
    <3>2. Regs(n)[k] = n.hv[n.host_reg[g]]
      BY <2>1, <1>10, <1>11, RegsOf
    <3> QED
      BY <3>1, <3>2, <1>9, <1>12
  <2>2. CASE k = v
    BY <2>2, <1>1, <1>2, <1>10, <1>11, RegsOf
  <2>3. CASE k \in e.allocated \ {v}
    BY <2>3, <1>10, <1>11, <1>14, RegsOf
  <2>4. CASE k \notin e.allocated /\ k # g
    BY <2>4, <1>1, <1>2, <1>10, <1>11, RegsOf
  <2> QED
    BY <2>1, <2>2, <2>3, <2>4
<1>18. \A k \in e.allocated : e.host_reg[k] \in locked =>
          k \in n.allocated /\ n.host_reg[k] = e.host_reg[k]
  BY <1>1, <1>11, <1>14
<1> QED
  BY <1>10, <1>11, <1>16, <1>17, <1>18 DEF Keeps, n, t

(* An allocation loses no register, whatever has to be spilled. *)
LEMMA AllocKeeps ==
  ASSUME NEW e \in Emitter, Consistent(e), NEW g \in Guest, NEW locked,
         Hosts \ locked # {}
  PROVE  Keeps(e, rvjit_alloc_reg(e, g, locked), g, locked)
<1>1. CASE g = 0
  BY <1>1 DEF rvjit_alloc_reg, Keeps
<1>2. CASE g # 0 /\ g \in e.allocated
  BY <1>2, StampKeeps DEF rvjit_alloc_reg
<1>3. CASE g # 0 /\ g \notin e.allocated /\ Free(e, locked) # {}
  <2>1. Least(Free(e, locked)) \in Hosts \ e.used
    BY <1>3, LeastFree DEF Free
  <2> QED
    BY <1>3, <2>1, TakeFreeKeeps DEF rvjit_alloc_reg
<1>4. CASE g # 0 /\ g \notin e.allocated /\ Free(e, locked) = {}
  <2>1. Victim(e, locked) \in e.used \ locked
    BY <1>4, VictimOpen DEF Free
  <2> QED
    BY <1>4, <2>1, TakeSpilledKeeps DEF rvjit_alloc_reg
<1> QED
  BY <1>1, <1>2, <1>3, <1>4

-----------------------------------------------------------------------------
(* The allocations of an instruction leave all its registers in host       *)
(* registers: a later allocation spares the earlier ones.                  *)
LEMMA AllocRTypeKeeps ==
  ASSUME NEW e \in Emitter, Consistent(e), NEW rd \in Guest \ {0}, NEW rs1 \in Guest,
         NEW rs2 \in Guest
  PROVE  LET n == AllocRType(e, rd, rs1, rs2)
         IN  /\ n \in Emitter /\ Consistent(n) /\ Regs(n) = Regs(e)
             /\ rd \in n.allocated
             /\ rs1 # 0 => rs1 \in n.allocated
             /\ rs2 # 0 => rs2 \in n.allocated
<1> DEFINE e1 == rvjit_alloc_reg(e, rd, {})
           L1 == {HostOf(e1, rd)}
           e2 == rvjit_alloc_reg(e1, rs1, L1)
           L2 == {HostOf(e2, rs1), HostOf(e2, rd)}
           n == rvjit_alloc_reg(e2, rs2, L2)
<1>1. Keeps(e, e1, rd, {})
  BY AllocKeeps, HostLeft
<1> HIDE DEF e1
<1>2. Keeps(e1, e2, rs1, L1)
  <2>1. Hosts \ L1 # {}
    BY HostLeft
  <2>2. e1 \in Emitter /\ Consistent(e1)
    BY <1>1 DEF Keeps
  <2> QED
    BY <2>1, <2>2, AllocKeeps
<1> HIDE DEF e2
<1>3. Keeps(e2, n, rs2, L2)
  <2>1. Hosts \ L2 # {}
    BY HostLeft
  <2>2. e2 \in Emitter /\ Consistent(e2)
    BY <1>2 DEF Keeps
  <2> QED
    BY <2>1, <2>2, AllocKeeps
<1> HIDE DEF n
<1>4. rd \in e2.allocated
  BY <1>1, <1>2 DEF Keeps, HostOf
<1>5. rd \in n.allocated /\ (rs1 # 0 => rs1 \in n.allocated)
  BY <1>2, <1>3, <1>4 DEF Keeps, HostOf
<1>6. n = AllocRType(e, rd, rs1, rs2)
  BY DEF AllocRType, n, e2, e1
<1> QED
  BY <1>1, <1>2, <1>3, <1>5, <1>6 DEF Keeps

(* A store's allocations lose no register either. *)
LEMMA STypeKeeps ==
  ASSUME NEW e \in Emitter, Consistent(e), NEW rs1 \in Guest, NEW rs2 \in Guest
  PROVE  LET n == inst_emit_s_type(e, rs1, rs2)
         IN  n \in Emitter /\ Consistent(n) /\ Regs(n) = Regs(e)
<1> DEFINE e1 == rvjit_alloc_reg(e, rs1, {})
           n == rvjit_alloc_reg(e1, rs2, {HostOf(e1, rs1)})
<1>1. Keeps(e, e1, rs1, {})
  BY AllocKeeps, HostLeft
<1> HIDE DEF e1
<1>2. Keeps(e1, n, rs2, {HostOf(e1, rs1)})
  <2>1. Hosts \ {HostOf(e1, rs1)} # {}
    BY HostLeft
  <2>2. e1 \in Emitter /\ Consistent(e1)
    BY <1>1 DEF Keeps
  <2> QED
    BY <2>1, <2>2, AllocKeeps
<1> HIDE DEF n
<1>3. n = inst_emit_s_type(e, rs1, rs2)
  BY DEF inst_emit_s_type, n, e1
<1> QED
  BY <1>1, <1>2, <1>3 DEF Keeps

(* The value of a source operand in the register file. *)
OperandOf(R, g) == IF g = 0 THEN Zero ELSE R[g]

(* A computation replaces its destination and nothing else. *)
LEMMA RTypeComputes ==
  ASSUME NEW e \in Emitter, Consistent(e), NEW op \in Ops, NEW rd \in Guest \ {0},
         NEW rs1 \in Guest, NEW rs2 \in Guest
  PROVE  LET n == inst_emit_r_type(e, op, rd, rs1, rs2)
         IN  /\ n \in Emitter /\ Consistent(n)
             /\ Regs(n) = [Regs(e) EXCEPT ![rd] =
                             Apply(op, OperandOf(Regs(e), rs1), OperandOf(Regs(e), rs2))]
<1> DEFINE a == AllocRType(e, rd, rs1, rs2)
           h == a.host_reg[rd]
           x == Apply(op, Source(a, rs1), Source(a, rs2))
           n == inst_emit_r_type(e, op, rd, rs1, rs2)
<1>1. /\ a \in Emitter /\ Consistent(a) /\ Regs(a) = Regs(e) /\ rd \in a.allocated
      /\ rs1 # 0 => rs1 \in a.allocated
      /\ rs2 # 0 => rs2 \in a.allocated
  BY AllocRTypeKeeps
<1>2. n = [a EXCEPT !.hv = [a.hv EXCEPT ![h] = x], !.dirty = a.dirty \cup {rd}]
  BY <1>1 DEF inst_emit_r_type, Emitter
<1> HIDE DEF a, n
<1>3. /\ Source(a, rs1) = OperandOf(Regs(e), rs1)
      /\ Source(a, rs2) = OperandOf(Regs(e), rs2)
  BY <1>1, RegsOf DEF Source, OperandOf
<1>4. h \in Hosts /\ h \in a.used /\ a.vreg[h] = rd
  BY <1>1 DEF Emitter, Consistent
<1>5. \A g \in a.allocated : a.hv[a.host_reg[g]] \in Val
  BY <1>1 DEF Emitter, Consistent
<1>6. x \in Val
  <2>1. Source(a, rs1) \in Val /\ Source(a, rs2) \in Val
    BY <1>1, <1>5, ValAssumption DEF Source
  <2> QED
    BY <2>1, ValAssumption
<1> HIDE DEF x
<1>7. n \in Emitter
  <2>1. [a.hv EXCEPT ![h] = x] \in [Hosts -> Val] /\ a.dirty \cup {rd} \in SUBSET Guest
    BY <1>1, <1>4, <1>6 DEF Emitter
  <2>2. a \in Emitter
    BY <1>1
  <2> HIDE DEF h
  <2> QED
    BY <1>2, <2>1, <2>2 DEF Emitter
<1>8. /\ n.allocated = a.allocated /\ n.valid = a.valid /\ n.dirty = a.dirty \cup {rd}
      /\ n.host_reg = a.host_reg /\ n.used = a.used /\ n.vreg = a.vreg
      /\ n.hv = [a.hv EXCEPT ![h] = x] /\ n.mem = a.mem
  BY <1>1, <1>2 DEF Emitter
<1>9. \A g \in a.allocated \ {rd} : a.host_reg[g] \in Hosts /\ a.host_reg[g] # h
  BY <1>1, <1>4 DEF Emitter, Consistent
<1>10. n.hv[h] = x /\ \A g \in a.allocated \ {rd} : n.hv[a.host_reg[g]] = a.hv[a.host_reg[g]]
  BY <1>1, <1>4, <1>8, <1>9 DEF Emitter
<1>11. Consistent(n)
  BY <1>1, <1>8, <1>10 DEF Consistent
<1>12. \A g \in Guest : Regs(n)[g] = IF g = rd THEN x ELSE Regs(a)[g]
  <2> SUFFICES ASSUME NEW g \in Guest
               PROVE  Regs(n)[g] = IF g = rd THEN x ELSE Regs(a)[g]
    OBVIOUS
  <2> HIDE DEF h
  <2>1. /\ g \in a.allocated => Regs(n)[g] = n.hv[a.host_reg[g]]
        /\ g \in a.allocated => Regs(a)[g] = a.hv[a.host_reg[g]]
        /\ g \notin a.allocated => Regs(n)[g] = a.mem[g] /\ Regs(a)[g] = a.mem[g]
    BY <1>8 DEF Regs
  <2>2. CASE g = rd
    BY <1>1, <1>10, <2>1, <2>2 DEF h
  <2>3. CASE g \in a.allocated \ {rd}
    BY <1>10, <2>1, <2>3
  <2>4. CASE g \notin a.allocated
    BY <1>1, <2>1, <2>4
  <2> QED
    BY <2>2, <2>3, <2>4
<1>13. Regs(n) = [Regs(a) EXCEPT ![rd] = x]
  BY <1>12 DEF Regs
<1> QED
  BY <1>1, <1>3, <1>7, <1>11, <1>13 DEF n, x

(* A block starts with every register in the array, and ends with it. *)
LEMMA ResetEmpty ==
  ASSUME NEW hv \in [Hosts -> Val], NEW mem \in [Guest -> Val]
  PROVE  reset(hv, mem) \in Emitter /\ Consistent(reset(hv, mem)) /\ Regs(reset(hv, mem)) = mem
<1>1. 1 \in Hosts /\ 0 \in Nat
  BY HostsAssumption DEF Hosts
<1>2. reset(hv, mem) \in Emitter
  BY <1>1 DEF reset, Emitter
<1>3. Consistent(reset(hv, mem))
  BY DEF reset, Consistent
<1>4. Regs(reset(hv, mem)) = mem
  BY DEF reset, Regs
<1> QED
  BY <1>2, <1>3, <1>4

(* The epilogue leaves in the array what the guest's registers hold. *)
LEMMA EpilogueSaves ==
  ASSUME NEW e \in Emitter, Consistent(e)
  PROVE  rvjit_emit_epilogue(e) = Regs(e) /\ Regs(e) \in [Guest -> Val]
<1>1. \A g \in e.allocated : g # 0 /\ e.hv[e.host_reg[g]] \in Val
  BY DEF Emitter, Consistent
<1>2. \A g \in Guest : rvjit_emit_epilogue(e)[g] = Regs(e)[g]
  BY <1>1, RegsOf DEF rvjit_emit_epilogue, Consistent
<1>3. rvjit_emit_epilogue(e) = Regs(e)
  BY <1>2 DEF rvjit_emit_epilogue, Regs
<1>4. Regs(e) \in [Guest -> Val]
  BY <1>1 DEF Regs, Emitter
<1> QED
  BY <1>3, <1>4

-----------------------------------------------------------------------------
(* The inductive invariant: the types, and that the tables agree. *)
IInv == AllocTypeOK /\ Consistent(em)

(* A first block starts with the tables empty. *)
LEMMA InitIInv ==
  ASSUME AllocInit
  PROVE  IInv /\ GuestRegs \in [Guest -> Val]
<1>1. PICK hv \in [Hosts -> Val], mem \in [Guest -> Val] : em = reset(hv, mem)
  BY DEF AllocInit
<1>2. em \in Emitter /\ Consistent(em) /\ Regs(em) = mem
  BY <1>1, ResetEmpty
<1>3. count \in Nat
  BY DEF AllocInit
<1> QED
  BY <1>2, <1>3 DEF IInv, AllocTypeOK, GuestRegs, Regs

(* What a step does to the emitter and to the guest's registers. *)
StepKeeps ==
  /\ IInv'
  /\ \/ Regs(em') = Regs(em)
     \/ \E op \in Ops, rd \in Guest \ {0}, rs1, rs2 \in Guest :
          Regs(em') = [Regs(em) EXCEPT ![rd] =
                         Apply(op, OperandOf(Regs(em), rs1), OperandOf(Regs(em), rs2))]

(* Every step keeps the invariant, and changes at most one register. *)
LEMMA NextKeeps ==
  ASSUME IInv, [AllocNext]_allocVars
  PROVE  StepKeeps
<1>0. em \in Emitter /\ Consistent(em) /\ count \in Nat
  BY DEF IInv, AllocTypeOK
<1>a. ASSUME em' \in Emitter, Consistent(em'), count' \in Nat
      PROVE  IInv'
  BY <1>a DEF IInv, AllocTypeOK, Consistent
<1>1. ASSUME NEW op \in Ops, NEW rd \in Guest \ {0}, NEW rs1 \in Guest, NEW rs2 \in Guest,
             EmitCompute(op, rd, rs1, rs2)
      PROVE  StepKeeps
  <2>1. em' = inst_emit_r_type(em, op, rd, rs1, rs2) /\ count' \in Nat
    BY <1>0, <1>1 DEF EmitCompute
  <2>2. /\ em' \in Emitter /\ Consistent(em')
        /\ Regs(em') = [Regs(em) EXCEPT ![rd] =
                          Apply(op, OperandOf(Regs(em), rs1), OperandOf(Regs(em), rs2))]
    BY <1>0, <2>1, RTypeComputes
  <2>3. IInv'
    BY <1>a, <2>1, <2>2
  <2> QED
    BY <2>2, <2>3 DEF StepKeeps
<1>2. ASSUME NEW rs1 \in Guest, NEW rs2 \in Guest, EmitStore(rs1, rs2)
      PROVE  StepKeeps
  <2>1. em' = inst_emit_s_type(em, rs1, rs2) /\ count' \in Nat
    BY <1>0, <1>2 DEF EmitStore
  <2>2. em' \in Emitter /\ Consistent(em') /\ Regs(em') = Regs(em)
    BY <1>0, <2>1, STypeKeeps
  <2>3. IInv'
    BY <1>a, <2>1, <2>2
  <2> QED
    BY <2>2, <2>3 DEF StepKeeps
<1>3. ASSUME EmitNothing PROVE StepKeeps
  <2>1. em' = em /\ count' \in Nat
    BY <1>0, <1>3 DEF EmitNothing
  <2>2. IInv'
    BY <1>0, <1>a, <2>1
  <2> QED
    BY <2>1, <2>2 DEF StepKeeps
<1>4. ASSUME EndBlock PROVE StepKeeps
  <2>1. PICK hv \in [Hosts -> Val] : em' = reset(hv, rvjit_emit_epilogue(em))
    BY <1>4 DEF EndBlock
  <2>2. rvjit_emit_epilogue(em) = Regs(em) /\ Regs(em) \in [Guest -> Val]
    BY <1>0, EpilogueSaves
  <2>3. em' \in Emitter /\ Consistent(em') /\ Regs(em') = Regs(em)
    BY <2>1, <2>2, ResetEmpty
  <2>4. count' \in Nat
    BY <1>4 DEF EndBlock
  <2>5. IInv'
    BY <1>a, <2>3, <2>4
  <2> QED
    BY <2>3, <2>5 DEF StepKeeps
<1>5. ASSUME UNCHANGED allocVars PROVE StepKeeps
  <2>1. em' = em /\ count' = count
    BY <1>5 DEF allocVars
  <2>2. IInv'
    BY <1>0, <1>a, <2>1
  <2> QED
    BY <2>1, <2>2 DEF StepKeeps
<1> QED
  BY <1>1, <1>2, <1>3, <1>4, <1>5 DEF AllocNext

(* The invariant holds of every block, at every instruction. *)
LEMMA IInvHolds == AllocSpec => []IInv
<1>1. AllocInit => IInv
  BY InitIInv
<1>2. IInv /\ [AllocNext]_allocVars => IInv'
  BY NextKeeps DEF StepKeeps
<1> QED
  BY <1>1, <1>2, PTL DEF AllocSpec

(* A guest register is in at most one host register, and a host register   *)
(* holds at most one guest register, however blocks allocate and spill     *)
(* (rvjit_alloc_reg and spill).                                            *)
THEOREM AllocInvHolds == AllocSpec => []AllocInv
<1>1. IInv => AllocInv
  BY DEF IInv, Consistent, AllocInv
<1> QED
  BY <1>1, IInvHolds, PTL

(* A register that is not dirty needs no store: the GPR array has its      *)
(* value, which is what lets spill and the epilogue leave it alone.        *)
THEOREM CleanHolds == AllocSpec => []CleanIsSaved
<1>1. IInv => CleanIsSaved
  BY DEF IInv, Consistent, CleanIsSaved
<1> QED
  BY <1>1, IInvHolds, PTL

(* The allocator implements the register file: each instruction of a block *)
(* replaces its destination by a function of its sources' values, and      *)
(* neither a spill nor the end of a block is visible.                      *)
THEOREM AllocImplementsFile == AllocSpec => FileSpec
<1>1. AllocInit => File!Init
  BY InitIInv DEF File!Init
<1>2. IInv /\ [AllocNext]_allocVars => [File!Next]_GuestRegs
  <2> SUFFICES ASSUME IInv, [AllocNext]_allocVars
               PROVE  [File!Next]_GuestRegs
    OBVIOUS
  <2>1. GuestRegs = Regs(em) /\ GuestRegs' = Regs(em')
    BY DEF GuestRegs, Regs
  <2>2. CASE Regs(em') = Regs(em)
    BY <2>1, <2>2
  <2>3. ASSUME NEW op \in Ops, NEW rd \in Guest \ {0}, NEW rs1 \in Guest, NEW rs2 \in Guest,
               Regs(em') = [Regs(em) EXCEPT ![rd] =
                              Apply(op, OperandOf(Regs(em), rs1), OperandOf(Regs(em), rs2))]
        PROVE  File!Next
    <3>1. /\ OperandOf(Regs(em), rs1) = File!Operand(rs1)
          /\ OperandOf(Regs(em), rs2) = File!Operand(rs2)
      BY <2>1 DEF OperandOf, File!Operand
    <3>2. GuestRegs' = [GuestRegs EXCEPT ![rd] =
                          Apply(op, File!Operand(rs1), File!Operand(rs2))]
      BY <2>1, <2>3, <3>1
    <3>3. \A r \in Guest \ {rd} : GuestRegs'[r] = GuestRegs[r]
      BY <2>1, <2>3 DEF Regs
    <3> QED
      BY <3>2, <3>3 DEF File!Next
  <2>4. StepKeeps
    BY NextKeeps
  <2> QED
    BY <2>2, <2>3, <2>4 DEF StepKeeps
<1> QED
  BY <1>1, <1>2, IInvHolds, PTL DEF AllocSpec, FileSpec, File!Spec
=============================================================================
