----------------------------- MODULE SimCliProofs -----------------------------
(* The command line simulator, for every size of the memory, every file and   *)
(* every program.  Its dumps: whole after the last instruction, and after     *)
(* SIGINT mixed with nothing but the store that was running.  The image it    *)
(* loads: what the file says.  Its trace: what explains the memory.           *)
EXTENDS SimCli, WellFoundedInduction, TLAPS

-----------------------------------------------------------------------------
(* Folds.  Induction over Nat in the form the provers can use: a set of       *)
(* numbers instead of a predicate.                                            *)

(* A set of numbers has a least one. *)
LEMMA LeastNumber ==
  ASSUME NEW S, S \subseteq Nat, S # {}
  PROVE  \E n \in S : \A m \in S : n <= m
<1> DEFINE R == {p \in Nat \X Nat : p[1] < p[2]}
<1>1. IsWellFoundedOn(R, Nat)
  BY NatLessThanWellFounded DEF OpToRel
<1>2. \A a, b \in Nat : a < b => <<a, b>> \in R
  OBVIOUS
<1> HIDE DEF R
<1>3. PICK n \in S : \A m \in S : ~ (<<m, n>> \in R)
  BY <1>1, WFMin
<1>4. \A m \in S : ~ (m < n)
  BY <1>2, <1>3
<1> QED BY <1>4

(* A set that holds zero and every successor of its members holds all numbers. *)
LEMMA SetInduction ==
  ASSUME NEW S, 0 \in S, \A n \in Nat : n \in S => n + 1 \in S
  PROVE  Nat \subseteq S
<1>1. SUFFICES ASSUME Nat \ S # {} PROVE FALSE
  OBVIOUS
<1>2. PICK n \in Nat \ S : \A m \in Nat \ S : n <= m
  BY <1>1, LeastNumber
<1>3. n # 0 /\ n - 1 \in Nat
  BY <1>2
<1>4. n - 1 \in S
  BY <1>2, <1>3
<1> QED BY <1>2, <1>3, <1>4

(* f is the fold of the function G over q: its partial results. *)
Folds(f, G, base, q) ==
  /\ f[0] = base
  /\ \A n \in 1 .. Len(q) : f[n] = G[<<f[n - 1], q[n]>>]

(* There is one, of the type of its operation. *)
LEMMA FoldExists ==
  ASSUME NEW S, NEW T, NEW G \in [S \X T -> S], NEW base \in S, NEW q \in Seq(T)
  PROVE  \E f \in [0 .. Len(q) -> S] : Folds(f, G, base, q)
<1> DEFINE Upto(n, f) == f[0] = base /\ \A m \in 1 .. n : f[m] = G[<<f[m - 1], q[m]>>]
           N == {n \in Nat : n <= Len(q) => \E f \in [0 .. n -> S] : Upto(n, f)}
<1>1. 0 \in N
  <2>1. [m \in 0 .. 0 |-> base] \in [0 .. 0 -> S] /\ Upto(0, [m \in 0 .. 0 |-> base])
    OBVIOUS
  <2> QED BY <2>1
<1>2. ASSUME NEW n \in Nat, n \in N PROVE n + 1 \in N
  <2> SUFFICES ASSUME n + 1 <= Len(q) PROVE \E g \in [0 .. n + 1 -> S] : Upto(n + 1, g)
    OBVIOUS
  <2>1. PICK f \in [0 .. n -> S] : Upto(n, f)
    BY <1>2
  <2> DEFINE g == [m \in 0 .. n + 1 |-> IF m <= n THEN f[m] ELSE G[<<f[n], q[n + 1]>>]]
  <2>2. f[n] \in S /\ q[n + 1] \in T
    OBVIOUS
  <2>3. G[<<f[n], q[n + 1]>>] \in S
    BY <2>2
  <2>4. g \in [0 .. n + 1 -> S]
    BY <2>3
  <2>5. g[0] = base /\ g[n + 1] = G[<<g[n], q[n + 1]>>]
    BY <2>1
  <2>6. \A m \in 1 .. n : g[m] = G[<<g[m - 1], q[m]>>]
    BY <2>1
  <2>7. \A m \in 1 .. n + 1 : m \in 1 .. n \/ m = n + 1
    OBVIOUS
  <2> HIDE DEF g
  <2>8. ASSUME NEW m \in 1 .. n + 1 PROVE g[m] = G[<<g[m - 1], q[m]>>]
    <3>1. CASE m \in 1 .. n
      BY <2>6, <3>1
    <3>2. CASE m = n + 1
      BY <2>5, <3>2
    <3> QED BY <3>1, <3>2, <2>7
  <2>9. Upto(n + 1, g)
    BY <2>5, <2>8
  <2> QED BY <2>4, <2>9
<1> HIDE DEF N
<1>3. Nat \subseteq N
  BY <1>1, <1>2, SetInduction
<1>4. Len(q) \in N
  BY <1>3
<1> USE DEF N
<1> QED BY <1>4 DEF Folds

(* There is only one: the fold of a sequence is, as far as it goes, the fold  *)
(* of a longer one.                                                           *)
LEMMA FoldUnique ==
  ASSUME NEW G, NEW base, NEW T, NEW q \in Seq(T), NEW r \in Seq(T), Len(q) <= Len(r),
         \A n \in 1 .. Len(q) : q[n] = r[n],
         NEW f, NEW g, Folds(f, G, base, q), Folds(g, G, base, r)
  PROVE  \A n \in 0 .. Len(q) : f[n] = g[n]
<1> DEFINE N == {n \in Nat : n <= Len(q) => f[n] = g[n]}
<1>1. 0 \in N
  BY DEF Folds
<1>2. ASSUME NEW n \in Nat, n \in N PROVE n + 1 \in N
  <2> SUFFICES ASSUME n + 1 <= Len(q) PROVE f[n + 1] = g[n + 1]
    OBVIOUS
  <2>1. f[n] = g[n] /\ n + 1 \in 1 .. Len(q) /\ n + 1 \in 1 .. Len(r) /\ n + 1 - 1 = n
    BY <1>2
  <2>2. f[n + 1] = G[<<f[n], q[n + 1]>>] /\ g[n + 1] = G[<<g[n], r[n + 1]>>]
    BY <2>1 DEF Folds
  <2>3. q[n + 1] = r[n + 1]
    BY <2>1
  <2> QED BY <2>1, <2>2, <2>3
<1> HIDE DEF N
<1>3. Nat \subseteq N
  BY <1>1, <1>2, SetInduction
<1> QED BY <1>3 DEF N

(* So is what satisfies its equations wherever it has the type. *)
FoldsWithin(f, S, G, base, q) ==
  /\ f[0] = base
  /\ \A n \in 1 .. Len(q) : f[n - 1] \in S => f[n] = G[<<f[n - 1], q[n]>>]

LEMMA FoldIs ==
  ASSUME NEW S, NEW G, NEW base, NEW T, NEW q \in Seq(T),
         NEW f \in [0 .. Len(q) -> S], Folds(f, G, base, q),
         NEW acc, FoldsWithin(acc, S, G, base, q)
  PROVE  \A n \in 0 .. Len(q) : acc[n] = f[n]
<1> DEFINE N == {n \in Nat : n <= Len(q) => acc[n] = f[n]}
<1>1. 0 \in N
  BY DEF Folds, FoldsWithin
<1>2. ASSUME NEW n \in Nat, n \in N PROVE n + 1 \in N
  <2> SUFFICES ASSUME n + 1 <= Len(q) PROVE acc[n + 1] = f[n + 1]
    OBVIOUS
  <2>1. acc[n] = f[n] /\ f[n] \in S /\ n + 1 \in 1 .. Len(q) /\ n + 1 - 1 = n
    BY <1>2
  <2>2. f[n + 1] = G[<<f[n], q[n + 1]>>]
    BY <2>1 DEF Folds
  <2>3. acc[n + 1] = G[<<acc[n], q[n + 1]>>]
    BY <2>1 DEF FoldsWithin
  <2> QED BY <2>1, <2>2, <2>3
<1> HIDE DEF N
<1>3. Nat \subseteq N
  BY <1>1, <1>2, SetInduction
<1> QED BY <1>3 DEF N

-----------------------------------------------------------------------------
(* The machine between two steps. *)

USE ByteAssumption, MachineAssumption, FileAssumption

Addresses == 0 .. memory_size - 1
Memory == [type : {"MONOLITHIC"}, size : {memory_size}, data : [Addresses -> Byte]]

(* Where the simulator is before the memory holds a program. *)
Unloaded ==
  /\ image = NoMemory /\ pc = 0
  /\ phase \in {"signal", "load", "crashed", "interrupted"} \/ InHandler
  /\ phase = "load" => mem \in Memory /\ x \in [Reg -> Word]

(* The instruction at the program counter, and the address it works on, as    *)
(* the machine after the last instruction has them.                           *)
Cell(a) == read_byte(ref.mem, a)
Current == Insn([k \in 1 .. 4 |-> Cell(Plus(pc, k - 1))])
Target == Address(Current, x)

(* The machine between two steps of an instruction: only a store changes it   *)
(* before its end, and only the memory.                                       *)
Registers ==
  /\ mem \in Memory /\ x \in [Reg -> Word] /\ pc \in Word
  /\ ref.mem \in Memory /\ ref = [pc |-> pc, x |-> x, mem |-> ref.mem]

Reads(s, n, a) ==
  /\ s \in Seq(Word) /\ Len(s) = n
  /\ \A k \in 1 .. n : s[k] = Cell(Plus(a, k - 1))

(* After n of the four bytes of the instruction. *)
Fetching ==
  phase = "fetch" =>
    \E n \in 0 .. 4 :
      /\ Reads(got, n, pc)
      /\ todo \in Seq([kind : {"fetch"}, addr : Word, value : {0}]) /\ Len(todo) = 4 - n
      /\ \A k \in 1 .. 4 - n : todo[k].addr = Plus(pc, n + k - 1)

(* After n bytes of a load: the destination and the bytes are in hand. *)
Loading ==
  phase = "access" /\ Current.op = "LOAD" =>
    /\ mem = ref.mem
    /\ \E n \in 0 .. Current.size :
         /\ got \in Seq(Word) /\ Len(got) = n + 1 /\ got[1] = Current.rd
         /\ \A k \in 1 .. n : got[k + 1] = Cell(Plus(Target, k - 1))
         /\ todo \in Seq([kind : {"r"}, addr : Word, value : Byte]) /\ Len(todo) = Current.size - n
         /\ \A k \in 1 .. Current.size - n : todo[k].addr = Plus(Target, n + k - 1)

(* Memory with the first n bytes of a store in it. *)
Stored(n) ==
  [c \in Addresses |->
     IF (c - Target) % WordMod < n THEN ByteOf(x[Current.rs2], ((c - Target) % WordMod) + 1)
                                   ELSE ref.mem.data[c]]
(* After n bytes of a store: they are in memory and the others are to come. *)
Storing ==
  phase = "access" /\ Current.op = "STORE" =>
    /\ got = << >>
    /\ \E n \in 0 .. Current.size :
         /\ mem.data = Stored(n)
         /\ todo \in Seq([kind : {"w"}, addr : Word, value : Byte]) /\ Len(todo) = Current.size - n
         /\ \A k \in 1 .. Current.size - n :
              /\ todo[k].addr = Plus(Target, n + k - 1)
              /\ todo[k].value = ByteOf(x[Current.rs2], n + k)

(* The handler finds what the interrupted instruction left. *)
Handling == InHandler \/ phase \in {"interrupted", "crashed"}
MixedStore ==
  \A a \in Addresses : mem.data[a] \in {ref.mem.data[a], Whole(ref).mem.data[a]}

Loaded ==
  /\ phase \notin {"signal", "load"}
  /\ Registers
  /\ phase # "access" /\ ~ Handling => mem = ref.mem
  /\ phase = "access" => Current.op = "STORE" \/ (Current.op = "LOAD" /\ Current.rd # 0)
  /\ Fetching /\ Loading /\ Storing
  /\ Handling => MixedStore

(* What the dumps hold while they are written and after. *)
OpenMemory == {DumpPhases[p][2] : p \in Dumping}
OpenRegisters == {DumpPhases[p][4] : p \in Dumping}
MemoryDumped == {DumpPhases[p][3] : p \in Dumping} \cup {DumpPhases[p][4] : p \in Dumping}
Dumps ==
  /\ dump = [mem |-> dump.mem, x |-> dump.x]
  /\ phase \in MemoryDumped \cup {"exited", "interrupted"} /\ given.o => dump.mem = mem.data
  /\ phase \in {"exited", "interrupted"} /\ given.r => dump.x = x
  /\ (~ given.o => dump.mem = Absent) /\ (~ given.r => dump.x = Absent)
  /\ phase \in OpenMemory => given.o
  /\ phase \in OpenRegisters => given.r

CliInv == (Unloaded \/ Loaded) /\ Dumps

-----------------------------------------------------------------------------
(* Arithmetic of addresses, words and bytes. *)

(* A remainder within one turn of the modulus. *)
LEMMA OneTurn ==
  ASSUME NEW m \in Nat \ {0}, NEW z \in -m .. 2 * m - 1
  PROVE  /\ z % m \in 0 .. m - 1
         /\ z % m = IF z < 0 THEN z + m ELSE IF z < m THEN z ELSE z - m
<1> DEFINE q == z \div m
           r == z % m
<1>1. q \in Int /\ r \in 0 .. m - 1 /\ z = q * m + r
  OBVIOUS
<1> HIDE DEF q, r
<1>2. q >= -1
  <2> SUFFICES ASSUME q <= -2 PROVE FALSE
    BY <1>1
  <2>1. (-2 - q) * m \in Nat
    BY <1>1
  <2>2. (-2 - q) * m = -2 * m - q * m
    BY <1>1
  <2> QED BY <1>1, <2>1, <2>2
<1>3. q <= 1
  <2> SUFFICES ASSUME q >= 2 PROVE FALSE
    BY <1>1
  <2>1. (q - 2) * m \in Nat
    BY <1>1
  <2>2. (q - 2) * m = q * m - 2 * m
    BY <1>1
  <2> QED BY <1>1, <2>1, <2>2
<1>4. q = -1 \/ q = 0 \/ q = 1
  BY <1>1, <1>2, <1>3
<1>5. z = r - m \/ z = r \/ z = r + m
  BY <1>1, <1>4
<1>6. r = IF z < 0 THEN z + m ELSE IF z < m THEN z ELSE z - m
  BY <1>1, <1>5
<1> QED BY <1>1, <1>6 DEF r

(* Words have room for the bytes of any access. *)
LEMMA Words ==
  /\ ByteMod \in Nat \ {0} /\ WordMod \in Nat /\ WordMod > 4
  /\ 0 \in Byte /\ 0 \in Word /\ Byte \subseteq Int /\ Word \subseteq Int
  /\ \A k \in 1 .. 4 : Pow256[k] \in Nat \ {0}
<1>1. ByteMod \in Nat /\ ByteMod >= 4
  <2>1. (HexBase - 2) * (HexBase + 2) \in Nat
    OBVIOUS
  <2>2. (HexBase - 2) * (HexBase + 2) = HexBase * HexBase - 4
    OBVIOUS
  <2>3. HexBase * HexBase \in Nat
    OBVIOUS
  <2> QED BY <2>1, <2>2, <2>3
<1>2. ASSUME NEW a \in Nat, a >= 4
      PROVE  a * ByteMod \in Nat /\ a * ByteMod >= 16
  <2>1. (a - 4) * ByteMod \in Nat /\ (a - 4) * ByteMod = a * ByteMod - 4 * ByteMod
    BY <1>1, <1>2
  <2> QED BY <2>1, <1>1, <1>2
<1>3. ByteMod * ByteMod \in Nat /\ ByteMod * ByteMod >= 16
  BY <1>1, <1>2
<1>4. ByteMod * ByteMod * ByteMod \in Nat /\ ByteMod * ByteMod * ByteMod >= 16
  BY <1>2, <1>3
<1>5. WordMod \in Nat /\ WordMod >= 16
  BY <1>2, <1>4 DEF WordMod
<1>6. \A k \in 1 .. 4 : Pow256[k] \in Nat \ {0}
  BY <1>1, <1>3, <1>4 DEF Pow256
<1> QED BY <1>1, <1>5, <1>6 DEF Byte, Word

(* An address plus anything is an address. *)
LEMMA PlusType == \A a, n \in Int : Plus(a, n) \in Word
<1>1. \A z \in Int : z % WordMod \in 0 .. WordMod - 1
  BY Words
<1> QED BY <1>1 DEF Plus, Word

(* The addresses of the bytes of an access, and where in it an address is. *)
LEMMA Offset ==
  ASSUME NEW a \in Word, NEW c \in Word, NEW j \in 0 .. 4
  PROVE  /\ (c - a) % WordMod \in Nat
         /\ (c - a) % WordMod = j <=> c = Plus(a, j)
<1>1. a \in Int /\ c \in Int /\ WordMod \in Nat \ {0} /\ WordMod > 4
      /\ a >= 0 /\ a < WordMod /\ c >= 0 /\ c < WordMod
  BY Words DEF Word
<1> HIDE DEF WordMod, Word
<1>2. /\ (c - a) % WordMod \in 0 .. WordMod - 1
      /\ (c - a) % WordMod = IF c - a < 0 THEN c - a + WordMod
                             ELSE IF c - a < WordMod THEN c - a ELSE c - a - WordMod
  <2>1. c - a \in -WordMod .. 2 * WordMod - 1
    BY <1>1
  <2> QED BY <1>1, <2>1, OneTurn
<1>3. (a + j) % WordMod = IF a + j < 0 THEN a + j + WordMod
                          ELSE IF a + j < WordMod THEN a + j ELSE a + j - WordMod
  <2>1. PICK z \in -WordMod .. 2 * WordMod - 1 : z = a + j
    BY <1>1
  <2>2. z % WordMod = IF z < 0 THEN z + WordMod ELSE IF z < WordMod THEN z ELSE z - WordMod
    BY <1>1, OneTurn
  <2> QED BY <1>1, <2>1, <2>2
<1>4. PICK d \in 0 .. WordMod - 1 : d = (c - a) % WordMod
  BY <1>2
<1>5. PICK e \in Int : e = (a + j) % WordMod
  BY <1>1
<1>6. d = j <=> c = e
  BY <1>1, <1>2, <1>3, <1>4, <1>5
<1> QED BY <1>1, <1>4, <1>5, <1>6 DEF Plus

(* The bytes of a word are bytes. *)
LEMMA ByteType == \A w \in Int, k \in 1 .. 4 : ByteOf(w, k) \in Byte
<1> SUFFICES ASSUME NEW w \in Int, NEW k \in 1 .. 4 PROVE ByteOf(w, k) \in Byte
  OBVIOUS
<1>1. PICK p \in Nat \ {0} : p = Pow256[k]
  BY Words
<1>2. PICK q \in Int : q = w \div p
  OBVIOUS
<1>3. q % ByteMod \in 0 .. ByteMod - 1
  BY Words
<1> QED BY <1>1, <1>2, <1>3 DEF ByteOf, Byte

(* One more digit in front of a number. *)
LEMMA Digit ==
  ASSUME NEW d \in Byte, NEW m \in Nat, NEW v \in 0 .. m - 1
  PROVE  d + ByteMod * v \in 0 .. m * ByteMod - 1
<1>1. ByteMod \in Nat /\ d \in Nat /\ d < ByteMod
  BY Words DEF Byte
<1>2. (m - 1 - v) * ByteMod \in Nat
  BY <1>1
<1>3. (m - 1 - v) * ByteMod = m * ByteMod - ByteMod - ByteMod * v
  BY <1>1
<1>4. ByteMod * v \in Nat /\ m * ByteMod \in Nat
  BY <1>1
<1> QED BY <1>1, <1>2, <1>3, <1>4

(* Up to four bytes make a word. *)
LEMMA WordType ==
  ASSUME NEW s \in Seq(Byte)
  PROVE  WordOf(s) \in Word
<1> DEFINE d(k) == IF k <= Len(s) THEN s[k] ELSE 0
<1>1. d(1) \in Byte /\ d(2) \in Byte /\ d(3) \in Byte /\ d(4) \in Byte
  BY Words
<1>2. ByteMod \in Nat
  BY Words
<1> HIDE DEF d
<1>3. d(4) \in 0 .. ByteMod - 1
  BY <1>1 DEF Byte
<1>4. d(3) + ByteMod * d(4) \in 0 .. ByteMod * ByteMod - 1
  BY <1>1, <1>2, <1>3, Digit
<1>5. d(2) + ByteMod * (d(3) + ByteMod * d(4)) \in 0 .. ByteMod * ByteMod * ByteMod - 1
  <2>1. ByteMod * ByteMod \in Nat
    BY <1>2
  <2> QED BY <1>1, <1>4, <2>1, Digit
<1>6. d(1) + ByteMod * (d(2) + ByteMod * (d(3) + ByteMod * d(4))) \in 0 .. WordMod - 1
  <2>1. ByteMod * ByteMod * ByteMod \in Nat
    BY <1>2
  <2> QED BY <1>1, <1>5, <2>1, Digit DEF WordMod
<1> QED BY <1>6 DEF WordOf, Word, d

(* A byte is a word. *)
LEMMA ByteInWord == Byte \subseteq Word
<1>1. WordMod = ByteMod * ByteMod * ByteMod * ByteMod /\ ByteMod \in Nat \ {0}
  BY Words DEF WordMod
<1>2. \A a \in Nat \ {0} : a * ByteMod \in Nat \ {0} /\ a * ByteMod >= ByteMod
  <2> SUFFICES ASSUME NEW a \in Nat \ {0} PROVE a * ByteMod \in Nat /\ a * ByteMod >= ByteMod
    BY <1>1
  <2>1. (a - 1) * ByteMod \in Nat /\ (a - 1) * ByteMod = a * ByteMod - ByteMod
    BY <1>1
  <2> QED BY <1>1, <2>1
<1>3. WordMod >= ByteMod
  <2>1. ByteMod * ByteMod \in Nat \ {0}
    BY <1>1, <1>2
  <2>2. ByteMod * ByteMod * ByteMod \in Nat \ {0}
    BY <1>2, <2>1
  <2> QED BY <1>1, <1>2, <2>2
<1> QED BY <1>1, <1>3, Words DEF Byte, Word

(* Reading a memory of bytes returns one. *)
LEMMA ReadType == \A m \in Memory, a \in Word : read_byte(m, a) \in Byte
BY Words DEF Memory, Addresses, read_byte, monolithic_read, Word

-----------------------------------------------------------------------------
(* The current instruction. *)

(* Bytes are decoded as an instruction; a load or a store has a size. *)
LEMMA InsnType ==
  \A s : /\ Insn(s) \in Insns
         /\ Insn(s).op \in {"LOAD", "STORE"} => Insn(s).size \in {1, 2, 4}
<1>1. Illegal \in Insns
  BY DEF Illegal, Insns, Ops, Reg
<1> QED BY <1>1 DEF Insn, Illegal

(* The current instruction is one, and so is its address. *)
LEMMA CurrentType ==
  ASSUME Registers
  PROVE  /\ Current \in Insns /\ Target \in Word
         /\ Current.op \in {"LOAD", "STORE"} => Current.size \in {1, 2, 4}
<1>1. PICK i \in Insns : i = Current /\ (i.op \in {"LOAD", "STORE"} => i.size \in {1, 2, 4})
  BY InsnType DEF Current
<1>2. x[i.rs1] \in Int /\ i.imm \in Int
  BY <1>1, Words DEF Registers, Insns
<1>3. Plus(x[i.rs1], i.imm) \in Word
  BY <1>2, PlusType
<1> QED BY <1>1, <1>3 DEF Target, Address

(* The whole instruction at once, in the terms of the machine in steps. *)
LEMMA WholeOf ==
  ASSUME Registers
  PROVE  LET to(p, r, m) == Whole(ref) = [pc |-> p, x |-> r, mem |-> m]
             i == Current
         IN  /\ i.op = "ILLEGAL" => to(pc, x, ref.mem)
             /\ i.op \in {"INVALID", "SYSTEM"} => to(Plus(pc, 4), x, ref.mem)
             /\ i.op = "JALR" => to(Target, RSET(i.rd, Plus(pc, 4)), ref.mem)
             /\ i.op = "OP_IMM" => to(Plus(pc, 4), RSET(i.rd, Target), ref.mem)
             /\ i.op = "LOAD" =>
                  to(Plus(pc, 4),
                     RSET(i.rd, WordOf([k \in 1 .. i.size |-> Cell(Plus(Target, k - 1))])), ref.mem)
             /\ i.op = "STORE" =>
                  to(Plus(pc, 4), x, [ref.mem EXCEPT !.data = Stored(i.size)])
<1>1. /\ ref = [pc |-> pc, x |-> x, mem |-> ref.mem]
      /\ ref.pc = pc /\ ref.x = x
  BY DEF Registers
<1>2. Insn([k \in 1 .. 4 |-> read_byte(ref.mem, Plus(ref.pc, k - 1))]) = Current
  BY <1>1 DEF Current, Cell
<1>3. Address(Current, ref.x) = Target
  BY <1>1 DEF Target
<1>4. PICK i : i = Current
  OBVIOUS
<1>5. DOMAIN ref.mem.data = Addresses
  BY DEF Registers, Memory
<1>6. CASE i.op = "ILLEGAL"
  BY <1>1, <1>2, <1>3, <1>4, <1>6 DEF Whole
<1>7. CASE i.op \in {"INVALID", "SYSTEM"}
  BY <1>1, <1>2, <1>3, <1>4, <1>7 DEF Whole
<1>8. CASE i.op = "JALR"
  BY <1>1, <1>2, <1>3, <1>4, <1>8 DEF Whole, RSET
<1>9. CASE i.op = "OP_IMM"
  BY <1>1, <1>2, <1>3, <1>4, <1>9 DEF Whole, RSET
<1>10. CASE i.op = "LOAD"
  BY <1>1, <1>2, <1>3, <1>4, <1>10 DEF Whole, RSET, Cell
<1>11. CASE i.op = "STORE"
  BY <1>1, <1>2, <1>3, <1>4, <1>5, <1>11 DEF Whole, Stored
<1> QED BY <1>4, <1>6, <1>7, <1>8, <1>9, <1>10, <1>11

(* What is set in a register is set to a word. *)
LEMMA SetType ==
  ASSUME x \in [Reg -> Word], NEW r \in Reg, NEW v \in Word
  PROVE  RSET(r, v) \in [Reg -> Word]
BY DEF RSET

(* Bytes read one by one make the word that they make in memory. *)
LEMMA ReadWord ==
  ASSUME NEW n \in 0 .. 4, NEW a, NEW s, Len(s) = n,
         \A k \in 1 .. n : s[k] = Cell(Plus(a, k - 1))
  PROVE  WordOf(s) = WordOf([k \in 1 .. n |-> Cell(Plus(a, k - 1))])
<1> DEFINE t == [k \in 1 .. n |-> Cell(Plus(a, k - 1))]
<1>1. Len(t) = n
  OBVIOUS
<1>2. \A k \in 1 .. n : t[k] = s[k]
  OBVIOUS
<1> HIDE DEF t
<1>3. \A k \in 1 .. 4 : (k <= Len(t) <=> k <= Len(s)) /\ (k <= Len(s) => t[k] = s[k])
  BY <1>1, <1>2
<1>4. WordOf(s) = WordOf(t)
  BY <1>3 DEF WordOf
<1> QED BY <1>4 DEF t

-----------------------------------------------------------------------------
(* The steps of a loaded simulator. *)

(* What is left to do when the first access is done. *)
LEMMA FirstAndRest ==
  ASSUME NEW S, NEW s \in Seq(S), s # << >>
  PROVE  /\ Len(s) \in Nat \ {0} /\ Head(s) = s[1] /\ s[1] \in S
         /\ Tail(s) \in Seq(S) /\ Len(Tail(s)) = Len(s) - 1
         /\ \A k \in 1 .. Len(s) - 1 : Tail(s)[k] = s[k + 1]
<1>1. Len(s) \in Nat \ {0}
  <2>1. Len(s) = 0 => s = << >>
    OBVIOUS
  <2> QED BY <2>1
<1>2. s[1] \in S /\ Head(s) = s[1]
  BY <1>1
<1>3. /\ Tail(s) \in Seq(S) /\ Len(Tail(s)) = Len(s) - 1
      /\ \A k \in 1 .. Len(s) - 1 : Tail(s)[k] = s[k + 1]
  BY <1>1
<1> QED BY <1>1, <1>2, <1>3

(* Steps that leave the machine alone and start no instruction. *)
LEMMA SameMachine ==
  ASSUME Loaded, UNCHANGED <<pc, x, mem, ref>>,
         phase' \notin {"signal", "load", "fetch", "access"},
         Handling' => MixedStore,
         ~ Handling' => mem = ref.mem
  PROVE  Loaded'
<1>1. Registers' /\ (Handling' => MixedStore')
  BY DEF Loaded, Registers, MixedStore
<1>2. Fetching' /\ Loading' /\ Storing'
  BY DEF Fetching, Loading, Storing
<1> QED BY <1>1, <1>2 DEF Loaded

(* Steps within an instruction that leave the machine alone. *)
LEMMA SameInstruction ==
  ASSUME UNCHANGED <<pc, x, ref>>
  PROVE  /\ Current' = Current /\ Target' = Target
         /\ \A a : Cell(a)' = Cell(a)
         /\ \A n : Stored(n)' = Stored(n)
<1>1. \A a : Cell(a)' = Cell(a)
  BY DEF Cell
<1>2. Current' = Current
  BY DEF Current, Cell
<1>3. Target' = Target
  BY <1>2 DEF Target, Address
<1>4. \A n : Stored(n)' = Stored(n)
  BY <1>2, <1>3 DEF Stored
<1> QED BY <1>1, <1>2, <1>3, <1>4

(* The next instruction: no byte of it is read, and the memory is settled. *)
LEMMA StartsLoaded ==
  ASSUME Loaded, StartStep
  PROVE  Loaded'
<1>1. phase = "loop" /\ UNCHANGED <<pc, x, mem, ref>> /\ mem = ref.mem
  BY DEF StartStep, Loaded, Handling, InHandler, history
<1>2. CASE pc = MinusOne
  BY <1>1, <1>2, SameMachine DEF StartStep, Handling, InHandler
<1>3. CASE pc # MinusOne
  <2>1. phase' = "fetch" /\ todo' = Fetches(pc) /\ got' = << >>
    BY <1>3 DEF StartStep
  <2>2. Registers' /\ mem' = ref'.mem
    BY <1>1 DEF Loaded, Registers
  <2>3. Fetching'
    <3>1. Reads(got, 0, pc)'
      BY <2>1 DEF Reads
    <3>2. pc \in Int
      BY Words DEF Loaded, Registers
    <3>3. \A k \in 1 .. 4 : Plus(pc, k - 1) \in Word
      BY <3>2, PlusType
    <3>4. /\ Fetches(pc) \in Seq([kind : {"fetch"}, addr : Word, value : {0}])
          /\ Len(Fetches(pc)) = 4
          /\ \A k \in 1 .. 4 : Fetches(pc)[k].addr = Plus(pc, 0 + k - 1)
      BY <3>3 DEF Fetches, Access
    <3>5. pc' = pc
      BY <1>1
    <3> QED BY <2>1, <3>1, <3>4, <3>5 DEF Fetching
  <2>4. Loading' /\ Storing'
    BY <2>1 DEF Loading, Storing
  <2> QED BY <2>1, <2>2, <2>3, <2>4 DEF Loaded, Handling, InHandler
<1> QED BY <1>2, <1>3

(* One more byte of an instruction. *)
LEMMA FetchByte ==
  ASSUME Loaded, MakeAccess, phase = "fetch"
  PROVE  Loaded'
<1>1. PICK n \in 0 .. 4 :
        /\ Reads(got, n, pc)
        /\ todo \in Seq([kind : {"fetch"}, addr : Word, value : {0}]) /\ Len(todo) = 4 - n
        /\ \A k \in 1 .. 4 - n : todo[k].addr = Plus(pc, n + k - 1)
  BY DEF Loaded, Fetching
<1>2. n \in 0 .. 3 /\ Head(todo).kind = "fetch" /\ Head(todo).addr = Plus(pc, n)
  <2>1. todo # << >>
    BY DEF MakeAccess
  <2>2. /\ Len(todo) \in Nat \ {0} /\ Head(todo) = todo[1]
        /\ todo[1] \in [kind : {"fetch"}, addr : Word, value : {0}]
    BY <1>1, <2>1, FirstAndRest
  <2>3. n \in 0 .. 3 /\ n + 1 - 1 = n
    BY <1>1, <2>2
  <2> QED BY <1>1, <2>2, <2>3
<1>3. phase' = "fetch" /\ mem = ref.mem /\ UNCHANGED <<pc, x, mem, ref>>
  BY <1>2 DEF MakeAccess, Loaded, Handling, InHandler, history
<1>4. got' = Append(got, Cell(Plus(pc, n))) /\ todo' = Tail(todo)
  BY <1>2, <1>3 DEF MakeAccess, Cell
<1>5. Cell(Plus(pc, n)) \in Word
  <2>1. pc \in Int /\ n \in Int
    BY Words DEF Loaded, Registers
  <2>2. Plus(pc, n) \in Word
    BY <2>1, PlusType
  <2>3. Cell(Plus(pc, n)) \in Byte
    BY <2>2, ReadType DEF Cell, Loaded, Registers
  <2> QED BY <2>3, ByteInWord
<1>6. Registers' /\ mem' = ref'.mem
  BY <1>3 DEF Loaded, Registers
<1>7. Fetching'
  <2>1. got' \in Seq(Word) /\ Len(got') = n + 1
    BY <1>1, <1>4, <1>5 DEF Reads
  <2>2. \A k \in 1 .. n + 1 : got'[k] = Cell(Plus(pc, k - 1))
    BY <1>1, <1>4 DEF Reads
  <2>3. n + 1 \in 0 .. 4
    BY <1>2
  <2>4. \A k \in 1 .. n + 1 : got'[k] = read_byte(ref'.mem, Plus(pc', k - 1))
    BY <1>3, <2>2 DEF Cell
  <2>5. /\ Tail(todo) \in Seq([kind : {"fetch"}, addr : Word, value : {0}])
        /\ Len(Tail(todo)) = 4 - (n + 1)
        /\ \A k \in 1 .. 4 - (n + 1) : Tail(todo)[k].addr = Plus(pc, n + 1 + k - 1)
    BY <1>1, <1>2
  <2> QED BY <1>3, <1>4, <2>1, <2>3, <2>4, <2>5 DEF Fetching, Reads, Cell
<1>8. Loading' /\ Storing'
  BY <1>3 DEF Loading, Storing
<1> QED BY <1>3, <1>6, <1>7, <1>8 DEF Loaded, Handling, InHandler

(* One more byte of a load. *)
LEMMA LoadByte ==
  ASSUME Loaded, MakeAccess, phase = "access", Current.op = "LOAD"
  PROVE  Loaded'
<1> DEFINE Left == [kind : {"r"}, addr : Word, value : Byte]
<1>1. PICK n \in 0 .. Current.size :
        /\ got \in Seq(Word) /\ Len(got) = n + 1 /\ got[1] = Current.rd
        /\ \A k \in 1 .. n : got[k + 1] = Cell(Plus(Target, k - 1))
        /\ todo \in Seq(Left) /\ Len(todo) = Current.size - n
        /\ \A k \in 1 .. Current.size - n : todo[k].addr = Plus(Target, n + k - 1)
  BY DEF Loaded, Loading
<1>2. Current.size \in {1, 2, 4} /\ Target \in Word
  BY CurrentType DEF Loaded
<1>3. n + 1 \in 0 .. Current.size /\ Head(todo).kind = "r" /\ Head(todo).addr = Plus(Target, n)
  <2>1. todo # << >>
    BY DEF MakeAccess
  <2>2. Len(todo) \in Nat \ {0} /\ Head(todo) = todo[1] /\ todo[1] \in Left
    BY <1>1, <2>1, FirstAndRest
  <2>3. n + 1 \in 0 .. Current.size /\ n + 1 - 1 = n
    BY <1>1, <1>2, <2>2
  <2> QED BY <1>1, <1>2, <2>2, <2>3
<1>4. phase' = "access" /\ mem = ref.mem /\ UNCHANGED <<pc, x, mem, ref>>
  BY <1>3 DEF MakeAccess, Loaded, Loading, history
<1>5. got' = Append(got, Cell(Plus(Target, n))) /\ todo' = Tail(todo)
  BY <1>3, <1>4 DEF MakeAccess, Cell
<1>6. Cell(Plus(Target, n)) \in Word
  <2>1. Target \in Int /\ n \in Int
    BY <1>2, Words
  <2>2. Plus(Target, n) \in Word
    BY <2>1, PlusType
  <2>3. Cell(Plus(Target, n)) \in Byte
    BY <2>2, ReadType DEF Cell, Loaded, Registers
  <2> QED BY <2>3, ByteInWord
<1>7. Registers' /\ mem' = ref'.mem
  BY <1>4 DEF Loaded, Registers
<1>8. Current' = Current /\ Target' = Target
  BY <1>4, SameInstruction
<1>9. Loading'
  <2>1. got' \in Seq(Word) /\ Len(got') = n + 1 + 1 /\ got'[1] = Current.rd
    BY <1>1, <1>5, <1>6
  <2>2. \A k \in 1 .. n + 1 : got'[k + 1] = Cell(Plus(Target, k - 1))
    BY <1>1, <1>5
  <2>3. \A k \in 1 .. n + 1 : got'[k + 1] = read_byte(ref'.mem, Plus(Target', k - 1))
    BY <1>4, <1>8, <2>2 DEF Cell
  <2>4. /\ todo' \in Seq(Left) /\ Len(todo') = Current.size - (n + 1)
        /\ \A k \in 1 .. Current.size - (n + 1) : todo'[k].addr = Plus(Target, n + 1 + k - 1)
    <3>1. /\ Tail(todo) \in Seq(Left) /\ Len(Tail(todo)) = Current.size - (n + 1)
          /\ \A k \in 1 .. Current.size - (n + 1) :
               Tail(todo)[k] = todo[k + 1] /\ k + 1 \in 1 .. Current.size - n /\ n + (k + 1) - 1 = n + 1 + k - 1
      <4>1. todo # << >>
        BY DEF MakeAccess
      <4> QED BY <1>1, <1>2, <4>1, FirstAndRest
    <3> QED BY <1>1, <1>5, <3>1
  <2> QED BY <1>3, <1>7, <1>8, <2>1, <2>3, <2>4 DEF Loading, Cell
<1>10. Fetching' /\ Storing'
  BY <1>4, <1>8 DEF Fetching, Storing
<1> QED BY <1>4, <1>7, <1>8, <1>9, <1>10 DEF Loaded, Handling, InHandler

(* One more byte of a store changes the cell at its address and no other. *)
LEMMA StoredMore ==
  ASSUME Registers, Target \in Word, NEW n \in 0 .. 3, mem.data = Stored(n)
  PROVE  write_byte(mem, Plus(Target, n), ByteOf(x[Current.rs2], n + 1)).data = Stored(n + 1)
<1> DEFINE b == ByteOf(x[Current.rs2], n + 1)
           a == Plus(Target, n)
           new == write_byte(mem, a, b)
<1>1. mem.type = "MONOLITHIC" /\ mem.size = memory_size /\ DOMAIN mem.data = Addresses
  BY DEF Registers, Memory
<1>2. a \in Word /\ a \in Nat
  <2>1. Target \in Int /\ n \in Int
    BY Words
  <2>2. Plus(Target, n) \in Word
    BY <2>1, PlusType
  <2> QED BY <2>2, Words DEF Word
<1>3. a < memory_size <=> a \in Addresses
  BY <1>2, Words DEF Addresses
<1>4. new.data = [c \in Addresses |-> IF c = a THEN b ELSE Stored(n)[c]]
  <2>1. CASE a < memory_size
    <3>1. new.data = [mem.data EXCEPT ![a] = b]
      BY <1>1, <2>1 DEF write_byte, monolithic_write, Registers, Memory
    <3> QED BY <1>1, <3>1
  <2>2. CASE ~ (a < memory_size)
    <3>1. new = mem
      BY <1>1, <2>2 DEF write_byte, monolithic_write
    <3>2. \A c \in Addresses : c # a
      BY <1>3, <2>2
    <3> QED BY <1>1, <3>1, <3>2 DEF Stored
  <2> QED BY <2>1, <2>2
<1>5. ASSUME NEW c \in Addresses
      PROVE  (IF c = a THEN b ELSE Stored(n)[c]) = Stored(n + 1)[c]
  <2>1. c \in Word
    BY Words DEF Addresses, Word
  <2>2. PICK d : d = (c - Target) % WordMod
    OBVIOUS
  <2>3. d \in Nat /\ (d = n <=> c = a)
    BY <2>1, <2>2, Offset
  <2>4. Stored(n)[c] = IF d < n THEN ByteOf(x[Current.rs2], d + 1) ELSE ref.mem.data[c]
    BY <2>2 DEF Stored
  <2>5. Stored(n + 1)[c] = IF d < n + 1 THEN ByteOf(x[Current.rs2], d + 1) ELSE ref.mem.data[c]
    BY <2>2 DEF Stored
  <2>6. CASE d = n
    BY <2>3, <2>5, <2>6
  <2>7. CASE d # n
    BY <2>3, <2>4, <2>5, <2>7
  <2> QED BY <2>6, <2>7
<1>6. Stored(n + 1) = [c \in Addresses |-> Stored(n + 1)[c]]
  BY DEF Stored
<1> HIDE DEF new, a, b
<1>7. new.data = Stored(n + 1)
  BY <1>4, <1>5, <1>6
<1> QED BY <1>7 DEF new, a, b

(* One more byte of a store. *)
LEMMA StoreByte ==
  ASSUME Loaded, MakeAccess, phase = "access", Current.op = "STORE"
  PROVE  Loaded'
<1> DEFINE Left == [kind : {"w"}, addr : Word, value : Byte]
<1>1. PICK n \in 0 .. Current.size :
        /\ got = << >> /\ mem.data = Stored(n)
        /\ todo \in Seq(Left) /\ Len(todo) = Current.size - n
        /\ \A k \in 1 .. Current.size - n :
             /\ todo[k].addr = Plus(Target, n + k - 1)
             /\ todo[k].value = ByteOf(x[Current.rs2], n + k)
  BY DEF Loaded, Storing
<1>2. Current.size \in {1, 2, 4} /\ Target \in Word
  BY CurrentType DEF Loaded
<1>3. /\ n \in 0 .. 3 /\ n + 1 \in 0 .. Current.size
      /\ Head(todo).kind = "w" /\ Head(todo).addr = Plus(Target, n)
      /\ Head(todo).value = ByteOf(x[Current.rs2], n + 1) /\ Head(todo).value \in Byte
  <2>1. todo # << >>
    BY DEF MakeAccess
  <2>2. Len(todo) \in Nat \ {0} /\ Head(todo) = todo[1] /\ todo[1] \in Left
    BY <1>1, <2>1, FirstAndRest
  <2>3. n \in 0 .. 3 /\ n + 1 \in 0 .. Current.size /\ n + 1 - 1 = n
    BY <1>1, <1>2, <2>2
  <2> QED BY <1>1, <1>2, <2>2, <2>3
<1>4. /\ phase' = "access" /\ UNCHANGED <<pc, x, ref>> /\ got' = got /\ todo' = Tail(todo)
      /\ mem' = write_byte(mem, Plus(Target, n), Head(todo).value)
  BY <1>3 DEF MakeAccess, history
<1>5. mem'.data = Stored(n + 1)
  BY <1>1, <1>2, <1>3, <1>4, StoredMore DEF Loaded
<1>6. mem' \in Memory
  BY <1>3, <1>4 DEF Loaded, Registers, Memory, write_byte, monolithic_write
<1>7. Registers'
  BY <1>4, <1>6 DEF Loaded, Registers
<1>8. /\ Current' = Current /\ Target' = Target
      /\ \A m : Stored(m)' = Stored(m)
  BY <1>4, SameInstruction
<1>9. Storing'
  <2>1. /\ todo' \in Seq(Left) /\ Len(todo') = Current.size - (n + 1)
        /\ \A k \in 1 .. Current.size - (n + 1) :
             /\ todo'[k].addr = Plus(Target, n + 1 + k - 1)
             /\ todo'[k].value = ByteOf(x[Current.rs2], n + 1 + k)
    <3>1. /\ Tail(todo) \in Seq(Left) /\ Len(Tail(todo)) = Current.size - (n + 1)
          /\ \A k \in 1 .. Current.size - (n + 1) :
               /\ Tail(todo)[k] = todo[k + 1] /\ k + 1 \in 1 .. Current.size - n
               /\ n + (k + 1) - 1 = n + 1 + k - 1 /\ n + (k + 1) = n + 1 + k
      <4>1. todo # << >>
        BY DEF MakeAccess
      <4> QED BY <1>1, <1>2, <4>1, FirstAndRest
    <3> QED BY <1>1, <1>4, <3>1
  <2>2. mem'.data = [c \in Addresses |->
           IF (c - Target') % WordMod < n + 1
             THEN ByteOf(x'[Current'.rs2], ((c - Target') % WordMod) + 1) ELSE ref'.mem.data[c]]
    BY <1>4, <1>5, <1>8 DEF Stored
  <2>3. /\ todo' \in Seq(Left) /\ Len(todo') = Current'.size - (n + 1)
        /\ \A k \in 1 .. Current'.size - (n + 1) :
             /\ todo'[k].addr = Plus(Target', n + 1 + k - 1)
             /\ todo'[k].value = ByteOf(x'[Current'.rs2], n + 1 + k)
    BY <1>4, <1>8, <2>1
  <2>4. got' = << >> /\ n + 1 \in 0 .. Current'.size
    BY <1>1, <1>3, <1>4, <1>8
  <2> HIDE DEF Left
  <2> QED BY <2>2, <2>3, <2>4 DEF Storing, Stored, Left
<1>10. Fetching' /\ Loading'
  BY <1>4, <1>8 DEF Fetching, Loading
<1> QED BY <1>4, <1>7, <1>8, <1>9, <1>10 DEF Loaded, Handling, InHandler

(* The end of an instruction: the machine is where it would be had all of the *)
(* instruction been done at once.                                             *)
LEMMA EndsLoaded ==
  ASSUME Loaded, NEW result \in Int, NEW newpc \in Word, NEW newx \in [Reg -> Word],
         EndStep(result, newpc, newx),
         Whole(ref) = [pc |-> newpc, x |-> newx, mem |-> mem]
  PROVE  Loaded'
<1>1. /\ phase' \in {"close", "prompt", "loop"} /\ pc' = newpc /\ x' = newx /\ mem' = mem
      /\ ref' = [pc |-> newpc, x |-> newx, mem |-> mem]
  BY DEF EndStep
<1>2. Registers' /\ mem' = ref'.mem
  BY <1>1 DEF Loaded, Registers
<1>3. Fetching' /\ Loading' /\ Storing'
  BY <1>1 DEF Fetching, Loading, Storing
<1> QED BY <1>1, <1>2, <1>3 DEF Loaded, Handling, InHandler

(* The instruction that has been fetched is the current one. *)
LEMMA FetchedCurrent ==
  ASSUME Loaded, Fetched
  PROVE  Insn(got) = Current /\ mem = ref.mem
<1>1. phase = "fetch" /\ todo = << >>
  BY DEF Fetched
<1>2. PICK n \in 0 .. 4 : Reads(got, n, pc) /\ Len(todo) = 4 - n
  BY <1>1 DEF Loaded, Fetching
<1>3. n = 4
  BY <1>1, <1>2
<1>4. WordOf(got) = WordOf([k \in 1 .. 4 |-> Cell(Plus(pc, k - 1))])
  <2>1. Len(got) = 4 /\ \A k \in 1 .. 4 : got[k] = Cell(Plus(pc, k - 1))
    BY <1>2, <1>3 DEF Reads
  <2> QED BY <2>1, ReadWord
<1>5. Insn(got) = Current
  BY <1>4 DEF Insn, Current
<1> QED BY <1>1, <1>5 DEF Loaded, Handling, InHandler

(* Execution ends the instruction, or begins its accesses. *)
LEMMA ExecuteLoaded ==
  ASSUME Loaded, Execute
  PROVE  Loaded'
<1>1. Fetched /\ Insn(got) = Current /\ mem = ref.mem /\ phase = "fetch"
  BY FetchedCurrent DEF Execute, Fetched
<1>2. Registers
  BY DEF Loaded
<1>3. /\ Current \in Insns /\ Target \in Word /\ Current.rd \in Reg
      /\ Current.op \in {"LOAD", "STORE"} => Current.size \in {1, 2, 4}
  BY <1>2, CurrentType DEF Insns
<1>4. pc \in Word /\ x \in [Reg -> Word] /\ Plus(pc, 4) \in Word
  <2>1. pc \in Int
    BY <1>2, Words DEF Registers
  <2> QED BY <1>2, <2>1, PlusType DEF Registers
<1>5. RSET(Current.rd, Plus(pc, 4)) \in [Reg -> Word] /\ RSET(Current.rd, Target) \in [Reg -> Word]
  BY <1>3, <1>4, SetType
<1>6. CASE Current.op = "ILLEGAL"
  <2>1. EndStep(1, pc, x)
    BY <1>1, <1>6 DEF Execute
  <2>2. Whole(ref) = [pc |-> pc, x |-> x, mem |-> mem]
    BY <1>1, <1>2, <1>6, WholeOf
  <2> QED BY <1>4, <2>1, <2>2, EndsLoaded
<1>7. CASE Current.op \in {"INVALID", "SYSTEM"}
  <2>1. PICK result \in Int : EndStep(result, Plus(pc, 4), x)
    <3>1. CASE Current.op = "INVALID"
      <4>1. EndStep(6, Plus(pc, 4), x)
        BY <1>1, <3>1 DEF Execute
      <4> QED BY <4>1
    <3>2. CASE Current.op = "SYSTEM"
      BY <1>1, <3>2 DEF Execute
    <3> QED BY <1>7, <3>1, <3>2
  <2>2. Whole(ref) = [pc |-> Plus(pc, 4), x |-> x, mem |-> mem]
    BY <1>1, <1>2, <1>7, WholeOf
  <2> QED BY <1>4, <2>1, <2>2, EndsLoaded
<1>8. CASE Current.op = "JALR"
  <2>1. EndStep(0, Target, RSET(Current.rd, Plus(pc, 4)))
    BY <1>1, <1>8 DEF Execute, Target
  <2>2. Whole(ref) = [pc |-> Target, x |-> RSET(Current.rd, Plus(pc, 4)), mem |-> mem]
    BY <1>1, <1>2, <1>8, WholeOf
  <2> QED BY <1>3, <1>5, <2>1, <2>2, EndsLoaded
<1>9. CASE Current.op = "OP_IMM"
  <2>1. EndStep(0, Plus(pc, 4), RSET(Current.rd, Target))
    BY <1>1, <1>9 DEF Execute, Target
  <2>2. Whole(ref) = [pc |-> Plus(pc, 4), x |-> RSET(Current.rd, Target), mem |-> mem]
    BY <1>1, <1>2, <1>9, WholeOf
  <2> QED BY <1>4, <1>5, <2>1, <2>2, EndsLoaded
<1>10. CASE Current.op = "LOAD" /\ Current.rd = 0
  <2>1. EndStep(0, Plus(pc, 4), x)
    BY <1>1, <1>10 DEF Execute
  <2>2. Whole(ref) = [pc |-> Plus(pc, 4), x |-> x, mem |-> mem]
    BY <1>1, <1>2, <1>10, WholeOf DEF RSET
  <2> QED BY <1>4, <2>1, <2>2, EndsLoaded
<1>11. CASE Current.op = "STORE" \/ (Current.op = "LOAD" /\ Current.rd # 0)
  <2>1. /\ phase' = "access" /\ todo' = Accesses(Current)
        /\ got' = IF Current.op = "LOAD" THEN <<Current.rd>> ELSE << >>
        /\ UNCHANGED <<pc, x, mem, ref>>
    BY <1>1, <1>11 DEF Execute, history
  <2>2. Registers' /\ mem' = ref'.mem
    BY <1>1, <2>1 DEF Loaded, Registers
  <2>3. /\ Current' = Current /\ Target' = Target
        /\ \A m : Stored(m)' = Stored(m)
    BY <2>1, SameInstruction
  <2> DEFINE kind == IF Current.op = "LOAD" THEN "r" ELSE "w"
             Left == [kind : {kind}, addr : Word, value : Byte]
             size == Current.size
             T == Target
             v(k) == ByteOf(x[Current.rs2], k)
  <2>4. size \in {1, 2, 4} /\ T \in Word /\ T \in Int
    BY <1>3, <1>11, Words
  <2>5. \A k \in 1 .. size : Plus(T, k - 1) \in Word /\ BytesOf(x[Current.rs2])[k] = v(k) /\ v(k) \in Byte
    <3>1. x[Current.rs2] \in Int
      BY <1>3, <1>4, Words DEF Insns
    <3> QED BY <2>4, <3>1, PlusType, ByteType DEF BytesOf
  <2>6. Accesses(Current) =
          [k \in 1 .. size |-> [kind |-> kind, addr |-> Plus(T, k - 1), value |-> BytesOf(x[Current.rs2])[k]]]
    BY DEF Accesses, Access, Target
  <2>7. /\ Accesses(Current) \in Seq(Left) /\ Len(Accesses(Current)) = size - 0
        /\ \A k \in 1 .. size - 0 : /\ Accesses(Current)[k].addr = Plus(T, 0 + k - 1)
                                    /\ Accesses(Current)[k].value = v(0 + k)
    <3> HIDE DEF T, size, kind
    <3> QED BY <2>4, <2>5, <2>6
  <2>8. Loading'
    <3> SUFFICES ASSUME Current.op = "LOAD" PROVE Loading'
      BY <2>3 DEF Loading
    <3>1. got' \in Seq(Word) /\ Len(got') = 0 + 1 /\ got'[1] = Current'.rd
      <4>1. Reg \subseteq Word
        BY Words DEF Reg, Word
      <4> QED BY <1>3, <2>1, <2>3, <4>1
    <3>2. /\ todo' \in Seq([kind : {"r"}, addr : Word, value : Byte]) /\ Len(todo') = Current'.size - 0
          /\ \A k \in 1 .. Current'.size - 0 : todo'[k].addr = Plus(Target', 0 + k - 1)
      BY <2>1, <2>3, <2>7
    <3>3. 0 \in 0 .. Current'.size /\ \A k \in 1 .. 0 : FALSE
      BY <2>3, <2>4
    <3> QED BY <2>2, <3>1, <3>2, <3>3 DEF Loading
  <2>9. Storing'
    <3> SUFFICES ASSUME Current.op = "STORE" PROVE Storing'
      BY <2>3 DEF Storing
    <3>1. got' = << >> /\ 0 \in 0 .. Current'.size
      BY <2>1, <2>3, <2>4
    <3>2. /\ todo' \in Seq([kind : {"w"}, addr : Word, value : Byte]) /\ Len(todo') = Current'.size - 0
          /\ \A k \in 1 .. Current'.size - 0 :
               /\ todo'[k].addr = Plus(Target', 0 + k - 1)
               /\ todo'[k].value = ByteOf(x'[Current'.rs2], 0 + k)
      BY <2>1, <2>3, <2>7
    <3>3. mem.data = Stored(0)
      <4>1. \A c \in Addresses : ~ ((c - Target) % WordMod < 0)
        <5>1. \A c \in Addresses : c \in Word
          BY Words DEF Addresses, Word
        <5>2. \A c \in Word : (c - Target) % WordMod \in Nat
          BY <1>3, Offset
        <5> QED BY <5>1, <5>2
      <4> QED BY <1>1, <1>2, <4>1 DEF Stored, Registers, Memory
    <3>4. mem'.data = [c \in Addresses |->
             IF (c - Target') % WordMod < 0
               THEN ByteOf(x'[Current'.rs2], ((c - Target') % WordMod) + 1) ELSE ref'.mem.data[c]]
      BY <2>1, <2>3, <3>3 DEF Stored
    <3> QED BY <3>1, <3>2, <3>4 DEF Storing, Stored
  <2>10. Fetching'
    BY <2>1 DEF Fetching
  <2> QED BY <1>11, <2>1, <2>2, <2>3, <2>8, <2>9, <2>10 DEF Loaded, Handling, InHandler
<1>12. Current.op \in {"ILLEGAL", "INVALID", "SYSTEM", "JALR", "OP_IMM", "LOAD", "STORE"}
  BY <1>3 DEF Insns, Ops
<1> QED BY <1>6, <1>7, <1>8, <1>9, <1>10, <1>11, <1>12

(* The last access ends the instruction. *)
LEMMA FinishLoaded ==
  ASSUME Loaded, FinishAccess
  PROVE  Loaded'
<1>1. phase = "access" /\ todo = << >> /\ Registers /\ Current.op \in {"LOAD", "STORE"}
  BY DEF FinishAccess, Loaded
<1>2. /\ Current \in Insns /\ Target \in Word /\ Current.rd \in Reg
      /\ Current.size \in {1, 2, 4}
  BY <1>1, CurrentType DEF Insns
<1>3. pc \in Word /\ x \in [Reg -> Word] /\ Plus(pc, 4) \in Word /\ mem \in Memory
  <2>1. pc \in Int
    BY <1>1, Words DEF Registers
  <2> QED BY <1>1, <2>1, PlusType DEF Registers
<1>4. CASE Current.op = "LOAD"
  <2> DEFINE w == WordOf(Tail(got))
             size == Current.size
  <2>1. PICK n \in 0 .. size :
          /\ mem = ref.mem
          /\ got \in Seq(Word) /\ Len(got) = n + 1 /\ got[1] = Current.rd
          /\ \A k \in 1 .. n : got[k + 1] = Cell(Plus(Target, k - 1))
          /\ Len(todo) = size - n
    BY <1>1, <1>4 DEF Loaded, Loading
  <2>2. n = size
    BY <1>1, <1>2, <2>1
  <2>3. /\ got # << >> /\ Head(got) = Current.rd
        /\ Len(Tail(got)) = size /\ \A k \in 1 .. size : Tail(got)[k] = Cell(Plus(Target, k - 1))
    <3>1. got # << >>
      BY <2>1
    <3>2. /\ Head(got) = got[1] /\ Len(Tail(got)) = Len(got) - 1
          /\ \A k \in 1 .. Len(got) - 1 : Tail(got)[k] = got[k + 1]
      BY <2>1, <3>1, FirstAndRest
    <3> QED BY <1>2, <2>1, <2>2, <3>1, <3>2
  <2>4. w = WordOf([k \in 1 .. size |-> Cell(Plus(Target, k - 1))])
    <3>1. size \in 0 .. 4
      BY <1>2
    <3> QED BY <2>3, <3>1, ReadWord
  <2>5. w \in Word
    <3>1. \A k \in 1 .. size : Cell(Plus(Target, k - 1)) \in Byte
      <4>1. Target \in Int /\ \A k \in 1 .. size : k - 1 \in Int
        BY <1>2, Words
      <4> QED BY <1>1, <4>1, PlusType, ReadType DEF Cell, Registers
    <3>2. [k \in 1 .. size |-> Cell(Plus(Target, k - 1))] \in Seq(Byte)
      BY <1>2, <3>1
    <3> QED BY <2>4, <3>2, WordType
  <2>6. EndStep(0, Plus(pc, 4), RSET(Current.rd, w))
    BY <2>3 DEF FinishAccess
  <2>7. Whole(ref) = [pc |-> Plus(pc, 4), x |-> RSET(Current.rd, w), mem |-> mem]
    BY <1>1, <1>4, <2>1, <2>4, WholeOf
  <2>8. RSET(Current.rd, w) \in [Reg -> Word]
    BY <1>2, <1>3, <2>5, SetType
  <2> QED BY <1>3, <2>6, <2>7, <2>8, EndsLoaded
<1>5. CASE Current.op = "STORE"
  <2>1. PICK n \in 0 .. Current.size :
          got = << >> /\ mem.data = Stored(n) /\ Len(todo) = Current.size - n
    BY <1>1, <1>5 DEF Loaded, Storing
  <2>2. n = Current.size
    BY <1>1, <1>2, <2>1
  <2>3. mem = [ref.mem EXCEPT !.data = Stored(Current.size)]
    BY <1>1, <2>1, <2>2 DEF Registers, Memory
  <2>4. EndStep(0, Plus(pc, 4), x)
    BY <2>1 DEF FinishAccess
  <2>5. Whole(ref) = [pc |-> Plus(pc, 4), x |-> x, mem |-> mem]
    BY <1>1, <1>5, <2>3, WholeOf
  <2> QED BY <1>3, <2>4, <2>5, EndsLoaded
<1> QED BY <1>1, <1>4, <1>5

(* Between two instructions, and between any two bytes of one, the memory     *)
(* holds part of the store at most.                                           *)
LEMMA AlwaysMixed ==
  ASSUME Loaded
  PROVE  MixedStore
<1>1. CASE Handling
  BY <1>1 DEF Loaded
<1>2. CASE mem = ref.mem
  BY <1>2 DEF MixedStore
<1>3. CASE phase = "access" /\ Current.op = "STORE"
  <2>1. PICK n \in 0 .. Current.size : mem.data = Stored(n)
    BY <1>3 DEF Loaded, Storing
  <2>2. Current.size \in {1, 2, 4} /\ Target \in Word /\ Registers
    BY <1>3, CurrentType DEF Loaded
  <2>3. Whole(ref).mem.data = Stored(Current.size)
    <3>1. Whole(ref).mem = [ref.mem EXCEPT !.data = Stored(Current.size)]
      BY <1>3, <2>2, WholeOf
    <3> QED BY <2>2, <3>1 DEF Registers, Memory
  <2>4. ASSUME NEW c \in Addresses
        PROVE  Stored(n)[c] \in {ref.mem.data[c], Stored(Current.size)[c]}
    <3>1. PICK d : d = (c - Target) % WordMod
      OBVIOUS
    <3>2. d \in Nat
      <4>1. c \in Word
        BY Words DEF Addresses, Word
      <4> QED BY <2>2, <3>1, <4>1, Offset
    <3>3. Stored(n)[c] = IF d < n THEN ByteOf(x[Current.rs2], d + 1) ELSE ref.mem.data[c]
      BY <3>1 DEF Stored
    <3>4. Stored(Current.size)[c] = IF d < Current.size THEN ByteOf(x[Current.rs2], d + 1) ELSE ref.mem.data[c]
      BY <3>1 DEF Stored
    <3>5. d < n => d < Current.size
      BY <2>2, <3>2
    <3> QED BY <3>3, <3>4, <3>5
  <2> QED BY <2>1, <2>3, <2>4 DEF MixedStore
<1>4. CASE phase = "access" /\ Current.op = "LOAD"
  <2>1. mem = ref.mem
    BY <1>4 DEF Loaded, Loading
  <2> QED BY <2>1 DEF MixedStore
<1> QED BY <1>1, <1>2, <1>3, <1>4 DEF Loaded

(* What is read is bytes, beyond the buffer too. *)
LEMMA ContentsType ==
  ASSUME NEW f \in Files, f.exists, NEW data \in Contents(f)
  PROVE  data \in Seq(Byte)
<1>1. CASE ~ Overruns(f)
  BY <1>1 DEF Contents
<1>2. CASE Overruns(f)
  <2>1. ImageOf(f) = TextImage(f)
    BY <1>2 DEF Overruns, ImageOf
  <2>2. TextImage(f) \in Seq(Byte)
    BY <2>1
  <2>3. data \in [1 .. Len(TextImage(f)) -> Byte]
    BY <1>2 DEF Contents
  <2> QED BY <2>2, <2>3
<1> QED BY <1>1, <1>2

(* The memory a file is loaded into is a memory. *)
LEMMA LoadType ==
  ASSUME NEW m \in Memory, NEW f \in Files, NEW data \in Contents(f)
  PROVE  load_memory_from_file(m, f, data, 0).mem \in Memory
<1>1. CASE ~ f.exists
  BY <1>1 DEF load_memory_from_file
<1>2. CASE f.exists
  <2> DEFINE new == [a \in Addresses |-> IF a \in 0 .. 0 + Len(data) - 1 THEN data[a - 0 + 1] ELSE m.data[a]]
  <2>1. data \in Seq(Byte)
    BY <1>2, ContentsType
  <2>2. new \in [Addresses -> Byte]
    <3>1. ASSUME NEW a \in Addresses
          PROVE  (IF a \in 0 .. 0 + Len(data) - 1 THEN data[a - 0 + 1] ELSE m.data[a]) \in Byte
      <4>1. a \in 0 .. 0 + Len(data) - 1 => a - 0 + 1 \in 1 .. Len(data)
        BY <2>1 DEF Addresses
      <4> QED BY <2>1, <4>1 DEF Memory
    <3> QED BY <3>1
  <2>3. /\ m.type = "MONOLITHIC" /\ m.size = memory_size /\ DOMAIN m.data = Addresses
    BY DEF Memory
  <2>4. /\ load_memory_from_file(m, f, data, 0).mem = load_memory(m, data, 0).mem
        /\ load_memory(m, data, 0) = monolithic_load(m, data, 0)
    BY <1>2, <2>3 DEF load_memory_from_file, load_memory
  <2>5. monolithic_load(m, data, 0).mem = m \/ monolithic_load(m, data, 0).mem = [m EXCEPT !.data = new]
    BY <2>3 DEF monolithic_load
  <2>6. [m EXCEPT !.data = new] \in Memory
    <3> HIDE DEF new
    <3> QED BY <2>2 DEF Memory
  <2> QED BY <2>4, <2>5, <2>6
<1> QED BY <1>1, <1>2

-----------------------------------------------------------------------------
(* The invariant. *)

(* A step begins from a memory with a program in it, or ends in it, or does   *)
(* without one.                                                               *)
LEMMA MachineStep ==
  ASSUME Unloaded \/ Loaded, file \in Files, [Next \/ Terminated]_vars
  PROVE  (Unloaded \/ Loaded)'
<1>1. CASE UNCHANGED vars
  <2>1. CASE Unloaded
    BY <1>1, <2>1 DEF vars, Unloaded, InHandler
  <2>2. CASE Loaded
    <3>1. UNCHANGED <<phase, pc, x, mem, todo, got, ref>>
      BY <1>1 DEF vars
    <3>2. /\ Current' = Current /\ Target' = Target
          /\ \A n : Stored(n)' = Stored(n)
      BY <3>1, SameInstruction
    <3>3. Registers' /\ (Handling' => MixedStore')
      BY <2>2, <3>1 DEF Loaded, Registers, MixedStore, Handling, InHandler
    <3>4. Fetching' /\ Loading' /\ Storing'
      BY <2>2, <3>1, <3>2 DEF Loaded, Fetching, Reads, Loading, Storing, Cell, Stored
    <3> QED BY <2>2, <3>1, <3>2, <3>3, <3>4 DEF Loaded, Handling, InHandler
  <2> QED BY <1>1, <2>1, <2>2
<1>2. CASE Setup
  <2>1. Unloaded
    BY <1>2 DEF Setup, Loaded
  <2>2. mem' \in Memory
    <3>1. [a \in 0 .. memory_size - 1 |-> 0] \in [Addresses -> Byte]
      BY Words DEF Addresses
    <3> QED BY <1>2, <3>1 DEF Setup, rv_simulator_init_monolithic_memory, Memory
  <2>3. x' \in [Reg -> Word]
    <3>1. MinusOne \in Word /\ StackTop \in Word /\ 0 \in Word
      BY Words DEF MinusOne, Word
    <3> QED BY <1>2, <3>1 DEF Setup
  <2> QED BY <1>2, <2>1, <2>2, <2>3 DEF Setup, Unloaded, InHandler, history
<1>3. CASE Load
  <2>1. phase = "load" /\ mem \in Memory /\ x \in [Reg -> Word] /\ pc = 0
    BY <1>3 DEF Load, Loaded, Unloaded, InHandler
  <2>2. mem' \in Memory /\ ref' = [pc |-> pc, x |-> x, mem |-> mem'] /\ UNCHANGED <<pc, x>>
    BY <1>3, <2>1, LoadType DEF Load
  <2>3. Registers' /\ mem' = ref'.mem /\ phase' = "loop"
    BY <1>3, <2>1, <2>2, Words DEF Registers, Load
  <2>4. Fetching' /\ Loading' /\ Storing'
    BY <2>3 DEF Fetching, Loading, Storing
  <2> QED BY <2>3, <2>4 DEF Loaded, Handling, InHandler
<1>4. CASE StartStep
  BY <1>4, StartsLoaded DEF StartStep, Unloaded, InHandler
<1>5. CASE MakeAccess
  <2>1. Loaded
    BY <1>5 DEF MakeAccess, Unloaded, InHandler
  <2>2. phase = "fetch" \/ (phase = "access" /\ Current.op \in {"LOAD", "STORE"})
    BY <1>5, <2>1 DEF MakeAccess, Loaded
  <2> QED BY <1>5, <2>1, <2>2, FetchByte, LoadByte, StoreByte
<1>6. CASE TraceAccess
  <2>1. Loaded
    BY <1>6 DEF TraceAccess, Unloaded, InHandler
  <2>2. UNCHANGED <<phase, pc, x, mem, todo, got, ref>>
    BY <1>6 DEF TraceAccess, history
  <2>3. /\ Current' = Current /\ Target' = Target
        /\ \A n : Stored(n)' = Stored(n)
    BY <2>2, SameInstruction
  <2>4. Registers' /\ (Handling' => MixedStore')
    BY <2>1, <2>2 DEF Loaded, Registers, MixedStore, Handling, InHandler
  <2>5. Fetching' /\ Loading' /\ Storing'
    BY <2>1, <2>2, <2>3 DEF Loaded, Fetching, Reads, Loading, Storing, Cell, Stored
  <2> QED BY <2>1, <2>2, <2>3, <2>4, <2>5 DEF Loaded, Handling, InHandler
<1>7. CASE Execute
  BY <1>7, ExecuteLoaded DEF Execute, Fetched, Unloaded, InHandler
<1>8. CASE FinishAccess
  BY <1>8, FinishLoaded DEF FinishAccess, Unloaded, InHandler
<1>9. CASE CloseTrace
  <2>1. /\ phase = "close" /\ phase' = "dump" /\ UNCHANGED <<pc, x, mem, ref>>
    BY <1>9 DEF CloseTrace, simulator, history
  <2>2. Loaded /\ mem = ref.mem
    BY <2>1 DEF Unloaded, Loaded, Handling, InHandler
  <2> QED BY <2>1, <2>2, SameMachine DEF Handling, InHandler
<1>10. ASSUME NEW k, Key(k)
       PROVE  (Unloaded \/ Loaded)'
  <2>1. /\ phase = "prompt" /\ phase' \in {"loop", "prompt_dump", "prompt"}
        /\ UNCHANGED <<pc, x, mem, ref>>
    BY <1>10 DEF Key, simulator, history
  <2>2. Loaded /\ mem = ref.mem
    BY <2>1 DEF Unloaded, Loaded, Handling, InHandler
  <2> QED BY <2>1, <2>2, SameMachine DEF Handling, InHandler
<1>11. CASE DumpSim
  <2>1. PICK p \in Dumping : DumpStep(p)
    BY <1>11 DEF DumpSim
  <2>2. UNCHANGED <<pc, x, mem, ref, image>>
    BY <1>11 DEF DumpSim, simulator, history
  <2>3. CASE p = "handler"
    <3>1. InHandler /\ (phase' = "interrupted" \/ InHandler') /\ phase' \notin {"signal", "load"}
      BY <2>1, <2>3 DEF DumpStep, DumpPhases, InHandler
    <3>2. CASE Unloaded
      BY <2>2, <3>1, <3>2 DEF Unloaded, InHandler
    <3>3. CASE Loaded
      BY <2>2, <3>1, <3>3, AlwaysMixed, SameMachine DEF Handling, InHandler
    <3> QED BY <3>2, <3>3
  <2>4. CASE p \in {"dump", "prompt_dump"}
    <3>1. ~ Handling /\ ~ Handling' /\ phase \notin {"signal", "load", "access"}
          /\ phase' \notin {"signal", "load", "fetch", "access"}
      BY <2>1, <2>4 DEF DumpStep, DumpPhases, Handling, InHandler
    <3>2. Loaded /\ mem = ref.mem
      BY <3>1 DEF Unloaded, Loaded, Handling
    <3> QED BY <2>2, <3>1, <3>2, SameMachine
  <2> QED BY <2>3, <2>4 DEF Dumping
<1>12. CASE LoadCrashes
  BY <1>12 DEF LoadCrashes, Unloaded, Loaded, InHandler, simulator, history
<1>13. CASE Interrupt
  <2>1. UNCHANGED <<pc, x, mem, ref, image>> /\ phase' \in {"crashed", "handler"}
    BY <1>13 DEF Interrupt, simulator, history
  <2>2. CASE Unloaded
    BY <2>1, <2>2 DEF Unloaded, InHandler
  <2>3. CASE Loaded
    BY <2>1, <2>3, AlwaysMixed, SameMachine DEF Handling, InHandler
  <2> QED BY <2>2, <2>3
<1> QED
  BY <1>1, <1>2, <1>3, <1>4, <1>5, <1>6, <1>7, <1>8, <1>9, <1>10, <1>11, <1>12, <1>13
  DEF Next, Main, Terminated, PromptContinues, PromptDumps

(* Execution writes neither memory nor a file, and reads none. *)
LEMMA ExecuteFrame ==
  ASSUME Execute
  PROVE  UNCHANGED <<file, dump, given, mem, pending, trace, numloaded, image>> /\ phase' \in {"close", "prompt", "loop", "access"}
<1>1. \A r, p, v : EndStep(r, p, v) =>
        /\ UNCHANGED <<file, dump, given, mem, pending, trace, numloaded, image>>
        /\ phase' \in {"close", "prompt", "loop", "access"}
  BY DEF EndStep
<1>2. PICK i \in Insns : i = Insn(got)
  BY InsnType
<1>3. i.op \in Ops
  BY <1>2 DEF Insns
<1>4. CASE i.op = "ILLEGAL"
  BY <1>1, <1>2, <1>4 DEF Execute
<1>5. CASE i.op \in {"INVALID", "SYSTEM"}
  BY <1>1, <1>2, <1>5 DEF Execute
<1>6. CASE i.op = "JALR"
  BY <1>1, <1>2, <1>6 DEF Execute
<1>7. CASE i.op = "OP_IMM"
  BY <1>1, <1>2, <1>7 DEF Execute
<1>8. CASE i.op = "LOAD" /\ i.rd = 0
  BY <1>1, <1>2, <1>8 DEF Execute
<1>9. CASE i.op = "STORE" \/ (i.op = "LOAD" /\ i.rd # 0)
  BY <1>2, <1>9 DEF Execute, history
<1> QED BY <1>9, <1>3, <1>4, <1>5, <1>6, <1>7, <1>8 DEF Ops

(* What has been dumped stays what the machine is, which stands still.        *)
LEMMA DumpsStep ==
  ASSUME Dumps, [Next \/ Terminated]_vars
  PROVE  Dumps'
<1> DEFINE Opened == {"dump_mem_open", "prompt_dump_mem_open", "handler_mem_open"}
           Written == {"dump_mem", "prompt_dump_mem", "handler_mem"}
           Registering == {"dump_reg_open", "prompt_dump_reg_open", "handler_reg_open"}
           Quiet == Written \cup Registering \cup {"exited", "interrupted"}
<1>1. /\ OpenMemory = Opened /\ OpenRegisters = Registering
      /\ MemoryDumped = Written \cup Registering
  BY DEF OpenMemory, OpenRegisters, MemoryDumped, Dumping, DumpPhases
<1>2. CASE UNCHANGED vars
  BY <1>2 DEF vars, Dumps, OpenMemory, OpenRegisters, MemoryDumped
<1>3. CASE UNCHANGED <<dump, given>> /\ phase' \notin Quiet \cup Opened
  <2>1. phase' \notin OpenMemory \cup OpenRegisters \cup MemoryDumped \cup {"exited", "interrupted"}
    BY <1>1, <1>3
  <2>2. UNCHANGED <<dump, given, OpenMemory, OpenRegisters, MemoryDumped>>
    BY <1>3 DEF OpenMemory, OpenRegisters, MemoryDumped
  <2> QED BY <2>1, <2>2 DEF Dumps
<1>4. CASE DumpSim
  <2>1. UNCHANGED <<given, x, mem>>
    BY <1>4 DEF DumpSim, simulator
  <2>2. PICK p \in Dumping : DumpStep(p)
    BY <1>4 DEF DumpSim
  <2> DEFINE at == DumpPhases[p]
  <2>3. /\ at[2] \in Opened /\ at[3] \in Written /\ at[4] \in Registering
        /\ at[5] \in {"exited", "prompt", "interrupted"}
    BY DEF Dumping, DumpPhases
  <2>4. /\ dump = [mem |-> dump.mem, x |-> dump.x]
        /\ (~ given.o => dump.mem = Absent) /\ (~ given.r => dump.x = Absent)
        /\ phase \in Written \cup Registering /\ given.o => dump.mem = mem.data
        /\ phase \in Opened => given.o
        /\ phase \in Registering => given.r
    BY <1>1 DEF Dumps
  <2> DEFINE After ==
        /\ dump' = [mem |-> dump'.mem, x |-> dump'.x]
        /\ (~ given.o => dump'.mem = Absent) /\ (~ given.r => dump'.x = Absent)
        /\ phase' \in Quiet /\ given.o => dump'.mem = mem.data
        /\ phase' \in {"exited", "interrupted"} /\ given.r => dump'.x = x
        /\ phase' \in Opened => given.o
        /\ phase' \in Registering => given.r
  <2>5. \/ phase = at[1] /\ given.o /\ phase' = at[2] /\ dump' = [dump EXCEPT !.mem = Absent]
        \/ phase = at[1] /\ ~ given.o /\ phase' = at[3] /\ UNCHANGED dump
        \/ phase = at[2] /\ phase' = at[3] /\ dump' = [dump EXCEPT !.mem = mem.data]
        \/ phase = at[3] /\ given.r /\ phase' = at[4] /\ dump' = [dump EXCEPT !.x = Absent]
        \/ phase = at[3] /\ ~ given.r /\ phase' = at[5] /\ UNCHANGED dump
        \/ phase = at[4] /\ phase' = at[5] /\ dump' = [dump EXCEPT !.x = x]
    BY <2>2 DEF DumpStep, dump_memory
  <2> HIDE DEF at
  <2>6. After
    <3>1. CASE phase = at[1] /\ given.o /\ phase' = at[2] /\ dump' = [dump EXCEPT !.mem = Absent]
      BY <2>3, <2>4, <3>1
    <3>2. CASE phase = at[1] /\ ~ given.o /\ phase' = at[3] /\ UNCHANGED dump
      BY <2>3, <2>4, <3>2
    <3>3. CASE phase = at[2] /\ phase' = at[3] /\ dump' = [dump EXCEPT !.mem = mem.data]
      BY <2>3, <2>4, <3>3
    <3>4. CASE phase = at[3] /\ given.r /\ phase' = at[4] /\ dump' = [dump EXCEPT !.x = Absent]
      BY <2>3, <2>4, <3>4
    <3>5. CASE phase = at[3] /\ ~ given.r /\ phase' = at[5] /\ UNCHANGED dump
      BY <2>3, <2>4, <3>5
    <3>6. CASE phase = at[4] /\ phase' = at[5] /\ dump' = [dump EXCEPT !.x = x]
      BY <2>3, <2>4, <3>6
    <3> HIDE DEF After
    <3> QED BY <2>5, <3>1, <3>2, <3>3, <3>4, <3>5, <3>6
  <2>7. UNCHANGED <<OpenMemory, OpenRegisters, MemoryDumped>>
    BY DEF OpenMemory, OpenRegisters, MemoryDumped
  <2> QED BY <1>1, <2>1, <2>6, <2>7 DEF Dumps
<1>5. CASE Setup
  BY <1>3, <1>5 DEF Setup
<1>6. CASE Load \/ LoadCrashes
  BY <1>3, <1>6 DEF Load, LoadCrashes
<1>7. CASE StartStep
  BY <1>3, <1>7 DEF StartStep
<1>8. CASE MakeAccess
  BY <1>3, <1>8 DEF MakeAccess
<1>9. CASE TraceAccess
  BY <1>3, <1>9 DEF TraceAccess
<1>10. CASE Execute
  <2>1. UNCHANGED <<dump, given>> /\ phase' \in {"close", "prompt", "loop", "access"}
    BY <1>10, ExecuteFrame
  <2> QED BY <1>3, <2>1
<1>11. CASE FinishAccess
  <2>1. UNCHANGED <<dump, given>> /\ phase' \in {"close", "prompt", "loop"}
    BY <1>11 DEF FinishAccess, EndStep
  <2> QED BY <1>3, <2>1
<1>12. CASE CloseTrace
  BY <1>3, <1>12 DEF CloseTrace
<1>13. ASSUME NEW k, Key(k) PROVE Dumps'
  <2>1. UNCHANGED <<dump, given>> /\ phase' \in {"loop", "prompt_dump", "prompt"}
    BY <1>13 DEF Key
  <2> QED BY <1>3, <2>1
<1>14. CASE Interrupt
  <2>1. UNCHANGED <<dump, given>> /\ phase' \in {"crashed", "handler"}
    BY <1>14 DEF Interrupt
  <2> QED BY <1>3, <2>1
<1> QED
  BY <1>2, <1>4, <1>5, <1>6, <1>7, <1>8, <1>9, <1>10, <1>11, <1>12, <1>13, <1>14
  DEF Next, Main, Terminated, PromptContinues, PromptDumps

(* The simulator between the bytes of every instruction, and what it has      *)
(* dumped (rv_simulator_step, dump_sim, signal_handler).                      *)
THEOREM CliInvariant == Spec => [](CliInv /\ file \in Files)
<1>1. Init => CliInv /\ file \in Files
  <2> SUFFICES ASSUME Init PROVE CliInv /\ file \in Files
    OBVIOUS
  <2>1. Unloaded
    BY DEF Init, Unloaded
  <2>2. phase \notin OpenMemory \cup OpenRegisters \cup MemoryDumped \cup {"exited", "interrupted"}
    BY DEF Init, OpenMemory, OpenRegisters, MemoryDumped, Dumping, DumpPhases
  <2>3. Dumps
    BY <2>2 DEF Init, NoDump, Dumps
  <2> QED BY <2>1, <2>3 DEF CliInv, Init
<1>2. CliInv /\ file \in Files /\ [Next \/ Terminated]_vars => (CliInv /\ file \in Files)'
  <2> SUFFICES ASSUME CliInv, file \in Files, [Next \/ Terminated]_vars
               PROVE  CliInv' /\ file' \in Files
    OBVIOUS
  <2>1. (Unloaded \/ Loaded)' /\ Dumps'
    BY MachineStep, DumpsStep DEF CliInv
  <2>2. file' = file
    BY ExecuteFrame
    DEF Next, Main, Terminated, vars, Setup, Load, LoadCrashes, StartStep, MakeAccess, TraceAccess,
        EndStep, FinishAccess, CloseTrace, DumpSim, PromptContinues, PromptDumps, Key, Interrupt
  <2> QED BY <2>1, <2>2 DEF CliInv
<1> QED BY <1>1, <1>2, PTL DEF Spec

(* Every way out of the program leaves the dumps it promises: dump_sim at the *)
(* end of main writes the machine after the last instruction, and the one in  *)
(* signal_handler the registers and a memory mixed with the running store.    *)
THEOREM DumpsMachine == Spec => []DumpIsMachine
<1>1. CliInv => DumpIsMachine
  <2> SUFFICES ASSUME CliInv PROVE DumpIsMachine
    OBVIOUS
  <2>1. /\ dump = [mem |-> dump.mem, x |-> dump.x]
        /\ (~ given.o => dump.mem = Absent) /\ (~ given.r => dump.x = Absent)
        /\ phase \in {"exited", "interrupted"} =>
             (given.o => dump.mem = mem.data) /\ (given.r => dump.x = x)
    BY DEF CliInv, Dumps
  <2>2. ASSUME phase = "exited"
        PROVE  dump = [mem |-> IF given.o THEN ref.mem.data ELSE Absent,
                       x |-> IF given.r THEN ref.x ELSE Absent]
    <3>1. Loaded
      BY <2>2 DEF CliInv, Unloaded, InHandler
    <3>2. mem = ref.mem /\ x = ref.x
      BY <2>2, <3>1 DEF Loaded, Registers, Handling, InHandler
    <3> QED BY <2>1, <2>2, <3>2
  <2>3. ASSUME phase = "interrupted", image # NoMemory
        PROVE  /\ dump.x = IF given.r THEN ref.x ELSE Absent
               /\ IF given.o THEN \A a \in 0 .. memory_size - 1 :
                                    dump.mem[a] \in {ref.mem.data[a], Whole(ref).mem.data[a]}
                             ELSE dump.mem = Absent
    <3>1. Loaded
      BY <2>3 DEF CliInv, Unloaded
    <3>2. MixedStore /\ x = ref.x
      BY <3>1, AlwaysMixed DEF Loaded, Registers
    <3> QED BY <2>1, <2>3, <3>2 DEF MixedStore, Addresses
  <2> QED BY <2>2, <2>3 DEF DumpIsMachine
<1> QED BY <1>1, CliInvariant, PTL

-----------------------------------------------------------------------------
(* The trace file, replayed. *)

Record == [kind : {"r", "w"}, addr : Word, value : Byte]
Replayed == [data : [Addresses -> Byte], ok : BOOLEAN]
Start == [data |-> image.data, ok |-> TRUE]
Applied(s, r) ==
  IF r.addr >= memory_size THEN [s EXCEPT !.ok = @ /\ (r.kind = "r" => r.value = 0)]
  ELSE IF r.kind = "w" THEN [s EXCEPT !.data[r.addr] = r.value]
  ELSE [s EXCEPT !.ok = @ /\ s.data[r.addr] = r.value]
Apply == [p \in Replayed \X Record |-> Applied(p[1], p[2])]

(* What a record does, case by case. *)
LEMMA AppliedTo ==
  ASSUME NEW d \in [Addresses -> Byte], NEW b \in BOOLEAN, NEW r \in Record
  PROVE  Applied([data |-> d, ok |-> b], r) =
           [data |-> IF ~ (r.addr >= memory_size) /\ r.kind = "w" THEN [d EXCEPT ![r.addr] = r.value] ELSE d,
            ok |-> b /\ (r.kind = "r" => r.value = IF r.addr >= memory_size THEN 0 ELSE d[r.addr])]
<1>1. r.kind = "r" \/ r.kind = "w"
  BY DEF Record
<1>2. CASE r.addr >= memory_size
  BY <1>2 DEF Applied
<1>3. CASE ~ (r.addr >= memory_size) /\ r.kind = "w"
  BY <1>3 DEF Applied
<1>4. CASE ~ (r.addr >= memory_size) /\ r.kind = "r"
  BY <1>4 DEF Applied
<1> QED BY <1>1, <1>2, <1>3, <1>4

(* Applying a record to a memory leaves one. *)
LEMMA AppliedType ==
  ASSUME NEW s \in Replayed, NEW r \in Record
  PROVE  Applied(s, r) \in Replayed
<1>1. PICK d \in [Addresses -> Byte], b \in BOOLEAN : s = [data |-> d, ok |-> b]
  BY DEF Replayed
<1>2. [d EXCEPT ![r.addr] = r.value] \in [Addresses -> Byte]
  BY DEF Record
<1>3. \A e \in [Addresses -> Byte], c \in BOOLEAN : [data |-> e, ok |-> c] \in Replayed
  BY DEF Replayed
<1> QED BY <1>1, <1>2, <1>3, AppliedTo

(* Replay is the fold of Apply. *)
LEMMA ReplayFolds ==
  ASSUME NEW records \in Seq(Record), Start \in Replayed
  PROVE  \E f \in [0 .. Len(records) -> Replayed] :
           Folds(f, Apply, Start, records) /\ Replay(records) = f[Len(records)]
<1> DEFINE Step(f) ==
             [n \in 0 .. Len(records) |->
                IF n = 0 THEN Start ELSE CHOOSE r \in {Applied(p, records[n]) : p \in {f[n - 1]}} : TRUE]
           fold == CHOOSE f : f = Step(f)
<1>1. Replay(records) = fold[Len(records)]
  BY DEF Replay, Accumulate, Start, Applied
<1>2. Apply \in [Replayed \X Record -> Replayed]
  BY AppliedType DEF Apply
<1>3. PICK f \in [0 .. Len(records) -> Replayed] : Folds(f, Apply, Start, records)
  BY <1>2, FoldExists
<1>4. f = Step(f)
  <2>1. \A n \in 1 .. Len(records) : f[n - 1] \in Replayed /\ records[n] \in Record
    OBVIOUS
  <2>2. \A n \in 1 .. Len(records) : f[n] = Applied(f[n - 1], records[n])
    BY <2>1, <1>3 DEF Folds, Apply
  <2>3. \A v : (CHOOSE r \in {v} : TRUE) = v
    OBVIOUS
  <2>4. \A n \in 0 .. Len(records) : f[n] = Step(f)[n]
    BY <1>3, <2>2, <2>3 DEF Folds
  <2> QED BY <2>4
<1> HIDE DEF Step
<1>5. fold = Step(fold)
  BY <1>4, Zenon
<1> USE DEF Step
<1>6. /\ fold[0] = Start
      /\ \A n \in 1 .. Len(records) : fold[n] = Applied(fold[n - 1], records[n])
  <2>1. \A v : (CHOOSE r \in {v} : TRUE) = v
    OBVIOUS
  <2>2. \A n \in 0 .. Len(records) : fold[n] = Step(fold)[n]
    BY <1>5
  <2> HIDE DEF fold
  <2> QED BY <2>1, <2>2
<1> HIDE DEF Step, fold
<1>7. ASSUME NEW n \in 1 .. Len(records), fold[n - 1] \in Replayed
      PROVE  fold[n] = Apply[<<fold[n - 1], records[n]>>]
  <2>1. records[n] \in Record
    OBVIOUS
  <2> QED BY <1>6, <1>7, <2>1 DEF Apply
<1>8. \A n \in 0 .. Len(records) : fold[n] = f[n]
  <2>1. FoldsWithin(fold, Replayed, Apply, Start, records)
    BY <1>6, <1>7 DEF FoldsWithin
  <2> QED BY <1>3, <2>1, FoldIs
<1> QED BY <1>1, <1>3, <1>8

(* Nothing is replayed over the loaded image, ... *)
LEMMA ReplayNothing == Start \in Replayed => Replay(<< >>) = Start
<1> SUFFICES ASSUME Start \in Replayed PROVE Replay(<< >>) = Start
  OBVIOUS
<1>1. << >> \in Seq(Record) /\ Len(<< >>) = 0
  OBVIOUS
<1>2. PICK f \in [0 .. 0 -> Replayed] : Folds(f, Apply, Start, << >>) /\ Replay(<< >>) = f[0]
  BY <1>1, ReplayFolds
<1> QED BY <1>2 DEF Folds

(* ... and one record more is applied to what the others leave. *)
LEMMA ReplayOneMore ==
  ASSUME NEW records \in Seq(Record), NEW r \in Record, Start \in Replayed
  PROVE  /\ Replay(records) \in Replayed
         /\ Replay(Append(records, r)) = Applied(Replay(records), r)
<1> DEFINE longer == Append(records, r)
           n == Len(records)
<1>1. /\ longer \in Seq(Record) /\ Len(longer) = n + 1 /\ longer[n + 1] = r
      /\ n \in Nat /\ \A k \in 1 .. n : records[k] = longer[k]
  OBVIOUS
<1>2. PICK f \in [0 .. n -> Replayed] : Folds(f, Apply, Start, records) /\ Replay(records) = f[n]
  BY ReplayFolds
<1> HIDE DEF longer
<1>3. PICK g \in [0 .. Len(longer) -> Replayed] :
        Folds(g, Apply, Start, longer) /\ Replay(longer) = g[Len(longer)]
  BY <1>1, ReplayFolds
<1>4. f[n] = g[n]
  <2>1. n <= Len(longer)
    BY <1>1
  <2>2. \A k \in 0 .. n : f[k] = g[k]
    BY <1>1, <1>2, <1>3, <2>1, FoldUnique
  <2> QED BY <1>1, <2>2
<1>5. f[n] \in Replayed /\ g[n] \in Replayed
  BY <1>2, <1>4
<1>6. g[n + 1] = Apply[<<g[n], r>>]
  BY <1>1, <1>3 DEF Folds
<1>7. g[n + 1] = Applied(g[n], r)
  BY <1>5, <1>6 DEF Apply
<1> QED BY <1>1, <1>2, <1>3, <1>4, <1>5, <1>7 DEF longer

-----------------------------------------------------------------------------
(* The trace explains the memory. *)

(* The phases before a program is loaded, and the ends they may come to. *)
Before == phase \in {"signal", "load", "crashed", "interrupted"} \/ InHandler

(* What the trace and the access in hand have to do with the memory. *)
Traced ==
  /\ trace \in Seq(Record) /\ pending \in Seq(Record)
  /\ ~ given.l => pending = << >>
  /\ image = NoMemory => trace = << >> /\ pending = << >> /\ Before
  /\ image # NoMemory =>
       /\ image \in Memory /\ Loaded
       /\ given.l => Replay(trace \o pending) = [data |-> mem.data, ok |-> TRUE]

(* A loaded image is one to start from. *)
LEMMA StartType == image \in Memory => Start \in Replayed
BY DEF Memory, Start, Replayed

(* The access that is made next. *)
LEMMA NextAccess ==
  ASSUME Loaded, MakeAccess
  PROVE  LET a == Head(todo)
         IN  a.kind \in {"fetch", "r", "w"} /\ a.addr \in Word /\ a.value \in Byte
<1>1. todo # << >> /\ phase \in {"fetch", "access"}
  BY DEF MakeAccess
<1>2. CASE phase = "fetch"
  <2>1. todo \in Seq([kind : {"fetch"}, addr : Word, value : {0}])
    BY <1>2 DEF Loaded, Fetching
  <2>2. Head(todo) \in [kind : {"fetch"}, addr : Word, value : {0}]
    <3> DEFINE S == [kind : {"fetch"}, addr : Word, value : {0}]
    <3>1. todo \in Seq(S)
      BY <2>1
    <3> HIDE DEF S
    <3>2. Head(todo) = todo[1] /\ todo[1] \in S
      BY <1>1, <3>1, FirstAndRest
    <3>3. Head(todo) \in S
      BY <3>2, Zenon
    <3> QED BY <3>3 DEF S
  <2> QED BY <2>2, Words
<1>3. CASE phase = "access" /\ Current.op = "LOAD"
  <2>1. todo \in Seq([kind : {"r"}, addr : Word, value : Byte])
    BY <1>3 DEF Loaded, Loading
  <2>2. Head(todo) \in [kind : {"r"}, addr : Word, value : Byte]
    <3> DEFINE S == [kind : {"r"}, addr : Word, value : Byte]
    <3>1. todo \in Seq(S)
      BY <2>1
    <3> HIDE DEF S
    <3>2. Head(todo) = todo[1] /\ todo[1] \in S
      BY <1>1, <3>1, FirstAndRest
    <3>3. Head(todo) \in S
      BY <3>2, Zenon
    <3> QED BY <3>3 DEF S
  <2> QED BY <2>2
<1>4. CASE phase = "access" /\ Current.op = "STORE"
  <2>1. todo \in Seq([kind : {"w"}, addr : Word, value : Byte])
    BY <1>4 DEF Loaded, Storing
  <2>2. Head(todo) \in [kind : {"w"}, addr : Word, value : Byte]
    <3> DEFINE S == [kind : {"w"}, addr : Word, value : Byte]
    <3>1. todo \in Seq(S)
      BY <2>1
    <3> HIDE DEF S
    <3>2. Head(todo) = todo[1] /\ todo[1] \in S
      BY <1>1, <3>1, FirstAndRest
    <3>3. Head(todo) \in S
      BY <3>2, Zenon
    <3> QED BY <3>3 DEF S
  <2> QED BY <2>2
<1> QED BY <1>1, <1>2, <1>3, <1>4 DEF Loaded

(* An access and its record do the same to the memory. *)
LEMMA AccessTraced ==
  ASSUME Traced, MakeAccess, image # NoMemory
  PROVE  /\ pending' \in Seq(Record) /\ (~ given.l => pending' = << >>)
         /\ given.l => Replay(trace' \o pending') = [data |-> mem'.data, ok |-> TRUE]
<1> DEFINE a == Head(todo)
           value == IF a.kind = "w" THEN a.value ELSE read_byte(mem, a.addr)
           r == Access(IF a.kind = "w" THEN "w" ELSE "r", a.addr, value)
<1>1. /\ Loaded /\ mem \in Memory /\ pending = << >> /\ trace' = trace
      /\ mem' = IF a.kind = "w" THEN write_byte(mem, a.addr, a.value) ELSE mem
      /\ pending' = IF given.l THEN <<r>> ELSE << >>
  BY DEF Traced, MakeAccess, Loaded, Registers
<1>2. a.kind \in {"fetch", "r", "w"} /\ a.addr \in Word /\ a.value \in Byte
  BY <1>1, NextAccess
<1>3. r \in Record
  <2>1. value \in Byte
    BY <1>1, <1>2, ReadType
  <2> HIDE DEF value
  <2> QED BY <1>2, <2>1 DEF Access, Record
<1>4. ASSUME given.l
      PROVE  Replay(trace' \o pending') = [data |-> mem'.data, ok |-> TRUE]
  <2>1. trace \in Seq(Record) /\ trace \o << >> = trace /\ trace \o <<r>> = Append(trace, r)
    BY <1>3 DEF Traced
  <2>2. Replay(trace) = [data |-> mem.data, ok |-> TRUE]
    BY <1>1, <1>4, <2>1 DEF Traced
  <2>3. Start \in Replayed
    BY StartType DEF Traced
  <2> HIDE DEF r
  <2>4. Replay(Append(trace, r)) = Applied([data |-> mem.data, ok |-> TRUE], r)
    BY <1>3, <2>1, <2>2, <2>3, ReplayOneMore
  <2>5. PICK d \in [Addresses -> Byte] :
          mem = [type |-> "MONOLITHIC", size |-> memory_size, data |-> d]
    BY <1>1 DEF Memory
  <2>6. Applied([data |-> d, ok |-> TRUE], r) = [data |-> mem'.data, ok |-> TRUE]
    <3>1. /\ r.addr = a.addr /\ r.value = value
          /\ r.kind = IF a.kind = "w" THEN "w" ELSE "r"
      BY DEF r, Access
    <3>2. a.addr >= memory_size <=> ~ (a.addr < memory_size)
      <4>1. a.addr \in Int /\ memory_size \in Int
        BY <1>2, Words, MachineAssumption DEF Word
      <4> HIDE DEF a
      <4> QED BY <4>1
    <3>3. CASE a.kind = "w"
      <4>1. mem' = IF a.addr < memory_size THEN [mem EXCEPT !.data[a.addr] = value] ELSE mem
        BY <1>1, <2>5, <3>3 DEF write_byte, monolithic_write
      <4>2. mem'.data = IF a.addr < memory_size THEN [d EXCEPT ![a.addr] = value] ELSE d
        BY <2>5, <4>1
      <4>3. Applied([data |-> d, ok |-> TRUE], r) =
              [data |-> IF ~ (r.addr >= memory_size) /\ r.kind = "w" THEN [d EXCEPT ![r.addr] = r.value] ELSE d,
               ok |-> TRUE /\ (r.kind = "r" => r.value = IF r.addr >= memory_size THEN 0 ELSE d[r.addr])]
        BY <1>3, <2>5, AppliedTo
      <4>4. r.kind = "w"
        BY <3>1, <3>3
      <4> HIDE DEF value, a
      <4> QED BY <3>1, <3>2, <4>2, <4>3, <4>4
    <3>4. CASE a.kind # "w"
      <4>1. mem' = mem /\ value = IF a.addr < memory_size THEN d[a.addr] ELSE 0
        BY <1>1, <2>5, <3>4 DEF read_byte, monolithic_read
      <4>2. mem'.data = d
        BY <2>5, <4>1
      <4> HIDE DEF value, a
      <4> QED BY <1>3, <3>1, <3>2, <3>4, <4>1, <4>2, AppliedTo
    <3> QED BY <3>3, <3>4
  <2>7. mem.data = d
    BY <2>5
  <2> QED BY <1>1, <1>4, <2>1, <2>4, <2>6, <2>7
<1> QED BY <1>1, <1>3, <1>4

(* Replaying depends on the loaded image alone. *)
LEMMA ReplaySame ==
  ASSUME UNCHANGED image
  PROVE  Replay(trace \o pending)' = Replay(trace' \o pending')
BY DEF Replay, Accumulate

(* Loading makes no trace. *)
LEMMA LoadTraced ==
  ASSUME CliInv, CliInv', file \in Files, Traced, Load
  PROVE  Traced'
<1>1. phase = "load" /\ mem \in Memory /\ image = NoMemory
  BY DEF Load, CliInv, Loaded, Unloaded
<1>2. mem' \in Memory /\ image' = mem' /\ phase' = "loop" /\ UNCHANGED <<given, trace, pending>>
  BY <1>1, LoadType DEF Load
<1>3. Loaded'
  BY <1>2 DEF CliInv, Unloaded, InHandler
<1>4. trace' = << >> /\ pending' = << >> /\ << >> \o << >> = << >> /\ << >> \in Seq(Record)
  BY <1>1, <1>2 DEF Traced
<1>5. (Start \in Replayed => Replay(<< >>) = Start)'
  BY ReplayNothing, PTL
<1>6. (image \in Memory => Start \in Replayed)'
  BY StartType, PTL
<1>7. Replay(<< >>)' = [data |-> mem'.data, ok |-> TRUE]
  BY <1>2, <1>5, <1>6 DEF Start
<1>8. Replay(trace \o pending)' = Replay(<< >>)'
  BY <1>4 DEF Replay, Accumulate
<1> QED BY <1>2, <1>3, <1>4, <1>7, <1>8 DEF Traced, Memory, NoMemory

(* Every step keeps the trace in step with the memory. *)
LEMMA TracedStep ==
  ASSUME CliInv, CliInv', file \in Files, Traced, [Next \/ Terminated]_vars
  PROVE  Traced'
<1>1. ASSUME UNCHANGED <<given, mem, trace, pending, image>>, Before => Before' PROVE Traced'
  <2>1. image # NoMemory => Loaded'
    BY <1>1 DEF CliInv, Unloaded, Traced
  <2> QED BY <1>1, <2>1, ReplaySame DEF Traced
<1>2. CASE Load
  BY <1>2, LoadTraced
<1>3. CASE MakeAccess
  <2>1. UNCHANGED <<given, trace, image, phase>>
    BY <1>3 DEF MakeAccess, history
  <2>2. image # NoMemory
    BY <1>3 DEF MakeAccess, Traced, Before, InHandler
  <2>3. Loaded'
    BY <2>1, <2>2 DEF CliInv, Unloaded
  <2> QED BY <1>3, <2>1, <2>2, <2>3, AccessTraced, ReplaySame DEF Traced
<1>4. CASE TraceAccess
  <2>1. UNCHANGED <<given, mem, image>> /\ trace' = trace \o pending /\ pending' = << >>
    BY <1>4 DEF TraceAccess, history
  <2>2. trace \o pending \in Seq(Record) /\ trace' \o pending' = trace \o pending
    BY <2>1 DEF Traced
  <2>3. image # NoMemory /\ Loaded'
    BY <1>4, <2>1 DEF TraceAccess, CliInv, Unloaded, Traced
  <2> QED BY <2>1, <2>2, <2>3, ReplaySame DEF Traced
<1>5. CASE Execute
  <2>1. UNCHANGED <<given, mem, trace, pending, image>> /\ ~ Before
    BY <1>5, ExecuteFrame DEF Execute, Fetched, Before, InHandler
  <2> QED BY <1>1, <2>1
<1>6. CASE Setup
  <2>1. image = NoMemory /\ UNCHANGED <<given, trace, pending, image>>
    BY <1>6 DEF Setup, CliInv, Unloaded, Loaded, history
  <2>2. Before'
    BY <1>6 DEF Setup, Before
  <2> QED BY <2>1, <2>2 DEF Traced
<1>7. CASE LoadCrashes
  <2>1. UNCHANGED <<given, mem, trace, pending, image>> /\ Before'
    BY <1>7 DEF LoadCrashes, Before, simulator, history
  <2> QED BY <1>1, <2>1
<1>8. CASE ~ (Load \/ LoadCrashes \/ MakeAccess \/ TraceAccess \/ Execute \/ Setup)
  <2>1. UNCHANGED <<given, mem, trace, pending, image>>
    BY <1>8 DEF Next, Main, Terminated, vars, StartStep, FinishAccess, EndStep, CloseTrace, DumpSim,
                PromptContinues, PromptDumps, Key, Interrupt, simulator, history
  <2>2. Before => Before'
    BY <1>8 DEF Next, Main, Terminated, vars, StartStep, FinishAccess, CloseTrace, DumpSim, DumpStep, Dumping,
                DumpPhases, PromptContinues, PromptDumps, Key, Interrupt, Before, InHandler
  <2> QED BY <1>1, <2>1, <2>2
<1> QED BY <1>2, <1>3, <1>4, <1>5, <1>6, <1>7, <1>8

-----------------------------------------------------------------------------
(* Numbers of a text file. *)

Shift == [p \in Nat \X Numeral |-> p[1] * HexBase + p[2]]

(* Multiplication keeps the order, and so does division. *)
LEMMA Quotient ==
  ASSUME NEW a \in Nat, NEW b \in Nat, NEW h \in Nat \ {0}, a * h <= b
  PROVE  a <= b \div h
<1> DEFINE q == b \div h
           r == b % h
<1>1. q \in Int /\ r \in 0 .. h - 1 /\ b = q * h + r
  OBVIOUS
<1> HIDE DEF q, r
<1> SUFFICES ASSUME a >= q + 1 PROVE FALSE
  BY <1>1 DEF q
<1>2. (a - (q + 1)) * h \in Nat
  BY <1>1
<1>3. (a - (q + 1)) * h = a * h - q * h - h
  BY <1>1
<1> QED BY <1>1, <1>2, <1>3

(* A number grows with its digits. *)
LEMMA ShiftType ==
  ASSUME NEW v \in Nat, NEW d \in Numeral
  PROVE  v * HexBase + d \in Nat /\ v <= v * HexBase + d
<1>1. HexBase \in Nat \ {0} /\ d \in Nat
  BY ByteAssumption DEF Numeral
<1>2. v * (HexBase - 1) \in Nat
  BY <1>1
<1>3. v * (HexBase - 1) = v * HexBase - v
  BY <1>1
<1> QED BY <1>1, <1>2, <1>3

(* The number a line denotes is the fold of Shift. *)
LEMMA ValueFolds ==
  ASSUME NEW digits \in Seq(Numeral)
  PROVE  \E f \in [0 .. Len(digits) -> Nat] :
           Folds(f, Shift, 0, digits) /\ Value(digits, HexBase) = f[Len(digits)]
<1> DEFINE Step(f) ==
             [n \in 0 .. Len(digits) |->
                IF n = 0 THEN 0 ELSE CHOOSE r \in {p * HexBase + digits[n] : p \in {f[n - 1]}} : TRUE]
           fold == CHOOSE f : f = Step(f)
<1>1. Value(digits, HexBase) = fold[Len(digits)]
  BY DEF Value, Accumulate
<1>2. Shift \in [Nat \X Numeral -> Nat]
  BY ShiftType DEF Shift
<1>3. PICK f \in [0 .. Len(digits) -> Nat] : Folds(f, Shift, 0, digits)
  BY <1>2, FoldExists
<1>4. \A v : (CHOOSE r \in {v} : TRUE) = v
  OBVIOUS
<1>5. f = Step(f)
  <2>1. \A n \in 1 .. Len(digits) : f[n - 1] \in Nat /\ digits[n] \in Numeral
    OBVIOUS
  <2>2. \A n \in 1 .. Len(digits) : f[n] = f[n - 1] * HexBase + digits[n]
    BY <2>1, <1>3 DEF Folds, Shift
  <2>3. \A n \in 0 .. Len(digits) : f[n] = Step(f)[n]
    BY <1>3, <1>4, <2>2 DEF Folds
  <2> QED BY <2>3
<1> HIDE DEF Step
<1>6. fold = Step(fold)
  BY <1>5, Zenon
<1> USE DEF Step
<1>7. fold[0] = 0 /\ \A n \in 1 .. Len(digits) : fold[n] = fold[n - 1] * HexBase + digits[n]
  <2>1. \A n \in 0 .. Len(digits) : fold[n] = Step(fold)[n]
    BY <1>6
  <2> HIDE DEF fold
  <2> QED BY <1>4, <2>1
<1> HIDE DEF Step, fold
<1>8. ASSUME NEW n \in 1 .. Len(digits), fold[n - 1] \in Nat
      PROVE  fold[n] = Shift[<<fold[n - 1], digits[n]>>]
  <2>1. digits[n] \in Numeral
    OBVIOUS
  <2> QED BY <1>7, <1>8, <2>1 DEF Shift
<1>9. \A n \in 0 .. Len(digits) : fold[n] = f[n]
  <2>1. FoldsWithin(fold, Nat, Shift, 0, digits)
    BY <1>7, <1>8 DEF FoldsWithin
  <2> QED BY <1>3, <2>1, FoldIs
<1> QED BY <1>1, <1>3, <1>9

(* No digit makes a number smaller. *)
LEMMA ValueGrows ==
  ASSUME NEW digits \in Seq(Numeral), NEW f \in [0 .. Len(digits) -> Nat], Folds(f, Shift, 0, digits)
  PROVE  \A n \in 0 .. Len(digits) : f[n] <= f[Len(digits)]
<1> DEFINE len == Len(digits)
           N == {k \in Nat : k <= len => f[len - k] <= f[len]}
<1>1. 0 \in N
  OBVIOUS
<1>2. ASSUME NEW k \in Nat, k \in N PROVE k + 1 \in N
  <2> SUFFICES ASSUME k + 1 <= len PROVE f[len - (k + 1)] <= f[len]
    OBVIOUS
  <2> DEFINE n == len - k
  <2>1. n \in 1 .. len /\ n - 1 = len - (k + 1) /\ f[n] <= f[len]
    BY <1>2
  <2> HIDE DEF n
  <2>2. f[n - 1] \in Nat /\ digits[n] \in Numeral /\ f[n] \in Nat /\ f[len] \in Nat
    BY <2>1
  <2>3. f[n] = Shift[<<f[n - 1], digits[n]>>]
    BY <2>1 DEF Folds
  <2>4. f[n] = f[n - 1] * HexBase + digits[n]
    BY <2>2, <2>3 DEF Shift
  <2>5. f[n - 1] <= f[n]
    BY <2>2, <2>4, ShiftType
  <2> QED BY <2>1, <2>2, <2>5
<1>3. Nat \subseteq N
  <2> HIDE DEF N
  <2> QED BY <1>1, <1>2, SetInduction
<1>4. \A n \in 0 .. len : len - n \in Nat /\ len - n <= len /\ len - (len - n) = n
  OBVIOUS
<1> QED BY <1>3, <1>4

(* strtol reads the number, if LONG_MAX and uint32_t have room for it. *)
LEMMA StrtolReads ==
  ASSUME NEW digits \in Seq(Numeral),
         Value(digits, HexBase) <= LongMax, Value(digits, HexBase) < WordMod
  PROVE  strtol(digits, HexBase) = Value(digits, HexBase)
<1> DEFINE OneDigit(a, d) == IF a > (LongMax - d) \div HexBase THEN LongMax ELSE a * HexBase + d
           Step(f) ==
             [n \in 0 .. Len(digits) |->
                IF n = 0 THEN 0 ELSE CHOOSE r \in {OneDigit(p, digits[n]) : p \in {f[n - 1]}} : TRUE]
           fold == CHOOSE f : f = Step(f)
<1>1. strtol(digits, HexBase) = fold[Len(digits)] % WordMod
  BY DEF strtol, Accumulate
<1>2. PICK f \in [0 .. Len(digits) -> Nat] :
        Folds(f, Shift, 0, digits) /\ Value(digits, HexBase) = f[Len(digits)]
  BY ValueFolds
<1>3. \A v : (CHOOSE r \in {v} : TRUE) = v
  OBVIOUS
<1>4. ASSUME NEW n \in 1 .. Len(digits)
      PROVE  OneDigit(f[n - 1], digits[n]) = Shift[<<f[n - 1], digits[n]>>]
  <2>1. f[n - 1] \in Nat /\ digits[n] \in Numeral
    OBVIOUS
  <2>2. f[n] = f[n - 1] * HexBase + digits[n]
    BY <2>1, <1>2 DEF Folds, Shift
  <2>3. f[n] <= LongMax
    <3>1. f[n] <= f[Len(digits)]
      BY <1>2, ValueGrows
    <3> QED BY <1>2, <3>1, LongAssumption
  <2>4. ~ (f[n - 1] > (LongMax - digits[n]) \div HexBase)
    <3>1. HexBase \in Nat \ {0} /\ digits[n] \in Nat /\ f[n - 1] * HexBase \in Nat
      BY <2>1, ByteAssumption DEF Numeral
    <3>2. LongMax - digits[n] \in Nat /\ f[n - 1] * HexBase <= LongMax - digits[n]
      BY <2>2, <2>3, <3>1, LongAssumption
    <3>3. f[n - 1] <= (LongMax - digits[n]) \div HexBase
      BY <2>1, <3>1, <3>2, Quotient
    <3>4. (LongMax - digits[n]) \div HexBase \in Int
      BY <3>1, <3>2
    <3> QED BY <2>1, <3>3, <3>4
  <2> QED BY <2>1, <2>4 DEF Shift
<1>5. f = Step(f)
  <2>1. \A n \in 1 .. Len(digits) : f[n] = OneDigit(f[n - 1], digits[n])
    BY <1>2, <1>4 DEF Folds
  <2> HIDE DEF OneDigit
  <2>2. \A n \in 0 .. Len(digits) : f[n] = Step(f)[n]
    BY <1>2, <1>3, <2>1 DEF Folds
  <2> QED BY <2>2
<1> HIDE DEF Step
<1>6. fold = Step(fold)
  BY <1>5, Zenon
<1> USE DEF Step
<1>7. fold[0] = 0 /\ \A n \in 1 .. Len(digits) : fold[n] = OneDigit(fold[n - 1], digits[n])
  <2> HIDE DEF OneDigit
  <2>1. \A n \in 0 .. Len(digits) : fold[n] = Step(fold)[n]
    BY <1>6
  <2> HIDE DEF fold
  <2> QED BY <1>3, <2>1
<1> HIDE DEF Step, fold, OneDigit
<1>8. \A n \in 0 .. Len(digits) : fold[n] = f[n]
  <2> DEFINE N == {n \in Nat : n <= Len(digits) => fold[n] = f[n]}
  <2>1. 0 \in N
    BY <1>2, <1>7 DEF Folds
  <2>2. ASSUME NEW n \in Nat, n \in N PROVE n + 1 \in N
    <3> SUFFICES ASSUME n + 1 <= Len(digits) PROVE fold[n + 1] = f[n + 1]
      OBVIOUS
    <3>1. fold[n] = f[n] /\ n + 1 \in 1 .. Len(digits) /\ n + 1 - 1 = n
      BY <2>2
    <3>2. f[n + 1] = Shift[<<f[n], digits[n + 1]>>]
      BY <3>1, <1>2 DEF Folds
    <3>3. fold[n + 1] = OneDigit(fold[n], digits[n + 1])
      BY <3>1, <1>7
    <3>4. OneDigit(f[n], digits[n + 1]) = Shift[<<f[n], digits[n + 1]>>]
      BY <3>1, <1>4
    <3> QED BY <3>1, <3>2, <3>3, <3>4
  <2> HIDE DEF N
  <2>3. Nat \subseteq N
    BY <2>1, <2>2, SetInduction
  <2> QED BY <2>3 DEF N
<1>9. Len(digits) \in Nat /\ fold[Len(digits)] = Value(digits, HexBase) /\ Value(digits, HexBase) \in Nat
  <2>1. Len(digits) \in 0 .. Len(digits)
    OBVIOUS
  <2> QED BY <1>2, <1>8, <2>1
<1>10. WordMod \in Nat
  BY Words
<1> QED BY <1>1, <1>9, <1>10

-----------------------------------------------------------------------------
(* What is loaded. *)

(* Its image is what it says. *)
LEMMA ImageIsMeaning ==
  ASSUME NEW f, f.exists, Readable(f)
  PROVE  ImageOf(f) = Meaning(f)
<1>1. CASE f.suffix = "hex"
  <2>1. DetectedType(f) = "HEXTXT"
    BY <1>1 DEF DetectedType
  <2>2. \A i \in 1 .. Len(f.lines) : LineText(f, i) = f.lines[i]
    BY <1>1 DEF Readable, LineText
  <2>3. \A i \in 1 .. Len(f.lines) :
          BytesOf(strtol(LineText(f, i), BaseOf("HEXTXT"))) = BytesOf(Value(f.lines[i], HexBase))
    <3> TAKE i \in 1 .. Len(f.lines)
    <3>1. f.lines[i] \in Seq(Numeral)
      BY <1>1 DEF Readable
    <3>2. strtol(f.lines[i], HexBase) = Value(f.lines[i], HexBase)
      BY <1>1, <3>1, StrtolReads DEF Readable
    <3> QED BY <2>2, <3>2 DEF BaseOf
  <2>4. DOMAIN f.lines = 1 .. Len(f.lines)
    BY <1>1 DEF Readable
  <2> DEFINE read == [i \in 1 .. Len(f.lines) |-> BytesOf(strtol(LineText(f, i), BaseOf("HEXTXT")))]
             meant == [i \in DOMAIN f.lines |-> BytesOf(Value(f.lines[i], HexBase))]
  <2>5. read = meant
    BY <2>3, <2>4
  <2>6. ImageOf(f) = FlattenSeq(read)
    BY <2>1 DEF ImageOf, TextImage
  <2>7. Meaning(f) = FlattenSeq(meant)
    BY <1>1 DEF Meaning
  <2> QED BY <2>5, <2>6, <2>7
<1>2. CASE f.suffix # "hex"
  <2>1. f.suffix # "txt"
    BY DEF Readable
  <2> QED BY <1>2, <2>1 DEF ImageOf, DetectedType, Meaning
<1> QED BY <1>1, <1>2

(* Loading it at the start of a memory of zeros. *)
LEMMA LoadsIt ==
  ASSUME NEW f, Readable(f), NEW contents \in Contents(f),
         NEW m, m = rv_simulator_init_monolithic_memory(memory_size),
         NEW loaded, loaded = load_memory_from_file(m, f, contents, 0)
  PROVE  LET fits == f.exists /\ Len(Meaning(f)) <= memory_size
         IN  /\ loaded.result = (IF ~ f.exists THEN -1 ELSE IF ~ fits THEN -2 ELSE Len(Meaning(f)))
             /\ \A a \in 0 .. memory_size - 1 :
                  loaded.mem.data[a] = IF fits /\ a < Len(Meaning(f)) THEN Meaning(f)[a + 1] ELSE 0
<1>1. /\ m.type = "MONOLITHIC" /\ m.size = memory_size
      /\ m.data = [a \in 0 .. memory_size - 1 |-> 0]
  BY DEF rv_simulator_init_monolithic_memory
<1>2. CASE ~ f.exists
  BY <1>1, <1>2 DEF load_memory_from_file
<1>3. CASE f.exists
  <2> DEFINE data == Meaning(f)
             step == monolithic_load(m, data, 0)
  <2>1. contents = data
    <3>1. ~ Overruns(f)
      <4>1. CASE f.suffix = "hex"
        BY <1>3, <4>1 DEF Readable
      <4>2. CASE f.suffix # "hex"
        BY <1>3, <4>2 DEF Readable, Overruns, DetectedType
      <4> QED BY <4>1, <4>2
    <3>2. contents = ImageOf(f)
      BY <1>3, <3>1 DEF Contents
    <3> QED BY <1>3, <3>2, ImageIsMeaning
  <2>2. loaded = [mem |-> step.mem, result |-> IF step.failed THEN -2 ELSE Len(data)]
    BY <1>1, <1>3, <2>1 DEF load_memory_from_file, load_memory
  <2>3. Len(data) \in Nat /\ WordMod \in Nat /\ WordMod > 0 /\ Len(data) < WordMod /\ memory_size \in Int
    BY <1>3, Words, MachineAssumption DEF Readable
  <2> HIDE DEF data
  <2>4. Plus(0, Len(data)) = Len(data)
    <3>1. \A w \in Nat \ {0} : \A n \in 0 .. w - 1 : (0 + n) % w = n
      OBVIOUS
    <3>2. WordMod \in Nat \ {0} /\ Len(data) \in 0 .. WordMod - 1
      BY <2>3
    <3> HIDE DEF WordMod
    <3> QED BY <3>1, <3>2 DEF Plus
  <2>5. CASE Len(data) > memory_size
    BY <1>1, <1>3, <2>2, <2>3, <2>4, <2>5 DEF monolithic_load, data
  <2>6. CASE ~ (Len(data) > memory_size)
    <3>1. step.failed = FALSE /\ step.mem.data =
            [a \in 0 .. memory_size - 1 |-> IF a \in 0 .. 0 + Len(data) - 1 THEN data[a - 0 + 1] ELSE 0]
      <4>1. m = [type |-> "MONOLITHIC", size |-> memory_size, data |-> [a \in 0 .. memory_size - 1 |-> 0]]
        BY DEF rv_simulator_init_monolithic_memory
      <4>2. ~ (Plus(0, Len(data)) > m.size)
        BY <1>1, <2>4, <2>6
      <4> DEFINE new == [a \in DOMAIN m.data |-> IF a \in 0 .. 0 + Len(data) - 1 THEN data[a - 0 + 1] ELSE m.data[a]]
      <4>3. step = [mem |-> [m EXCEPT !.data = new], failed |-> FALSE]
        BY <4>2 DEF monolithic_load
      <4>4. DOMAIN m.data = 0 .. memory_size - 1 /\ \A a \in 0 .. memory_size - 1 : m.data[a] = 0
        BY <1>1
      <4>5. new = [a \in 0 .. memory_size - 1 |-> IF a \in 0 .. 0 + Len(data) - 1 THEN data[a - 0 + 1] ELSE 0]
        BY <4>4
      <4> HIDE DEF new, step
      <4>6. [m EXCEPT !.data = new].data = new
        BY <4>1
      <4> QED BY <4>3, <4>5, <4>6
    <3>2. ASSUME NEW a \in 0 .. memory_size - 1
          PROVE  step.mem.data[a] = IF a < Len(data) THEN data[a + 1] ELSE 0
      BY <2>3, <3>1
    <3> HIDE DEF step
    <3>3. loaded.mem = step.mem /\ loaded.result = Len(data)
      BY <2>2, <3>1
    <3> QED BY <1>3, <2>3, <2>6, <3>2, <3>3 DEF data
  <2> QED BY <2>5, <2>6
<1> QED BY <1>2, <1>3

(* The memory a program is loaded into is empty, and what is loaded stays. *)
LoadInv ==
  /\ phase = "load" => mem = rv_simulator_init_monolithic_memory(memory_size)
  /\ LoadsWhatFileSays

(* Only Load touches what it left. *)
LEMMA LoadStep ==
  ASSUME file \in Files, LoadInv, [Next \/ Terminated]_vars
  PROVE  LoadInv'
<1>1. ASSUME file' = file
      PROVE  /\ Meaning(file)' = Meaning(file)
             /\ Readable(file)' = Readable(file)
  <2>1. Meaning(file)' = Meaning(file)
    BY <1>1 DEF Meaning, Value, Accumulate
  <2>2. Overruns(file)' = Overruns(file)
    BY <1>1 DEF Overruns, DetectedType, TextImage, LineText, strtol, BaseOf, BufferSize, FileSize, Accumulate
  <2> QED BY <1>1, <2>1, <2>2 DEF Readable, Value, Accumulate
<1>2. CASE Setup
  <2>1. UNCHANGED <<file, image, numloaded>> /\ phase' = "load"
    BY <1>2 DEF Setup, history
  <2>2. mem' = rv_simulator_init_monolithic_memory(memory_size)
    BY <1>2 DEF Setup
  <2> QED BY <1>1, <2>1, <2>2 DEF LoadInv, LoadsWhatFileSays, LoadedAsMeant, rv_simulator_init_monolithic_memory
<1>3. CASE Load
  <2>1. PICK contents \in Contents(file) :
          LET loaded == load_memory_from_file(mem, file, contents, 0)
          IN  image' = loaded.mem /\ numloaded' = loaded.result
    BY <1>3 DEF Load
  <2> DEFINE loaded == load_memory_from_file(mem, file, contents, 0)
  <2>2. /\ phase = "load" /\ phase' = "loop" /\ file' = file
        /\ image' = loaded.mem /\ numloaded' = loaded.result
    BY <1>3, <2>1 DEF Load
  <2>3. mem = rv_simulator_init_monolithic_memory(memory_size)
    BY <2>2 DEF LoadInv
  <2> HIDE DEF loaded
  <2>4. ASSUME Readable(file)
        PROVE  LoadedAsMeant'
    <3>1. LET fits == file.exists /\ Len(Meaning(file)) <= memory_size
          IN  /\ loaded.result = (IF ~ file.exists THEN -1 ELSE IF ~ fits THEN -2 ELSE Len(Meaning(file)))
              /\ \A a \in 0 .. memory_size - 1 :
                   loaded.mem.data[a] = IF fits /\ a < Len(Meaning(file)) THEN Meaning(file)[a + 1] ELSE 0
      BY <2>3, <2>4, LoadsIt DEF loaded
    <3> QED BY <1>1, <2>2, <3>1 DEF LoadedAsMeant
  <2> QED BY <1>1, <2>2, <2>4 DEF LoadInv, LoadsWhatFileSays
<1>4. CASE ~ Setup /\ ~ Load
  <2>1. UNCHANGED <<file, image, numloaded>>
    BY <1>4, ExecuteFrame
    DEF Next, Main, Terminated, vars, LoadCrashes, StartStep, MakeAccess, TraceAccess, EndStep, FinishAccess,
        CloseTrace, DumpSim, PromptContinues, PromptDumps, Key, Interrupt, history
  <2>2. phase' = "load" => phase = "load" /\ mem' = mem
    BY <1>4, ExecuteFrame
    DEF Next, Main, Terminated, vars, LoadCrashes, StartStep, MakeAccess, TraceAccess, EndStep, FinishAccess,
        CloseTrace, DumpSim, DumpStep, DumpPhases, Dumping, PromptContinues, PromptDumps, Key, Interrupt
  <2> QED BY <1>1, <2>1, <2>2 DEF LoadInv, LoadsWhatFileSays, LoadedAsMeant
<1> QED BY <1>2, <1>3, <1>4

\* rv_simulator_load_memory_from_file (rv32i_simulator.c:581): a readable file,
\* of whatever length, for every size of the memory, has its bytes in memory
\* from the first one on with zeros behind them, or nothing is there and the
\* result says why.
THEOREM LoadsFile == Spec => []LoadsWhatFileSays
<1>1. Init => LoadInv /\ file \in Files
  BY DEF Init, LoadInv, LoadsWhatFileSays, NoMemory
<1>2. LoadInv => LoadsWhatFileSays
  BY DEF LoadInv
<1>3. file \in Files /\ LoadInv /\ [Next \/ Terminated]_vars => LoadInv'
  BY LoadStep
<1> QED BY <1>1, <1>2, <1>3, CliInvariant, PTL DEF Spec

\* The trace written by read_byte_fn and write_byte_fn (sim_cli.c:54) explains
\* the memory after every access of every program, however long.
THEOREM TraceExplains == Spec => []TraceExplainsMemory
<1>1. Init => Traced
  BY DEF Init, Traced, NoMemory, Before
<1>2. Traced => TraceExplainsMemory
  BY DEF Traced, TraceExplainsMemory
<1>3. CliInv /\ CliInv' /\ file \in Files /\ Traced /\ [Next \/ Terminated]_vars => Traced'
  BY TracedStep
<1> QED BY <1>1, <1>2, <1>3, CliInvariant, PTL DEF Spec
==============================================================================
