--------------------------- MODULE InterpreterProofs ---------------------------
(***************************************************************************)
(* What the interpreter may rely on when the code fits its maps of the     *)
(* stack (Verified), whatever the code, the scripts, the objects and the   *)
(* depth of the calls: the frames lie on each other as high as the maps    *)
(* say.  The argument is that of a bytecode verifier, for programs in      *)
(* SurgeScript, functions in C that call them, and run-time errors.        *)
(***************************************************************************)
EXTENDS Interpreter, SequenceTheorems, TLAPS

------------------------------ (* sequences *) ---------------------------------
(* Sequences of anything.                                                  *)
IsSeq(s) == \E S : s \in Seq(S)

(* One more element.                                                       *)
LEMMA AppendIsSeq ==
  ASSUME NEW s, NEW e, IsSeq(s)
  PROVE  /\ IsSeq(Append(s, e)) /\ Len(Append(s, e)) = Len(s) + 1 /\ Len(s) \in Nat
         /\ \A i \in 1..Len(s) : Append(s, e)[i] = s[i]
         /\ Append(s, e)[Len(s) + 1] = e
<1>1. PICK S : s \in Seq(S)
  BY DEF IsSeq
<1>2. s \in Seq(S \cup {e}) /\ e \in S \cup {e}
  BY <1>1
<1>3. Append(s, e) \in Seq(S \cup {e})
  BY <1>2
<1> QED BY <1>2, <1>3, AppendProperties DEF IsSeq

(* The beginning of a sequence.                                            *)
LEMMA SubSeqIsSeq ==
  ASSUME NEW s, IsSeq(s), NEW k \in 0..Len(s)
  PROVE  /\ IsSeq(SubSeq(s, 1, k)) /\ Len(SubSeq(s, 1, k)) = k
         /\ \A i \in 1..k : SubSeq(s, 1, k)[i] = s[i]
<1>1. PICK S : s \in Seq(S)
  BY DEF IsSeq
<1>2. Len(s) \in Nat /\ \A i \in 1..k : s[i] \in S
  BY <1>1
<1>3. SubSeq(s, 1, k) \in Seq(S) /\ Len(SubSeq(s, 1, k)) = k
  BY <1>1, <1>2
<1>4. \A i \in 1..k : SubSeq(s, 1, k)[i] = s[i]
  BY <1>1, <1>2
<1> QED BY <1>3, <1>4 DEF IsSeq

(* One element is replaced.                                                *)
LEMMA ExceptIsSeq ==
  ASSUME NEW s, IsSeq(s), NEW i \in 1..Len(s), NEW e
  PROVE  /\ IsSeq([s EXCEPT ![i] = e]) /\ Len([s EXCEPT ![i] = e]) = Len(s)
         /\ \A j \in 1..Len(s) : [s EXCEPT ![i] = e][j] = IF j = i THEN e ELSE s[j]
<1>1. PICK S : s \in Seq(S)
  BY DEF IsSeq
<1>2. s \in Seq(S \cup {e}) /\ e \in S \cup {e} /\ i \in 1..Len(s)
  BY <1>1
<1>3. /\ [s EXCEPT ![i] = e] \in Seq(S \cup {e}) /\ Len([s EXCEPT ![i] = e]) = Len(s)
  BY <1>2, ExceptSeq
<1>4. \A j \in 1..Len(s) : [s EXCEPT ![i] = e][j] = IF j = i THEN e ELSE s[j]
  BY <1>1
<1> QED BY <1>3, <1>4 DEF IsSeq

(* The same element, several times.                                        *)
LEMMA ConcatIsSeq ==
  ASSUME NEW s, NEW n \in Nat, NEW e, IsSeq(s)
  PROVE  LET u == s \o [i \in 1..n |-> e]
         IN  /\ IsSeq(u) /\ Len(u) = Len(s) + n /\ \A i \in 1..Len(s) : u[i] = s[i]
<1>1. PICK S : s \in Seq(S)
  BY DEF IsSeq
<1>2. s \in Seq(S \cup {e}) /\ [i \in 1..n |-> e] \in Seq(S \cup {e}) /\ Len([i \in 1..n |-> e]) = n
  BY <1>1
<1> QED BY <1>2, ConcatProperties DEF IsSeq

------------------------------ (* the invariant *) -----------------------------
(* The cells that a call has in use above its base pointer, by the map of  *)
(* its program, and the arguments that it finds below.                     *)
Used(p, f) == IF f.key = << >> THEN 1 ELSE StackMap(p[f.key])[f.ip]
Arity(p, f) == IF f.key = << >> THEN 0 ELSE p[f.key].arity

(* A program that fits its map once its jumps are lines.                   *)
Ready(program) ==
  /\ DOMAIN program = DOMAIN Native
  /\ Fits(remove_labels(program), StackMap(remove_labels(program)))
PoolReady(p) == \A key \in DOMAIN p : Ready(p[key])

(* A program that is called has lines, and is at one that its map knows.   *)
FrameOK(p, f) ==
  /\ {"key", "ip"} \subseteq DOMAIN f
  /\ f.key # << >> =>
       /\ f.key \in DOMAIN p /\ p[f.key].label = << >>
       /\ f.ip \in DOMAIN StackMap(p[f.key])

(* b[j] is the base pointer of the j-th call: the frames lie on each other *)
(* without a gap, and each saves the base pointer of the one below.        *)
Ascending(b, n) == \A i, j \in 1..n : i < j => b[i] < b[j]
Link(p, fs, st, b, j) ==
  /\ b[j] = b[j - 1] + Used(p, fs[j - 1]) + 1
  /\ Arity(p, fs[j]) <= Used(p, fs[j - 1])
  /\ st.data[b[j] + 1] = Raw(b[j - 1])
Chain(p, fs, st, b) ==
  /\ b \in [1..Len(fs) -> Nat] /\ b[1] = 0
  /\ st.bp = b[Len(fs)]
  /\ Len(st.data) = b[Len(fs)] + Used(p, fs[Len(fs)]) + 1
  /\ Ascending(b, Len(fs))
  /\ \A j \in 2..Len(fs) : Link(p, fs, st, b, j)

IsStack(st) == DOMAIN st = {"data", "bp"} /\ IsSeq(st.data)

(* Calls are in progress, the outermost by the host.                       *)
InCalls(p, fs, st) ==
  /\ IsSeq(fs) /\ fs # << >> /\ IsStack(st)
  /\ fs[1].key = << >>
  /\ \A j \in 1..Len(fs) : FrameOK(p, fs[j])
  /\ \E b : Chain(p, fs, st, b)

(* The host has called nothing: the stack is as high as it was created.    *)
Idle(fs, st) == IsStack(st) /\ fs = << >> /\ st.bp = 0 /\ Len(st.data) = 1

(* The invariant, with all programs ready from the compilation on.         *)
StackInv ==
  /\ script \in DOMAIN Scripts
  /\ Idle(frames, stack) \/ InCalls(pool, frames, stack)
  /\ status \in {"source", "rejected"} => frames = << >>
  /\ status \notin {"source", "rejected"} => PoolReady(pool)

------------------------------ (* the programs *) ------------------------------
(* The jumps of a program are given lines once: then it stays as it is.    *)
LEMMA Resolved ==
  ASSUME NEW p, Ready(p)
  PROVE  /\ Ready(remove_labels(p))
         /\ remove_labels(p).label = << >> /\ remove_labels(p).arity = p.arity
         /\ p.label = << >> => remove_labels(p) = p
         /\ Fits(remove_labels(p), StackMap(remove_labels(p)))
<1> DEFINE r == remove_labels(p)
<1>1. Fits(r, StackMap(r)) /\ r.label = << >>
  BY DEF Ready, Fits
<1>2. DOMAIN r = DOMAIN p /\ r.arity = p.arity
  <2>1. "arity" \in DOMAIN p
    BY DEF Ready, Native
  <2> QED BY <2>1 DEF remove_labels
<1>3. remove_labels(r) = r
  BY <1>1 DEF remove_labels
<1>4. p.label = << >> => r = p
  BY DEF remove_labels
<1> QED BY <1>1, <1>2, <1>3, <1>4 DEF Ready

(* A program that is called fits its map.                                  *)
LEMMA RunningFits ==
  ASSUME NEW p, PoolReady(p), NEW f, FrameOK(p, f), f.key # << >>
  PROVE  /\ Fits(p[f.key], StackMap(p[f.key]))
         /\ p[f.key].arity \in Nat
         /\ StackMap(p[f.key])[f.ip] \in Nat
<1>1. Ready(p[f.key]) /\ p[f.key].label = << >> /\ f.ip \in DOMAIN StackMap(p[f.key])
  BY DEF PoolReady, FrameOK
<1>2. Fits(p[f.key], StackMap(p[f.key]))
  BY <1>1, Resolved
<1> QED BY <1>1, <1>2 DEF Fits

(* Heights and arities are numbers.                                        *)
LEMMA UsedInNat ==
  ASSUME NEW p, PoolReady(p), NEW f, FrameOK(p, f)
  PROVE  Used(p, f) \in Nat /\ Arity(p, f) \in Nat
BY RunningFits DEF Used, Arity

(* There is a call in progress.                                            *)
LEMMA InnerFrame ==
  ASSUME NEW p, NEW fs, NEW st, InCalls(p, fs, st)
  PROVE  Len(fs) \in Nat /\ Len(fs) >= 1 /\ Last(fs) = fs[Len(fs)] /\ FrameOK(p, Last(fs))
<1>1. PICK S : fs \in Seq(S)
  BY DEF InCalls, IsSeq
<1>2. Len(fs) \in Nat /\ Len(fs) >= 1
  BY <1>1, EmptySeq DEF InCalls
<1> QED BY <1>2 DEF InCalls, Last

------------------------ (* the frames on the stack *) -------------------------
(* The innermost call goes on: what is below its base pointer stays, but   *)
(* for its arguments.                                                      *)
KeepsBelow(st, u, arity) ==
  \A i \in 1..st.bp + 1 : (i <= st.bp - arity \/ i = st.bp + 1) => u.data[i] = st.data[i]

LEMMA Advance ==
  ASSUME NEW p, NEW fs, NEW st, NEW g, NEW u, PoolReady(p), InCalls(p, fs, st),
         FrameOK(p, g), g.key = Last(fs).key,
         IsStack(u), u.bp = st.bp, Len(u.data) = u.bp + Used(p, g) + 1,
         KeepsBelow(st, u, Arity(p, Last(fs)))
  PROVE  InCalls(p, [fs EXCEPT ![Len(fs)] = g], u)
<1> DEFINE n == Len(fs)
           hs == [fs EXCEPT ![n] = g]
<1>1. n \in Nat /\ n >= 1 /\ Last(fs) = fs[n] /\ n \in 1..n /\ n # 0
  BY InnerFrame
<1>2. /\ IsSeq(hs) /\ Len(hs) = n /\ hs # << >>
      /\ \A j \in 1..n : hs[j] = IF j = n THEN g ELSE fs[j]
  BY <1>1, ExceptIsSeq, EmptySeq DEF InCalls
<1>3. hs[1].key = << >>
  BY <1>1, <1>2 DEF InCalls
<1>4. \A j \in 1..n : FrameOK(p, hs[j])
  BY <1>2 DEF InCalls
<1>5. PICK b : Chain(p, fs, st, b)
  BY DEF InCalls
<1>6. Arity(p, g) = Arity(p, fs[n])
  BY <1>1 DEF Arity
<1>7. ASSUME NEW j \in 2..n
      PROVE  Link(p, hs, u, b, j)
  <2>1. j \in 1..n /\ j - 1 \in 1..n /\ j - 1 # n /\ j \in Nat
    BY <1>1
  <2>2. Link(p, fs, st, b, j) /\ b[j] \in Nat /\ b[j - 1] \in Nat
    BY <1>5, <2>1 DEF Chain
  <2>3. hs[j - 1] = fs[j - 1] /\ Arity(p, hs[j]) = Arity(p, fs[j])
    BY <1>2, <1>6, <2>1
  <2>4. u.data[b[j] + 1] = st.data[b[j] + 1]
    <3>1. st.bp = b[n] /\ b[n] \in Nat
      BY <1>1, <1>5 DEF Chain
    <3>2. CASE j = n
      BY <3>1, <3>2, <2>2 DEF KeepsBelow
    <3>3. CASE j < n
      <4>1. n - 1 \in 1..n /\ n \in 2..n /\ n \in 1..n
        BY <1>1, <2>1, <3>3
      <4>2. Link(p, fs, st, b, n) /\ b[n - 1] \in Nat
        BY <1>5, <4>1 DEF Chain
      <4>3. Used(p, fs[n - 1]) \in Nat /\ Arity(p, fs[n]) \in Nat
        BY <4>1, UsedInNat DEF InCalls
      <4>4. b[n - 1] + 1 <= b[n] - Arity(p, fs[n])
        BY <4>2, <4>3, <3>1 DEF Link
      <4>5. b[j] <= b[n - 1]
        <5>1. CASE j = n - 1
          BY <5>1, <4>2
        <5>2. CASE j < n - 1
          BY <5>2, <4>1, <2>1, <2>2, <4>2, <1>5 DEF Chain, Ascending
        <5> QED BY <5>1, <5>2, <3>3, <1>1, <2>1
      <4>6. b[j] + 1 <= b[n] - Arity(p, fs[n])
        <5> HIDE DEF n
        <5> QED BY <4>3, <4>4, <4>5, <3>1, <2>2, <4>2
      <4>7. b[j] + 1 \in 1..st.bp + 1 /\ b[j] + 1 <= st.bp - Arity(p, Last(fs))
        BY <4>3, <4>6, <3>1, <2>2, <1>1
      <4> QED BY <4>7 DEF KeepsBelow
    <3> QED BY <3>2, <3>3, <1>1, <2>1
  <2> QED BY <2>2, <2>3, <2>4 DEF Link
<1> HIDE DEF hs
<1>8. Chain(p, hs, u, b)
  <2>1. hs[n] = g /\ st.bp = b[n]
    BY <1>1, <1>2, <1>5 DEF Chain
  <2>2. \A j \in 2..Len(hs) : Link(p, hs, u, b, j)
    BY <1>2, <1>7
  <2> QED BY <2>1, <2>2, <1>2, <1>5 DEF Chain
<1>9. InCalls(p, hs, u)
  BY <1>2, <1>3, <1>4, <1>8 DEF InCalls
<1> QED BY <1>9 DEF hs

(* The program that is called next gets its lines; those that run have     *)
(* theirs.                                                                 *)
LEMMA Prepare ==
  ASSUME NEW p, NEW key \in DOMAIN p, PoolReady(p)
  PROVE  LET q == [p EXCEPT ![key] = remove_labels(@)]
         IN  /\ PoolReady(q)
             /\ q[key].label = << >> /\ q[key].arity = p[key].arity
             /\ \A fs, st : InCalls(p, fs, st) => InCalls(q, fs, st)
             /\ \A f : FrameOK(p, f) => FrameOK(q, f) /\ Used(q, f) = Used(p, f)
<1> DEFINE q == [p EXCEPT ![key] = remove_labels(@)]
<1>1. DOMAIN q = DOMAIN p /\ \A k \in DOMAIN p : q[k] = IF k = key THEN remove_labels(p[key]) ELSE p[k]
  OBVIOUS
<1>2. Ready(p[key])
  BY DEF PoolReady
<1>3. /\ Ready(remove_labels(p[key])) /\ remove_labels(p[key]).label = << >>
      /\ remove_labels(p[key]).arity = p[key].arity
      /\ p[key].label = << >> => remove_labels(p[key]) = p[key]
  BY <1>2, Resolved, Zenon
<1> HIDE DEF q
<1>4. PoolReady(q)
  BY <1>1, <1>3 DEF PoolReady
<1>5. \A k \in DOMAIN p : p[k].label = << >> => q[k] = p[k]
  BY <1>1, <1>3
<1>6. ASSUME NEW f, FrameOK(p, f)
      PROVE  FrameOK(q, f) /\ Used(q, f) = Used(p, f) /\ Arity(q, f) = Arity(p, f)
  BY <1>1, <1>5, <1>6 DEF FrameOK, Used, Arity
<1>7. ASSUME NEW fs, NEW st, InCalls(p, fs, st)
      PROVE  InCalls(q, fs, st)
  <2>1. Len(fs) \in Nat /\ Len(fs) >= 1
    BY <1>7, InnerFrame
  <2>2. \A j \in 1..Len(fs) :
          FrameOK(q, fs[j]) /\ Used(q, fs[j]) = Used(p, fs[j]) /\ Arity(q, fs[j]) = Arity(p, fs[j])
    BY <1>6, <1>7 DEF InCalls
  <2>3. PICK b : Chain(p, fs, st, b)
    BY <1>7 DEF InCalls
  <2>4. \A j \in 2..Len(fs) : Link(q, fs, st, b, j)
    <3> SUFFICES ASSUME NEW j \in 2..Len(fs) PROVE Link(q, fs, st, b, j)
      OBVIOUS
    <3>1. j \in 1..Len(fs) /\ j - 1 \in 1..Len(fs)
      BY <2>1
    <3>2. Link(p, fs, st, b, j)
      BY <2>3 DEF Chain
    <3> QED BY <3>1, <3>2, <2>2 DEF Link
  <2>5. Used(q, fs[Len(fs)]) = Used(p, fs[Len(fs)])
    BY <2>1, <2>2
  <2>6. Chain(q, fs, st, b)
    BY <2>3, <2>4, <2>5 DEF Chain
  <2> QED BY <1>7, <2>2, <2>6 DEF InCalls
<1>8. q[key].label = << >> /\ q[key].arity = p[key].arity
  BY <1>1, <1>3
<1> QED BY <1>4, <1>6, <1>7, <1>8 DEF q

(* A call begins above what its caller has in use, and saves the base      *)
(* pointer.                                                                *)
LEMMA Enter ==
  ASSUME NEW p, NEW fs, NEW st, NEW g, NEW u, PoolReady(p), InCalls(p, fs, st),
         FrameOK(p, g), Arity(p, g) <= Used(p, Last(fs)),
         IsStack(u), u.bp = Len(st.data), Len(u.data) = u.bp + Used(p, g) + 1,
         u.data[u.bp + 1] = Raw(st.bp),
         \A i \in 1..Len(st.data) : u.data[i] = st.data[i]
  PROVE  InCalls(p, Append(fs, g), u)
<1> DEFINE n == Len(fs)
           hs == Append(fs, g)
<1>1. n \in Nat /\ n >= 1 /\ Last(fs) = fs[n] /\ n \in 1..n /\ n # 0
  BY InnerFrame
<1>2. /\ IsSeq(hs) /\ Len(hs) = n + 1 /\ hs[n + 1] = g
      /\ \A j \in 1..n : hs[j] = fs[j]
  BY AppendIsSeq DEF InCalls
<1>3. hs # << >>
  BY <1>1, <1>2, EmptySeq
<1>4. hs[1].key = << >> /\ \A j \in 1..n + 1 : FrameOK(p, hs[j])
  BY <1>1, <1>2 DEF InCalls
<1>5. PICK b : Chain(p, fs, st, b)
  BY DEF InCalls
<1> DEFINE c == [j \in 1..n + 1 |-> IF j = n + 1 THEN u.bp ELSE b[j]]
<1>6. /\ st.bp = b[n] /\ b[n] \in Nat /\ Used(p, fs[n]) \in Nat
      /\ u.bp = b[n] + Used(p, fs[n]) + 1 /\ Len(st.data) = u.bp /\ u.bp \in Nat
  <2>1. Used(p, fs[n]) \in Nat
    BY <1>1, UsedInNat DEF InCalls
  <2>2. st.bp = b[n] /\ b[n] \in Nat /\ Len(st.data) = b[n] + Used(p, fs[n]) + 1
    BY <1>1, <1>5 DEF Chain
  <2> QED BY <2>1, <2>2
<1>7. \A j \in 1..n : b[j] \in Nat /\ b[j] <= b[n] /\ c[j] = b[j]
  <2> SUFFICES ASSUME NEW j \in 1..n PROVE b[j] \in Nat /\ b[j] <= b[n] /\ c[j] = b[j]
    OBVIOUS
  <2>1. b[j] \in Nat /\ c[j] = b[j]
    BY <1>1, <1>5 DEF Chain
  <2>2. j = n \/ j < n
    BY <1>1
  <2>3. j < n => b[j] < b[n]
    BY <1>1, <1>5 DEF Chain, Ascending
  <2>4. b[j] <= b[n]
    <3> HIDE DEF n, c
    <3> QED BY <2>1, <2>2, <2>3, <1>6
  <2> QED BY <2>1, <2>4
<1>8. c[n + 1] = u.bp /\ c \in [1..n + 1 -> Nat] /\ c[1] = 0
  BY <1>1, <1>5, <1>6, <1>7 DEF Chain
<1>9. Ascending(c, n + 1)
  <2> SUFFICES ASSUME NEW i \in 1..n + 1, NEW j \in 1..n + 1, i < j PROVE c[i] < c[j]
    BY DEF Ascending
  <2>0. i \in 1..n
    BY <1>1
  <2>1. c[i] = b[i] /\ b[i] <= b[n] /\ b[i] \in Nat
    BY <2>0, <1>7
  <2>2. CASE j = n + 1
    BY <2>1, <2>2, <1>6, <1>8
  <2>3. CASE j # n + 1
    <3>1. j \in 1..n
      BY <1>1, <2>3
    <3>2. c[j] = b[j] /\ b[i] < b[j]
      BY <3>1, <2>0, <1>5, <1>7 DEF Chain, Ascending
    <3> QED BY <3>2, <2>1
  <2> QED BY <2>2, <2>3
<1> HIDE DEF c, hs
<1>10. ASSUME NEW j \in 2..n + 1
       PROVE  Link(p, hs, u, c, j)
  <2>1. j - 1 \in 1..n /\ hs[j - 1] = fs[j - 1] /\ c[j - 1] = b[j - 1]
    BY <1>1, <1>2, <1>7
  <2>2. CASE j = n + 1
    <3>1. hs[j] = g /\ c[j] = u.bp /\ fs[j - 1] = fs[n] /\ b[j - 1] = b[n]
      BY <2>2, <1>1, <1>2, <1>8
    <3> QED BY <3>1, <2>1, <1>1, <1>6 DEF Link
  <2>3. CASE j # n + 1
    <3>1. j \in 1..n /\ j \in 2..n
      BY <2>3, <1>1
    <3>2. hs[j] = fs[j] /\ c[j] = b[j] /\ b[j] \in Nat /\ b[j] <= b[n]
      BY <3>1, <1>2, <1>7
    <3>3. Link(p, fs, st, b, j)
      BY <3>1, <1>5 DEF Chain
    <3>4. b[j] + 1 \in 1..Len(st.data)
      BY <3>2, <1>6
    <3> QED BY <3>2, <3>3, <3>4, <2>1 DEF Link
  <2> QED BY <2>2, <2>3
<1>11. Chain(p, hs, u, c)
  BY <1>1, <1>2, <1>8, <1>9, <1>10 DEF Chain
<1>12. InCalls(p, hs, u)
  BY <1>2, <1>3, <1>4, <1>11 DEF InCalls
<1> QED BY <1>12 DEF hs

(* A call ends: the base pointer that it saved is that of its caller.      *)
LEMMA Leave ==
  ASSUME NEW p, NEW fs, NEW st, NEW u, PoolReady(p), InCalls(p, fs, st), Len(fs) > 1,
         IsStack(u), Len(u.data) = st.bp, u.bp = st.data[st.bp + 1].v,
         \A i \in 1..st.bp : u.data[i] = st.data[i]
  PROVE  InCalls(p, Front(fs), u)
<1> DEFINE n == Len(fs)
           hs == Front(fs)
<1>1. n \in Nat /\ n > 1 /\ n - 1 \in 1..n /\ n - 1 \in 0..n /\ n \in 1..n /\ n \in 2..n
  BY InnerFrame
<1>2. IsSeq(hs) /\ Len(hs) = n - 1 /\ \A j \in 1..n - 1 : hs[j] = fs[j]
  BY <1>1, SubSeqIsSeq DEF InCalls, Front
<1>3. hs # << >>
  BY <1>1, <1>2, EmptySeq
<1>4. hs[1].key = << >> /\ \A j \in 1..n - 1 : FrameOK(p, hs[j])
  BY <1>1, <1>2 DEF InCalls
<1>5. PICK b : Chain(p, fs, st, b)
  BY DEF InCalls
<1> DEFINE c == [j \in 1..n - 1 |-> b[j]]
<1>6. \A j \in 1..n - 1 : c[j] = b[j] /\ b[j] \in Nat /\ b[j] < b[n]
  <2> SUFFICES ASSUME NEW j \in 1..n - 1
               PROVE  c[j] = b[j] /\ b[j] \in Nat /\ b[j] < b[n]
    OBVIOUS
  <2>1. c[j] = b[j]
    OBVIOUS
  <2>2. j \in 1..n /\ j < n
    BY <1>1
  <2>3. b[j] \in Nat
    BY <2>2, <1>5 DEF Chain
  <2>4. b[j] < b[n]
    BY <2>2, <1>1, <1>5 DEF Chain, Ascending
  <2> QED BY <2>1, <2>3, <2>4
<1>7. c \in [1..n - 1 -> Nat] /\ c[1] = 0
  BY <1>1, <1>5, <1>6 DEF Chain
<1>8. Ascending(c, n - 1)
  BY <1>1, <1>5, <1>6 DEF Chain, Ascending
<1>9. st.bp = b[n] /\ b[n] \in Nat /\ Link(p, fs, st, b, n)
  BY <1>1, <1>5 DEF Chain
<1> HIDE DEF c, hs
<1>10. u.bp = c[n - 1] /\ Len(u.data) = c[n - 1] + Used(p, hs[n - 1]) + 1
  <2>1. st.data[st.bp + 1] = Raw(b[n - 1])
    BY <1>9 DEF Link
  <2>2. u.bp = b[n - 1]
    BY <2>1 DEF Raw
  <2>3. n - 1 \in 1..n - 1
    BY <1>1
  <2> QED BY <2>2, <2>3, <1>2, <1>6, <1>9 DEF Link
<1>11. ASSUME NEW j \in 2..n - 1
       PROVE  Link(p, hs, u, c, j)
  <2>1. j \in 1..n - 1 /\ j - 1 \in 1..n - 1 /\ j \in 2..n
    BY <1>1
  <2>2. hs[j] = fs[j] /\ hs[j - 1] = fs[j - 1] /\ c[j] = b[j] /\ c[j - 1] = b[j - 1]
    BY <2>1, <1>2, <1>6
  <2>3. Link(p, fs, st, b, j) /\ b[j] \in Nat /\ b[j] < b[n]
    BY <2>1, <1>5, <1>6 DEF Chain
  <2>4. u.data[b[j] + 1] = st.data[b[j] + 1]
    <3>1. b[j] + 1 \in 1..st.bp
      <4> HIDE DEF n
      <4> QED BY <2>3, <1>9
    <3> QED BY <3>1
  <2> QED BY <2>2, <2>3, <2>4 DEF Link
<1>12. Chain(p, hs, u, c)
  BY <1>1, <1>2, <1>7, <1>8, <1>10, <1>11 DEF Chain
<1>13. InCalls(p, hs, u)
  BY <1>2, <1>3, <1>4, <1>12 DEF InCalls
<1> QED BY <1>13 DEF hs

------------------------ (* the operations of the stack *) ---------------------
(* push().                                                                 *)
LEMMA Pushed ==
  ASSUME NEW st, IsStack(st), NEW v
  PROVE  LET u == Stack!push(st, v)
         IN  /\ IsStack(u) /\ u.bp = st.bp /\ Len(u.data) = Len(st.data) + 1
             /\ \A i \in 1..Len(st.data) : u.data[i] = st.data[i]
<1>1. DOMAIN st = {"data", "bp"} /\ IsSeq(st.data)
  BY DEF IsStack
<1>2. Stack!push(st, v).data = Append(st.data, v) /\ Stack!push(st, v).bp = st.bp
  BY <1>1 DEF Stack!push
<1>3. DOMAIN Stack!push(st, v) = DOMAIN st
  BY DEF Stack!push
<1> QED BY <1>1, <1>2, <1>3, AppendIsSeq DEF IsStack

(* pushn().                                                                *)
LEMMA PushedMany ==
  ASSUME NEW st, IsStack(st), NEW n \in Nat
  PROVE  LET u == Stack!pushn(st, n)
         IN  /\ IsStack(u) /\ u.bp = st.bp /\ Len(u.data) = Len(st.data) + n
             /\ \A i \in 1..Len(st.data) : u.data[i] = st.data[i]
<1>1. DOMAIN st = {"data", "bp"} /\ IsSeq(st.data)
  BY DEF IsStack
<1>2. Stack!pushn(st, n).data = st.data \o [i \in 1..n |-> Null] /\ Stack!pushn(st, n).bp = st.bp
  BY <1>1 DEF Stack!pushn
<1>3. DOMAIN Stack!pushn(st, n) = DOMAIN st
  BY DEF Stack!pushn
<1> DEFINE d == st.data \o [i \in 1..n |-> Null]
<1>4. IsSeq(d) /\ Len(d) = Len(st.data) + n /\ \A i \in 1..Len(st.data) : d[i] = st.data[i]
  BY <1>1, ConcatIsSeq
<1>5. Stack!pushn(st, n).data = d
  BY <1>2
<1> HIDE DEF d
<1> QED BY <1>1, <1>2, <1>3, <1>4, <1>5 DEF IsStack

(* popn().                                                                 *)
LEMMA Popped ==
  ASSUME NEW st, IsStack(st), NEW n \in 0..Len(st.data)
  PROVE  LET u == Stack!popn(st, n)
         IN  /\ IsStack(u) /\ u.bp = st.bp /\ Len(u.data) = Len(st.data) - n
             /\ \A i \in 1..Len(st.data) - n : u.data[i] = st.data[i]
<1>1. DOMAIN st = {"data", "bp"} /\ IsSeq(st.data)
  BY DEF IsStack
<1>2. Len(st.data) \in Nat
  <2>1. PICK S : st.data \in Seq(S)
    BY <1>1 DEF IsSeq
  <2> QED BY <2>1
<1>3. Len(st.data) - n \in 0..Len(st.data)
  BY <1>2
<1>4. /\ Stack!popn(st, n).data = SubSeq(st.data, 1, Len(st.data) - n)
      /\ Stack!popn(st, n).bp = st.bp
  BY <1>1 DEF Stack!popn
<1>5. DOMAIN Stack!popn(st, n) = DOMAIN st
  BY DEF Stack!popn
<1> QED BY <1>1, <1>3, <1>4, <1>5, SubSeqIsSeq DEF IsStack

(* poke(), within the stack.                                               *)
LEMMA Poked ==
  ASSUME NEW st, IsStack(st), NEW offset, st.bp + offset + 1 \in 1..Len(st.data), NEW v
  PROVE  LET u == Stack!poke(st, offset, v)
         IN  /\ IsStack(u) /\ u.bp = st.bp /\ Len(u.data) = Len(st.data)
             /\ \A i \in 1..Len(st.data) : i # st.bp + offset + 1 => u.data[i] = st.data[i]
<1>1. DOMAIN st = {"data", "bp"} /\ IsSeq(st.data)
  BY DEF IsStack
<1>2. /\ Stack!poke(st, offset, v).data = [st.data EXCEPT ![st.bp + offset + 1] = v]
      /\ Stack!poke(st, offset, v).bp = st.bp
  BY <1>1 DEF Stack!poke
<1>3. DOMAIN Stack!poke(st, offset, v) = DOMAIN st
  BY DEF Stack!poke
<1> QED BY <1>1, <1>2, <1>3, ExceptIsSeq DEF IsStack

(* pushenv() saves the base pointer.                                       *)
LEMMA PushedEnv ==
  ASSUME NEW st, IsStack(st)
  PROVE  LET u == Stack!pushenv(st)
         IN  /\ IsStack(u) /\ u.bp = Len(st.data) /\ Len(u.data) = Len(st.data) + 1
             /\ u.data[Len(st.data) + 1] = Raw(st.bp)
             /\ \A i \in 1..Len(st.data) : u.data[i] = st.data[i]
<1>1. DOMAIN st = {"data", "bp"} /\ IsSeq(st.data)
  BY DEF IsStack
<1>2. /\ IsSeq(Append(st.data, Raw(st.bp))) /\ Len(Append(st.data, Raw(st.bp))) = Len(st.data) + 1
      /\ Len(st.data) \in Nat
      /\ \A i \in 1..Len(st.data) : Append(st.data, Raw(st.bp))[i] = st.data[i]
      /\ Append(st.data, Raw(st.bp))[Len(st.data) + 1] = Raw(st.bp)
  BY <1>1, AppendIsSeq
<1>3. Stack!pushenv(st).data = Append(st.data, Raw(st.bp)) /\ Stack!pushenv(st).bp = Len(st.data)
  BY <1>2 DEF Stack!pushenv, Stack!sp, SaveBase
<1>4. DOMAIN Stack!pushenv(st) = {"data", "bp"}
  BY DEF Stack!pushenv
<1> QED BY <1>2, <1>3, <1>4 DEF IsStack

(* popenv() restores it.                                                   *)
LEMMA PoppedEnv ==
  ASSUME NEW st, IsStack(st), st.bp \in 0..Len(st.data)
  PROVE  LET u == Stack!popenv(st)
         IN  /\ IsStack(u) /\ u.bp = st.data[st.bp + 1].v /\ Len(u.data) = st.bp
             /\ \A i \in 1..st.bp : u.data[i] = st.data[i]
<1>1. IsSeq(st.data)
  BY DEF IsStack
<1>2. /\ Stack!popenv(st).data = SubSeq(st.data, 1, st.bp)
      /\ Stack!popenv(st).bp = st.data[st.bp + 1].v /\ DOMAIN Stack!popenv(st) = {"data", "bp"}
  BY DEF Stack!popenv, BaseOf
<1> QED BY <1>1, <1>2, SubSeqIsSeq DEF IsStack

------------------------- (* the program that runs *) --------------------------
(* What the invariant says of the call in progress.                        *)
LEMMA InnerStack ==
  ASSUME NEW p, NEW fs, NEW st, PoolReady(p), InCalls(p, fs, st)
  PROVE  /\ st.bp \in Nat /\ Used(p, Last(fs)) \in Nat /\ Arity(p, Last(fs)) \in Nat
         /\ Len(st.data) = st.bp + Used(p, Last(fs)) + 1
         /\ Arity(p, Last(fs)) <= st.bp
         /\ Len(fs) > 1 => st.bp > 0
<1> DEFINE n == Len(fs)
<1>1. n \in Nat /\ n >= 1 /\ Last(fs) = fs[n] /\ n \in 1..n /\ FrameOK(p, Last(fs))
  BY InnerFrame
<1>2. Used(p, Last(fs)) \in Nat /\ Arity(p, Last(fs)) \in Nat
  BY <1>1, UsedInNat
<1>3. PICK b : Chain(p, fs, st, b)
  BY DEF InCalls
<1>4. st.bp = b[n] /\ b[n] \in Nat /\ Len(st.data) = b[n] + Used(p, Last(fs)) + 1
  BY <1>1, <1>3 DEF Chain
<1>5. Arity(p, Last(fs)) <= b[n] /\ (n > 1 => b[n] > 0)
  <2>1. CASE n = 1
    <3>1. Arity(p, Last(fs)) = 0
      BY <2>1, <1>1 DEF InCalls, Arity
    <3> QED BY <2>1, <3>1, <1>4
  <2>2. CASE n # 1
    <3> HIDE DEF n
    <3>1. n \in 2..n /\ n - 1 \in 1..n
      BY <2>2, <1>1
    <3> USE DEF n
    <3>2. Link(p, fs, st, b, n) /\ b[n - 1] \in Nat
      BY <3>1, <1>3 DEF Chain
    <3>3. Used(p, fs[n - 1]) \in Nat
      BY <3>1, UsedInNat DEF InCalls
    <3>4. Arity(p, fs[n]) <= b[n]
      BY <3>2, <3>3, <1>1, <1>2 DEF Link
    <3>5. b[n] > 0
      BY <3>2, <3>3 DEF Link
    <3> QED BY <3>4, <3>5, <1>1
  <2> QED BY <2>1, <2>2
<1>6. n > 1 => st.bp > 0
  BY <1>4, <1>5
<1> QED BY <1>2, <1>4, <1>5, <1>6

(* A program runs: it fits its map, and is above another call.             *)
LEMMA RunsReadyCode ==
  ASSUME StackInv, Running
  PROVE  LET program == pool[Current.key]
             map == StackMap(program)
         IN  /\ InCalls(pool, frames, stack) /\ PoolReady(pool) /\ frames # << >>
             /\ FrameOK(pool, Current) /\ Current.key # << >> /\ Current.key \in DOMAIN pool
             /\ Fits(program, map) /\ Current.ip \in DOMAIN map /\ map[Current.ip] \in Nat
             /\ Used(pool, Current) = map[Current.ip] /\ Arity(pool, Current) = program.arity
             /\ program.arity \in Nat /\ program.label = << >>
             /\ Len(frames) \in Nat /\ Len(frames) > 1 /\ Current = frames[Len(frames)]
<1>1. frames # << >> /\ Current.key # << >> /\ status = "running"
  BY DEF Running, InHost
<1>2. InCalls(pool, frames, stack) /\ PoolReady(pool)
  BY <1>1 DEF StackInv, Idle
<1>3. Len(frames) \in Nat /\ Len(frames) >= 1 /\ Current = frames[Len(frames)] /\ FrameOK(pool, Current)
  BY <1>2, InnerFrame DEF Current
<1>4. Len(frames) # 1
  BY <1>1, <1>2, <1>3 DEF InCalls
<1>5. /\ Fits(pool[Current.key], StackMap(pool[Current.key])) /\ pool[Current.key].arity \in Nat
      /\ StackMap(pool[Current.key])[Current.ip] \in Nat
  BY <1>1, <1>2, <1>3, RunningFits, Zenon
<1>6. /\ Current.ip \in DOMAIN StackMap(pool[Current.key])
      /\ pool[Current.key].label = << >> /\ Current.key \in DOMAIN pool
  BY <1>1, <1>3, Zenon DEF FrameOK
<1>7. /\ Used(pool, Current) = StackMap(pool[Current.key])[Current.ip]
      /\ Arity(pool, Current) = pool[Current.key].arity
  BY <1>1 DEF Used, Arity
<1>8. Len(frames) > 1
  BY <1>3, <1>4
<1> QED BY <1>1, <1>2, <1>3, <1>5, <1>6, <1>7, <1>8

(* What the map says of a line that is run.                                *)
LEMMA LineIsFit ==
  ASSUME StackInv, Running, ~Finished
  PROVE  LET map == StackMap(pool[Current.key])
         IN  /\ LineFits(Line, pool[Current.key].arity, map[Current.ip])
             /\ \A next \in Follows(Line, Current.ip) :
                  next \in DOMAIN map /\ map[next] = map[Current.ip] + Growth(Line)
BY RunsReadyCode DEF Fits, Finished, Line

(* A line that calls nothing: the program goes on at a line that follows.  *)
LEMMA Proceeds ==
  ASSUME StackInv, Running, ~Finished, NEW next \in Follows(Line, Current.ip),
         NEW u, IsStack(u), u.bp = stack.bp, Len(u.data) = Len(stack.data) + Growth(Line),
         KeepsBelow(stack, u, pool[Current.key].arity)
  PROVE  InCalls(pool, [frames EXCEPT ![Len(frames)].ip = next], u)
<1> DEFINE g == [Current EXCEPT !.ip = next]
           map == StackMap(pool[Current.key])
<1>1. /\ InCalls(pool, frames, stack) /\ PoolReady(pool) /\ FrameOK(pool, Current)
      /\ Current = Last(frames) /\ Current = frames[Len(frames)] /\ Current.key # << >>
      /\ Arity(pool, Current) = pool[Current.key].arity /\ map[Current.ip] \in Nat
      /\ Used(pool, Current) = map[Current.ip]
  BY RunsReadyCode DEF Current
<1>2. next \in DOMAIN map /\ map[next] = map[Current.ip] + Growth(Line)
  BY LineIsFit
<1>3. g.key = Current.key /\ g.ip = next /\ DOMAIN g = DOMAIN Current
  BY <1>1 DEF FrameOK
<1> HIDE DEF g
<1>4. FrameOK(pool, g)
  BY <1>1, <1>2, <1>3 DEF FrameOK
<1>5. Used(pool, g) = map[next]
  BY <1>1, <1>3 DEF Used
<1>6. Len(u.data) = u.bp + Used(pool, g) + 1
  <2>1. Len(stack.data) = stack.bp + map[Current.ip] + 1 /\ stack.bp \in Nat
    BY <1>1, InnerStack
  <2>2. map[next] \in Nat
    BY <1>2, RunsReadyCode DEF Fits
  <2>3. Growth(Line) = map[next] - map[Current.ip]
    <3>1. Growth(Line) \in Int
      BY LineIsFit DEF Growth, LineFits
    <3> QED BY <3>1, <1>1, <1>2
  <2> QED BY <2>1, <2>2, <2>3, <1>1, <1>5
<1>7. InCalls(pool, [frames EXCEPT ![Len(frames)] = g], u)
  BY <1>1, <1>3, <1>4, <1>6, Advance
<1>8. [frames EXCEPT ![Len(frames)].ip = next] = [frames EXCEPT ![Len(frames)] = g]
  BY <1>1 DEF g
<1> QED BY <1>7, <1>8

------------------------- (* the invariant is inductive *) ---------------------
(* The shape of a step between two calls in progress.                      *)
LEMMA Goes ==
  ASSUME StackInv, UNCHANGED script, status = "running",
         UNCHANGED status, PoolReady(pool'), InCalls(pool', frames', stack')
  PROVE  StackInv'
BY DEF StackInv

(* A stack that stays keeps its cells.                                     *)
LEMMA Same ==
  ASSUME NEW st, NEW arity
  PROVE  KeepsBelow(st, st, arity)
BY DEF KeepsBelow

(* The lines that leave the stack alone.                                   *)
LEMMA OnTemporaries ==
  ASSUME StackInv, Running, ~Finished, Growth(Line) = 0,
         NEW next \in Follows(Line, Current.ip),
         frames' = [frames EXCEPT ![Len(frames)].ip = next],
         UNCHANGED <<script, status, pool, stack>>
  PROVE  StackInv'
<1>1. InCalls(pool, frames, stack) /\ PoolReady(pool) /\ status = "running"
  BY RunsReadyCode DEF Running
<1>2. IsStack(stack) /\ Len(stack.data) = Len(stack.data) + Growth(Line)
  <2>1. Len(stack.data) \in Int
    BY <1>1, InnerStack
  <2> QED BY <2>1, <1>1 DEF InCalls
<1>3. InCalls(pool, [frames EXCEPT ![Len(frames)].ip = next], stack)
  BY <1>2, Same, Proceeds
<1> QED BY <1>1, <1>3, Goes

(* Instructions that work on the temporary variables and on the heap.      *)
LEMMA NextLine ==
  ASSUME StackInv, Runs({"MOVN", "MOVB", "MOVF", "MOVS", "MOVO", "MOVX", "MOV", "SELF", "CALLER",
           "STATE", "PEEK", "SPEEK", "XCHG", "INC", "DEC", "ADD", "SUB", "MUL", "DIV", "REM",
           "NEG", "LNOT", "LNOT2", "TEST", "TCHK", "TC01", "TCMP", "CMP", "NOP", "ALLOC", "POKE"}),
         GoTo(Current.ip + 1), UNCHANGED <<script, status, pool, stack>>
  PROVE  StackInv'
<1>1. Running /\ ~Finished
  BY DEF Runs
<1>2. Growth(Line) = 0 /\ Current.ip + 1 \in Follows(Line, Current.ip)
  BY DEF Runs, Growth, Follows, is_jump_instruction
<1> QED BY <1>1, <1>2, OnTemporaries DEF GoTo

(* A jump, taken or not, goes to a line that follows.                      *)
LEMMA JumpKeeps ==
  ASSUME StackInv, Jump
  PROVE  StackInv'
<1> DEFINE next == IF Taken THEN Line.a ELSE Current.ip + 1
<1>1. Running /\ ~Finished /\ is_jump_instruction(Line.op)
  BY DEF Jump
<1>2. Growth(Line) = 0
  BY <1>1 DEF is_jump_instruction, Growth
<1>3. next \in Follows(Line, Current.ip)
  BY <1>1 DEF is_jump_instruction, Follows, Taken
<1>4. frames' = [frames EXCEPT ![Len(frames)].ip = next]
  BY DEF Jump, GoTo
<1>5. UNCHANGED <<script, status, pool, stack>>
  BY DEF Jump
<1> QED BY <1>1, <1>2, <1>3, <1>4, <1>5, OnTemporaries

(* What a line does to the stack that its growth and its map tell.         *)
Moves(u) ==
  /\ IsStack(u) /\ u.bp = stack.bp /\ Len(u.data) = Len(stack.data) + Growth(Line)
  /\ KeepsBelow(stack, u, pool[Current.key].arity)

(* PUSH.                                                                   *)
LEMMA PushMoves ==
  ASSUME StackInv, Running, ~Finished, Line.op = "PUSH", NEW v
  PROVE  Moves(Stack!push(stack, v))
<1>1. InCalls(pool, frames, stack) /\ PoolReady(pool) /\ IsStack(stack)
  BY RunsReadyCode DEF InCalls
<1>2. stack.bp \in Nat /\ stack.bp + 1 \in 1..Len(stack.data) /\ Len(stack.data) \in Nat
  BY <1>1, InnerStack
<1>3. Growth(Line) = 1
  BY DEF Growth
<1> QED BY <1>1, <1>2, <1>3, Pushed DEF Moves, KeepsBelow

(* PUSHN.                                                                  *)
LEMMA PushManyMoves ==
  ASSUME StackInv, Running, ~Finished, Line.op = "PUSHN"
  PROVE  Moves(Stack!pushn(stack, Line.a))
<1>1. InCalls(pool, frames, stack) /\ PoolReady(pool) /\ IsStack(stack)
  BY RunsReadyCode DEF InCalls
<1>2. stack.bp \in Nat /\ stack.bp + 1 \in 1..Len(stack.data) /\ Len(stack.data) \in Nat
  BY <1>1, InnerStack
<1>3. Growth(Line) = Line.a /\ Line.a \in Nat
  BY LineIsFit DEF Growth, LineFits
<1> DEFINE u == Stack!pushn(stack, Line.a)
<1>4. /\ IsStack(u) /\ u.bp = stack.bp /\ Len(u.data) = Len(stack.data) + Line.a
      /\ \A i \in 1..Len(stack.data) : u.data[i] = stack.data[i]
  BY <1>1, <1>3, PushedMany
<1> HIDE DEF u
<1>5. \A i \in 1..stack.bp + 1 : i \in 1..Len(stack.data)
  BY <1>2
<1>6. Moves(u)
  BY <1>3, <1>4, <1>5 DEF Moves, KeepsBelow
<1> QED BY <1>6 DEF u

(* A line pops no more than its program has in use.                        *)
LEMMA PopMoves ==
  ASSUME StackInv, Running, ~Finished, Line.op \in {"POP", "POPN"}
  PROVE  LET n == IF Line.op = "POP" THEN 1 ELSE Line.a
         IN  n \in Nat /\ Stack!CanPop(stack, n) /\ Moves(Stack!popn(stack, n))
<1> DEFINE n == IF Line.op = "POP" THEN 1 ELSE Line.a
           used == StackMap(pool[Current.key])[Current.ip]
<1>1. InCalls(pool, frames, stack) /\ PoolReady(pool) /\ IsStack(stack) /\ Used(pool, Current) = used
  BY RunsReadyCode DEF InCalls
<1>2. /\ stack.bp \in Nat /\ Len(stack.data) = stack.bp + used + 1 /\ used \in Nat
  BY <1>1, InnerStack DEF Current
<1>3. Growth(Line) = -n /\ n \in Nat /\ used + Growth(Line) >= 0
  BY LineIsFit DEF Growth, LineFits
<1> HIDE DEF n, used
<1>4. n <= used /\ n \in 0..Len(stack.data) /\ stack.bp + 1 <= Len(stack.data) - n
  BY <1>2, <1>3
<1>5. Stack!CanPop(stack, n)
  BY <1>2, <1>3, <1>4 DEF Stack!CanPop, Stack!sp
<1> DEFINE u == Stack!popn(stack, n)
<1>6. /\ IsStack(u) /\ u.bp = stack.bp /\ Len(u.data) = Len(stack.data) - n
      /\ \A i \in 1..Len(stack.data) - n : u.data[i] = stack.data[i]
  BY <1>1, <1>4, Popped
<1> HIDE DEF u
<1>7. \A i \in 1..stack.bp + 1 : u.data[i] = stack.data[i]
  <2>1. \A i \in 1..stack.bp + 1 : i \in 1..Len(stack.data) - n
    BY <1>2, <1>3, <1>4
  <2> QED BY <2>1, <1>6
<1>8. Len(u.data) = Len(stack.data) + Growth(Line)
  BY <1>2, <1>3, <1>6
<1>9. Moves(u)
  BY <1>6, <1>7, <1>8 DEF Moves, KeepsBelow
<1> QED BY <1>3, <1>5, <1>9 DEF n, u

(* The addresses of locals and arguments lie in the stack.                 *)
LEMMA Offsets ==
  ASSUME NEW bp \in Nat, NEW used \in Nat, NEW arity \in Nat, NEW b \in (-arity..used) \ {0},
         arity <= bp
  PROVE  /\ bp + b + 1 \in 1..bp + used + 1 /\ bp + b \in 0..bp + used + 1 - 1
         /\ bp + b + 1 # bp + 1 /\ bp + b + 1 > bp - arity
OBVIOUS

(* It reads and writes what its program has in use, and the arguments.     *)
LEMMA PokeMoves ==
  ASSUME StackInv, Running, ~Finished, Line.op \in {"SPEEK", "SPOKE"}, NEW v
  PROVE  Stack!InBounds(stack, Line.b) /\ Moves(Stack!poke(stack, Line.b, v))
<1> DEFINE used == StackMap(pool[Current.key])[Current.ip]
           arity == pool[Current.key].arity
<1>1. /\ InCalls(pool, frames, stack) /\ PoolReady(pool) /\ IsStack(stack)
      /\ Used(pool, Current) = used /\ Arity(pool, Current) = arity
  BY RunsReadyCode DEF InCalls
<1>2. /\ stack.bp \in Nat /\ Len(stack.data) = stack.bp + used + 1 /\ used \in Nat
      /\ arity \in Nat /\ arity <= stack.bp
  BY <1>1, InnerStack DEF Current
<1>3. Growth(Line) = 0 /\ Line.b \in (-arity..used) \ {0}
  BY LineIsFit DEF Growth, LineFits
<1> HIDE DEF used, arity
<1>4. /\ stack.bp + Line.b + 1 \in 1..Len(stack.data) /\ stack.bp + Line.b \in 0..Len(stack.data) - 1
      /\ stack.bp + Line.b + 1 # stack.bp + 1 /\ stack.bp + Line.b + 1 > stack.bp - arity
  <2>1. /\ stack.bp + Line.b + 1 \in 1..stack.bp + used + 1
        /\ stack.bp + Line.b \in 0..stack.bp + used + 1 - 1
        /\ stack.bp + Line.b + 1 # stack.bp + 1 /\ stack.bp + Line.b + 1 > stack.bp - arity
    BY <1>2, <1>3, Offsets, Zenon
  <2> QED BY <2>1, <1>2
<1> DEFINE u == Stack!poke(stack, Line.b, v)
<1>5. /\ IsStack(u) /\ u.bp = stack.bp /\ Len(u.data) = Len(stack.data)
      /\ \A i \in 1..Len(stack.data) : i # stack.bp + Line.b + 1 => u.data[i] = stack.data[i]
  BY <1>1, <1>4, Poked
<1> HIDE DEF u
<1>6. KeepsBelow(stack, u, arity)
  <2> SUFFICES ASSUME NEW i \in 1..stack.bp + 1, i <= stack.bp - arity \/ i = stack.bp + 1
               PROVE  u.data[i] = stack.data[i]
    BY DEF KeepsBelow
  <2>1. i \in 1..Len(stack.data) /\ i # stack.bp + Line.b + 1
    BY <1>2, <1>3, <1>4
  <2> QED BY <2>1, <1>5
<1>7. Len(u.data) = Len(stack.data) + Growth(Line)
  BY <1>2, <1>3, <1>5
<1>8. Moves(u)
  BY <1>5, <1>6, <1>7 DEF Moves, arity
<1>9. Stack!InBounds(stack, Line.b)
  BY <1>4 DEF Stack!InBounds, Stack!sp
<1> QED BY <1>8, <1>9 DEF u

(* Such a line goes on to the next one.                                    *)
LEMMA MovesKeep ==
  ASSUME StackInv, Running, ~Finished, Line.op \in {"PUSH", "PUSHN", "POP", "POPN", "SPOKE"},
         Moves(stack'), GoTo(Current.ip + 1), UNCHANGED <<script, status, pool>>
  PROVE  StackInv'
<1>1. Current.ip + 1 \in Follows(Line, Current.ip)
  BY DEF Follows, is_jump_instruction
<1>2. InCalls(pool, frames', stack')
  BY <1>1, Proceeds DEF Moves, GoTo
<1>3. PoolReady(pool) /\ status = "running"
  BY RunsReadyCode DEF Running
<1> QED BY <1>2, <1>3, Goes

(* Each of the lines that push and pop.                                    *)
LEMMA PushPopMoves ==
  ASSUME StackInv, PushPop
  PROVE  Moves(stack') /\ Running /\ ~Finished /\ Line.op \in {"PUSH", "PUSHN", "POPN", "SPOKE"}
<1>1. Running /\ ~Finished /\ Line.op \in {"PUSH", "PUSHN", "POPN", "SPOKE"}
  BY DEF PushPop, Runs
<1>2. CASE Line.op = "PUSH"
  BY <1>1, <1>2, PushMoves DEF PushPop
<1>3. CASE Line.op = "PUSHN"
  BY <1>1, <1>3, PushManyMoves DEF PushPop
<1>4. CASE Line.op = "POPN"
  <2>1. Moves(Stack!popn(stack, Line.a))
    BY <1>1, <1>4, PopMoves
  <2> QED BY <1>1, <1>4, <2>1 DEF PushPop
<1>5. CASE Line.op = "SPOKE"
  BY <1>1, <1>5, PokeMoves DEF PushPop
<1> QED BY <1>1, <1>2, <1>3, <1>4, <1>5

(* POP, into a temporary variable.                                         *)
LEMMA PopTempMoves ==
  ASSUME StackInv, PopTemp
  PROVE  Moves(stack') /\ Running /\ ~Finished /\ Line.op = "POP"
<1>1. Running /\ ~Finished /\ Line.op = "POP"
  BY DEF PopTemp, Runs
<1>2. Moves(Stack!popn(stack, 1))
  BY <1>1, PopMoves
<1> QED BY <1>1, <1>2 DEF PopTemp

------------------------- (* the calls and the returns *) ----------------------
(* A call goes on behind its cache.                                        *)
LEMMA ReturnedIs ==
  ASSUME StackInv, Running
  PROVE  Returned = [frames EXCEPT ![Len(frames)].ip = Current.ip + 3]
BY RunsReadyCode DEF Returned

(* A function in C takes and leaves the stack as it is.                    *)
LEMMA CallNativeKeeps ==
  ASSUME StackInv, CallNative
  PROVE  StackInv'
<1>1. Running /\ ~Finished /\ Line.op = "CALL"
  BY DEF CallNative, Calls, Runs
<1>2. Growth(Line) = 0 /\ Current.ip + 3 \in Follows(Line, Current.ip)
  BY <1>1 DEF Growth, Follows, is_jump_instruction
<1>3. frames' = [frames EXCEPT ![Len(frames)].ip = Current.ip + 3]
  BY <1>1, ReturnedIs DEF CallNative
<1>4. UNCHANGED <<script, status, pool, stack>>
  BY DEF CallNative
<1> QED BY <1>1, <1>2, <1>3, <1>4, OnTemporaries

(* The call that has made another one waits behind it.                     *)
LEMMA Waits ==
  ASSUME StackInv, Running, ~Finished, Line.op = "CALL"
  PROVE  /\ InCalls(pool, Returned, stack) /\ PoolReady(pool)
         /\ Used(pool, Last(Returned)) = Used(pool, Current)
         /\ Line.b + 1 <= Used(pool, Current) /\ Line.b \in Nat /\ Used(pool, Current) \in Nat
<1>1. Growth(Line) = 0 /\ Current.ip + 3 \in Follows(Line, Current.ip)
  BY DEF Growth, Follows, is_jump_instruction
<1>2. InCalls(pool, frames, stack) /\ PoolReady(pool) /\ IsStack(stack)
  BY RunsReadyCode DEF InCalls
<1>3. Len(stack.data) = stack.bp + Used(pool, Current) + 1 /\ Used(pool, Current) \in Nat /\ stack.bp \in Nat
  BY <1>2, InnerStack DEF Current
<1>4. Len(stack.data) = Len(stack.data) + Growth(Line)
  BY <1>1, <1>3
<1>5. InCalls(pool, Returned, stack)
  BY <1>1, <1>2, <1>4, Same, Proceeds, ReturnedIs
<1>6. /\ Len(stack.data) = stack.bp + Used(pool, Last(Returned)) + 1
      /\ Used(pool, Last(Returned)) \in Nat
  BY <1>2, <1>5, InnerStack
<1>7. Used(pool, Last(Returned)) = Used(pool, Current)
  BY <1>3, <1>6
<1>8. Used(pool, Current) = StackMap(pool[Current.key])[Current.ip]
  BY RunsReadyCode
<1>9. Line.b \in 0..Used(pool, Current) - 1
  BY <1>8, LineIsFit DEF LineFits
<1> QED BY <1>2, <1>3, <1>5, <1>7, <1>9

(* A program that is called runs from its first line, on an empty frame.   *)
LEMMA Begins ==
  ASSUME NEW p, PoolReady(p), NEW key \in DOMAIN p, key # << >>, p[key].label = << >>,
         NEW self, NEW caller, NEW regs
  PROVE  LET g == Frame(self, key, caller, regs)
         IN  FrameOK(p, g) /\ Used(p, g) = 0 /\ Arity(p, g) = p[key].arity
<1> DEFINE g == Frame(self, key, caller, regs)
<1>1. g.key = key /\ g.ip = 0 /\ {"key", "ip"} \subseteq DOMAIN g
  BY DEF Frame
<1>2. Ready(p[key])
  BY DEF PoolReady
<1>3. Fits(p[key], StackMap(p[key]))
  BY <1>2, Resolved
<1>4. 0 \in DOMAIN StackMap(p[key]) /\ StackMap(p[key])[0] = 0
  BY <1>3 DEF Fits
<1> HIDE DEF g
<1>5. FrameOK(p, g) /\ Used(p, g) = 0 /\ Arity(p, g) = p[key].arity
  BY <1>1, <1>4 DEF FrameOK, Used, Arity
<1> QED BY <1>5 DEF g

(* The arguments of the program that is called are in the frame of the     *)
(* caller.                                                                 *)
LEMMA CallScriptKeeps ==
  ASSUME StackInv, CallScript
  PROVE  StackInv'
<1> DEFINE g == Frame(Callee, Key, Current.self, Current.regs)
<1>1. Running /\ ~Finished /\ Line.op = "CALL" /\ Callable
  BY DEF CallScript, Calls, Runs, Faulty
<1>2. Key \in DOMAIN pool /\ pool[Key].arity \in {Line.b, Line.b + 1}
  BY <1>1 DEF Callable, Given
<1>3. Key # << >>
  BY DEF Key, Lookup
<1>4. /\ InCalls(pool, Returned, stack) /\ PoolReady(pool)
      /\ Used(pool, Last(Returned)) = Used(pool, Current)
      /\ Line.b + 1 <= Used(pool, Current) /\ Line.b \in Nat /\ Used(pool, Current) \in Nat
  BY <1>1, Waits
<1>5. pool' = [pool EXCEPT ![Key] = remove_labels(@)]
  BY DEF CallScript
<1>6. /\ PoolReady(pool') /\ pool'[Key].label = << >> /\ pool'[Key].arity = pool[Key].arity
      /\ InCalls(pool', Returned, stack) /\ DOMAIN pool' = DOMAIN pool
      /\ Used(pool', Last(Returned)) = Used(pool, Last(Returned))
  BY <1>2, <1>4, <1>5, Prepare, InnerFrame
<1>7. FrameOK(pool', g) /\ Used(pool', g) = 0 /\ Arity(pool', g) = pool'[Key].arity
  BY <1>2, <1>3, <1>6, Begins
<1> HIDE DEF g
<1>8. Arity(pool', g) <= Used(pool', Last(Returned))
  BY <1>2, <1>4, <1>6, <1>7
<1>9. /\ IsStack(stack') /\ stack'.bp = Len(stack.data) /\ Len(stack'.data) = Len(stack.data) + 1
      /\ stack'.data[Len(stack.data) + 1] = Raw(stack.bp)
      /\ \A i \in 1..Len(stack.data) : stack'.data[i] = stack.data[i]
  BY <1>6, PushedEnv DEF CallScript, InCalls
<1>10. Len(stack'.data) = stack'.bp + Used(pool', g) + 1 /\ stack'.data[stack'.bp + 1] = Raw(stack.bp)
  BY <1>4, <1>7, <1>9, InnerStack
<1>11. InCalls(pool', Append(Returned, g), stack')
  BY <1>6, <1>7, <1>8, <1>9, <1>10, Enter
<1>12. frames' = Append(Returned, g) /\ UNCHANGED <<script, status>> /\ status = "running"
  BY <1>1 DEF CallScript, g, Running
<1> QED BY <1>6, <1>11, <1>12, Goes

(* A function in C that calls programs has pushed their object.            *)
LEMMA EntersHost ==
  ASSUME NEW p, NEW fs, NEW st, PoolReady(p), InCalls(p, fs, st), NEW self, NEW calls, NEW v
  PROVE  InCalls(p, Append(fs, HostFrame(self, calls)), Stack!push(Stack!pushenv(st), v))
<1> DEFINE g == HostFrame(self, calls)
           e == Stack!pushenv(st)
           u == Stack!push(e, v)
<1>1. g.key = << >> /\ {"key", "ip"} \subseteq DOMAIN g
  BY DEF HostFrame, Frame
<1>2. /\ IsStack(e) /\ e.bp = Len(st.data) /\ Len(e.data) = Len(st.data) + 1
      /\ e.data[Len(st.data) + 1] = Raw(st.bp)
      /\ \A i \in 1..Len(st.data) : e.data[i] = st.data[i]
  BY PushedEnv DEF InCalls
<1>3. Len(st.data) \in Nat /\ Used(p, Last(fs)) \in Nat
  BY InnerStack
<1> HIDE DEF e
<1>4. /\ IsStack(u) /\ u.bp = e.bp /\ Len(u.data) = Len(e.data) + 1
      /\ \A i \in 1..Len(e.data) : u.data[i] = e.data[i]
  BY <1>2, Pushed
<1> HIDE DEF g, u
<1>5. FrameOK(p, g) /\ Used(p, g) = 1 /\ Arity(p, g) = 0
  BY <1>1 DEF FrameOK, Used, Arity
<1>6. /\ u.bp = Len(st.data) /\ Len(u.data) = u.bp + Used(p, g) + 1
      /\ u.data[u.bp + 1] = Raw(st.bp) /\ \A i \in 1..Len(st.data) : u.data[i] = st.data[i]
  BY <1>2, <1>3, <1>4, <1>5
<1>7. InCalls(p, Append(fs, g), u)
  BY <1>3, <1>4, <1>5, <1>6, Enter
<1> QED BY <1>7 DEF g, u, e

(* spawn() calls the constructors of the object.                           *)
LEMMA CallSpawnKeeps ==
  ASSUME StackInv, CallSpawn
  PROVE  StackInv'
<1>1. Running /\ ~Finished /\ Line.op = "CALL" /\ status = "running"
  BY DEF CallSpawn, Calls, Runs, Running
<1>2. InCalls(pool, Returned, stack) /\ PoolReady(pool)
  BY <1>1, Waits
<1>3. InCalls(pool, frames', stack') /\ UNCHANGED <<script, status, pool>>
  BY <1>2, EntersHost DEF CallSpawn
<1> QED BY <1>1, <1>2, <1>3, Goes

(* RET, or the end of the code, whatever is in use then.                   *)
LEMMA ReturnKeeps ==
  ASSUME StackInv, Return
  PROVE  StackInv'
<1>1. Running /\ status = "running"
  BY DEF Return, Running
<1>2. InCalls(pool, frames, stack) /\ PoolReady(pool) /\ IsStack(stack) /\ Len(frames) > 1
  BY <1>1, RunsReadyCode DEF InCalls
<1>3. stack.bp \in 0..Len(stack.data)
  BY <1>2, InnerStack
<1>4. /\ IsStack(stack') /\ stack'.bp = stack.data[stack.bp + 1].v /\ Len(stack'.data) = stack.bp
      /\ \A i \in 1..stack.bp : stack'.data[i] = stack.data[i]
  BY <1>2, <1>3, PoppedEnv DEF Return
<1>5. InCalls(pool, Front(frames), stack')
  BY <1>2, <1>4, Leave
<1>6. frames' = Front(frames) /\ UNCHANGED <<script, status, pool>>
  BY DEF Return
<1> QED BY <1>1, <1>2, <1>5, <1>6, Goes

---------------------- (* the functions in C that call *) ----------------------
(* A function in C has one cell in use, with the object.                   *)
LEMMA HostIsReady ==
  ASSUME StackInv, status = "running", InHost
  PROVE  /\ InCalls(pool, frames, stack) /\ PoolReady(pool) /\ IsStack(stack)
         /\ Current = frames[Len(frames)] /\ Current = Last(frames) /\ FrameOK(pool, Current)
         /\ Used(pool, Current) = 1 /\ Arity(pool, Current) = 0
         /\ stack.bp \in Nat /\ Len(stack.data) = stack.bp + 2
<1>1. InCalls(pool, frames, stack) /\ PoolReady(pool)
  BY DEF StackInv, Idle, InHost
<1>2. /\ Current = frames[Len(frames)] /\ Current = Last(frames) /\ FrameOK(pool, Current)
  BY <1>1, InnerFrame DEF Current
<1>3. Used(pool, Current) = 1 /\ Arity(pool, Current) = 0
  BY DEF InHost, Used, Arity
<1>4. stack.bp \in Nat /\ Len(stack.data) = stack.bp + 1 + 1
  BY <1>1, <1>2, <1>3, InnerStack
<1> QED BY <1>1, <1>2, <1>3, <1>4 DEF InCalls

(* The next program is taken off the list.                                 *)
LEMMA TakesNext ==
  ASSUME StackInv, status = "running", InHost
  PROVE  LET fs == [frames EXCEPT ![Len(frames)].calls = Tail(@)]
         IN  InCalls(pool, fs, stack) /\ Used(pool, Last(fs)) = 1
<1> DEFINE g == [Current EXCEPT !.calls = Tail(@)]
           fs == [frames EXCEPT ![Len(frames)] = g]
<1>1. /\ InCalls(pool, frames, stack) /\ PoolReady(pool) /\ IsStack(stack)
      /\ Current = frames[Len(frames)] /\ Current = Last(frames) /\ FrameOK(pool, Current)
      /\ stack.bp \in Nat /\ Len(stack.data) = stack.bp + 2 /\ Current.key = << >>
  BY HostIsReady DEF InHost
<1>2. g.key = Current.key /\ {"key", "ip"} \subseteq DOMAIN g
  BY <1>1 DEF FrameOK
<1>3. [frames EXCEPT ![Len(frames)].calls = Tail(@)] = fs
  BY <1>1
<1> HIDE DEF g
<1>4. FrameOK(pool, g) /\ Used(pool, g) = 1
  BY <1>1, <1>2 DEF FrameOK, Used
<1>5. Len(stack.data) = stack.bp + Used(pool, g) + 1
  BY <1>1, <1>4
<1>6. InCalls(pool, fs, stack)
  BY <1>1, <1>2, <1>4, <1>5, Same, Advance
<1> HIDE DEF fs
<1>7. Used(pool, Last(fs)) = 1
  <2>1. Len(stack.data) = stack.bp + Used(pool, Last(fs)) + 1 /\ Used(pool, Last(fs)) \in Nat
    BY <1>1, <1>6, InnerStack
  <2> QED BY <2>1, <1>1
<1> QED BY <1>3, <1>6, <1>7

(* A program that does not exist is not called.                            *)
LEMMA HostSkipsKeeps ==
  ASSUME StackInv, HostSkips
  PROVE  StackInv'
<1>1. status = "running" /\ InHost /\ UNCHANGED <<script, status, pool, stack>>
  BY DEF HostSkips
<1>2. InCalls(pool, frames', stack) /\ PoolReady(pool)
  BY <1>1, TakesNext, HostIsReady DEF HostSkips
<1> QED BY <1>1, <1>2, Goes

(* It calls programs without arguments.                                    *)
LEMMA HostCallsKeeps ==
  ASSUME StackInv, HostCalls
  PROVE  StackInv'
<1> DEFINE fs == [frames EXCEPT ![Len(frames)].calls = Tail(@)]
           g == Frame(Current.self, HostKey, 0, Current.self)
<1>1. status = "running" /\ InHost /\ HostKey \in DOMAIN pool /\ pool[HostKey].arity = 0
  BY DEF HostCalls
<1>2. HostKey # << >>
  BY DEF HostKey
<1>3. InCalls(pool, fs, stack) /\ Used(pool, Last(fs)) = 1 /\ PoolReady(pool)
  BY <1>1, TakesNext, HostIsReady
<1>4. frames' = Append(fs, g) /\ UNCHANGED <<script, status>> /\ stack' = Stack!pushenv(stack)
  BY DEF HostCalls
<1> HIDE DEF fs
<1>5. pool' = [pool EXCEPT ![HostKey] = remove_labels(@)]
  BY DEF HostCalls
<1>6. /\ PoolReady(pool') /\ pool'[HostKey].label = << >> /\ pool'[HostKey].arity = 0
      /\ InCalls(pool', fs, stack) /\ DOMAIN pool' = DOMAIN pool /\ Used(pool', Last(fs)) = 1
  BY <1>1, <1>3, <1>5, Prepare, InnerFrame
<1>7. FrameOK(pool', g) /\ Used(pool', g) = 0 /\ Arity(pool', g) = 0
  BY <1>1, <1>2, <1>6, Begins
<1> HIDE DEF g
<1>8. Arity(pool', g) <= Used(pool', Last(fs))
  BY <1>6, <1>7
<1>9. /\ IsStack(stack') /\ stack'.bp = Len(stack.data) /\ Len(stack'.data) = Len(stack.data) + 1
      /\ stack'.data[Len(stack.data) + 1] = Raw(stack.bp)
      /\ \A i \in 1..Len(stack.data) : stack'.data[i] = stack.data[i]
  BY <1>4, <1>6, PushedEnv DEF InCalls
<1>10. Len(stack'.data) = stack'.bp + Used(pool', g) + 1 /\ stack'.data[stack'.bp + 1] = Raw(stack.bp)
  BY <1>3, <1>7, <1>9, InnerStack
<1>11. InCalls(pool', Append(fs, g), stack')
  BY <1>6, <1>7, <1>8, <1>9, <1>10, Enter
<1> QED BY <1>1, <1>4, <1>6, <1>11, Goes

(* It pops the object, and the environment unless it is the outermost.     *)
LEMMA HostReturnsKeeps ==
  ASSUME StackInv, HostReturns
  PROVE  StackInv'
<1> DEFINE d == Stack!popn(stack, 1)
<1>1. status = "running" /\ InHost /\ frames' = Front(frames) /\ UNCHANGED <<script, status, pool>>
  BY DEF HostReturns
<1>2. /\ InCalls(pool, frames, stack) /\ PoolReady(pool) /\ IsStack(stack)
      /\ stack.bp \in Nat /\ Len(stack.data) = stack.bp + 2 /\ Used(pool, Last(frames)) = 1
  BY <1>1, HostIsReady DEF Current
<1>3. /\ IsStack(d) /\ d.bp = stack.bp /\ Len(d.data) = stack.bp + 1
      /\ \A i \in 1..stack.bp + 1 : d.data[i] = stack.data[i]
  <2>1. 1 \in 0..Len(stack.data) /\ Len(stack.data) - 1 = stack.bp + 1
    BY <1>2
  <2> QED BY <1>2, <2>1, Popped
<1>4. Len(frames) \in Nat /\ Len(frames) >= 1
  BY <1>2, InnerFrame
<1>5. CASE Len(frames) = 1
  <2>1. stack' = d
    BY <1>5 DEF HostReturns
  <2>2. stack.bp = 0
    BY <1>2, <1>5 DEF InCalls, Chain
  <2>3. IsSeq(frames') /\ Len(frames') = 0
    <3>1. frames' = SubSeq(frames, 1, 0) /\ 0 \in 0..Len(frames)
      BY <1>1, <1>5 DEF Front
    <3>2. IsSeq(frames)
      BY <1>2 DEF InCalls
    <3> QED BY <3>1, <3>2, SubSeqIsSeq
  <2>4. frames' = << >>
    <3>1. PICK S : frames' \in Seq(S)
      BY <2>3 DEF IsSeq
    <3> QED BY <3>1, <2>3, EmptySeq
  <2>5. Idle(frames', stack')
    BY <1>3, <2>1, <2>2, <2>4 DEF Idle
  <2> QED BY <1>1, <1>2, <2>4, <2>5 DEF StackInv
<1>6. CASE Len(frames) # 1
  <2>1. stack' = Stack!popenv(d)
    BY <1>6 DEF HostReturns
  <2> HIDE DEF d
  <2>2. d.bp \in 0..Len(d.data)
    BY <1>2, <1>3
  <2>3. /\ IsStack(stack') /\ stack'.bp = d.data[d.bp + 1].v /\ Len(stack'.data) = d.bp
        /\ \A i \in 1..d.bp : stack'.data[i] = d.data[i]
    BY <1>3, <2>1, <2>2, PoppedEnv
  <2>4. stack'.bp = stack.data[stack.bp + 1].v /\ \A i \in 1..stack.bp : stack'.data[i] = stack.data[i]
    <3>1. \A i \in 1..stack.bp : i \in 1..stack.bp + 1
      BY <1>2
    <3>2. stack.bp + 1 \in 1..stack.bp + 1
      BY <1>2
    <3> QED BY <1>3, <2>3, <3>1, <3>2
  <2>5. Len(frames) > 1
    <3> DEFINE n == Len(frames)
    <3>1. n \in Nat /\ n >= 1 /\ n # 1
      BY <1>4, <1>6
    <3> HIDE DEF n
    <3>2. n > 1
      BY <3>1
    <3> QED BY <3>2 DEF n
  <2>6. InCalls(pool, Front(frames), stack')
    BY <1>2, <1>3, <2>3, <2>4, <2>5, Leave
  <2> QED BY <1>1, <1>2, <2>6, Goes
<1> QED BY <1>5, <1>6

(* The outermost call is made on an empty stack.                           *)
LEMMA HostBeginsKeeps ==
  ASSUME StackInv, HostBegins
  PROVE  StackInv'
<1> DEFINE g == HostFrame(HandleOf("Application"), Head(pending))
<1>1. status = "running" /\ frames = << >> /\ frames' = <<g>> /\ UNCHANGED <<script, status, pool>>
  BY DEF HostBegins
<1>2. IsStack(stack) /\ stack.bp = 0 /\ Len(stack.data) = 1 /\ PoolReady(pool)
  BY <1>1 DEF StackInv, Idle, InCalls
<1>3. stack' = Stack!push(stack, Handle(HandleOf("Application")))
  BY DEF HostBegins
<1>4. IsStack(stack') /\ stack'.bp = 0 /\ Len(stack'.data) = 2
  <2>1. IsStack(stack') /\ stack'.bp = stack.bp /\ Len(stack'.data) = Len(stack.data) + 1
    BY <1>2, <1>3, Pushed
  <2> QED BY <2>1, <1>2
<1>5. g.key = << >> /\ {"key", "ip"} \subseteq DOMAIN g
  BY DEF HostFrame, Frame
<1> HIDE DEF g
<1>6. FrameOK(pool, g) /\ Used(pool, g) = 1
  BY <1>5 DEF FrameOK, Used
<1>7. IsSeq(<<g>>) /\ Len(<<g>>) = 1 /\ <<g>> # << >> /\ <<g>>[1] = g
  <2>1. <<g>> \in Seq({g})
    OBVIOUS
  <2> QED BY <2>1 DEF IsSeq
<1> DEFINE b == [j \in 1..1 |-> 0]
<1>8. Chain(pool, <<g>>, stack', b)
  BY <1>4, <1>6, <1>7 DEF Chain, Ascending
<1>9. InCalls(pool, <<g>>, stack')
  BY <1>4, <1>5, <1>6, <1>7, <1>8 DEF InCalls
<1> QED BY <1>1, <1>2, <1>9, Goes

(* What was compiled has been verified.                                    *)
LEMMA CompileKeeps ==
  ASSUME StackInv, Verified, Compile
  PROVE  StackInv'
<1> DEFINE c == Programs[script]
<1>1. status = "source" /\ UNCHANGED <<script, frames, stack>> /\ frames = << >>
  BY DEF Compile, StackInv
<1>2. Idle(frames', stack')
  BY <1>1 DEF StackInv, InCalls
<1>3. script \in DOMAIN Scripts
  BY DEF StackInv
<1>4. CASE c.error
  BY <1>1, <1>2, <1>3, <1>4 DEF Compile, StackInv
<1>5. CASE ~c.error
  <2>1. status' = "running" /\ pool' = c.pool
    BY <1>5 DEF Compile
  <2>2. \A key \in DOMAIN c.pool : Ready(c.pool[key])
    <3>1. \A key \in DOMAIN c.pool : DOMAIN c.pool[key] = DOMAIN Native
      BY <1>3, <1>5, ProgramsAssumption
    <3>2. \A key \in DOMAIN c.pool : Fits(remove_labels(c.pool[key]), StackMap(remove_labels(c.pool[key])))
      BY <1>5 DEF Verified
    <3> QED BY <3>1, <3>2 DEF Ready
  <2>3. PoolReady(pool')
    BY <2>1, <2>2 DEF PoolReady
  <2> QED BY <1>1, <1>2, <1>3, <2>1, <2>3 DEF StackInv
<1> QED BY <1>4, <1>5

(* The stack is created empty.                                             *)
LEMMA InitHolds ==
  ASSUME Init
  PROVE  StackInv
<1>1. stack = [data |-> <<Raw(0)>>, bp |-> 0]
  BY DEF Init, Stack!StackCreate, SaveBase
<1>2. <<Raw(0)>> \in Seq({Raw(0)}) /\ Len(<<Raw(0)>>) = 1
  OBVIOUS
<1>3. IsStack(stack) /\ stack.bp = 0 /\ Len(stack.data) = 1
  BY <1>1, <1>2 DEF IsStack, IsSeq
<1>4. frames = << >> /\ status = "source" /\ script \in DOMAIN Scripts
  BY DEF Init
<1> QED BY <1>3, <1>4 DEF StackInv, Idle

(* An error and the end leave all as it is.                                *)
LEMMA EndKeeps ==
  ASSUME StackInv, Fault \/ Done
  PROVE  StackInv'
<1>1. /\ UNCHANGED <<script, pool, frames, stack>>
      /\ status = "running" /\ status' \in {"fatal", "done"}
  BY DEF Fault, Done
<1> QED BY <1>1 DEF StackInv

(* One step for each action.                                               *)
LEMMA StepKeeps ==
  ASSUME StackInv, Verified, [Next]_vars
  PROVE  StackInv'
<1>1. CASE Compile
  BY <1>1, CompileKeeps
<1>2. CASE HostBegins
  BY <1>2, HostBeginsKeeps
<1>3. CASE HostCalls
  BY <1>3, HostCallsKeeps
<1>4. CASE HostSkips
  BY <1>4, HostSkipsKeeps
<1>5. CASE HostReturns
  BY <1>5, HostReturnsKeeps
<1>6. CASE Load
  BY <1>6, NextLine DEF Load, Runs
<1>7. CASE Exchange
  BY <1>7, NextLine DEF Exchange, Runs
<1>8. CASE Compute
  BY <1>8, NextLine DEF Compute, Runs
<1>9. CASE Compare
  BY <1>9, NextLine DEF Compare, Runs
<1>10. CASE Jump
  BY <1>10, JumpKeeps
<1>11. CASE NoOperation
  BY <1>11, NextLine DEF NoOperation, Runs
<1>12. CASE PushPop
  <2>1. Moves(stack') /\ Running /\ ~Finished /\ Line.op \in {"PUSH", "PUSHN", "POPN", "SPOKE"}
    BY <1>12, PushPopMoves
  <2> QED BY <2>1, <1>12, MovesKeep DEF PushPop
<1>13. CASE PopTemp
  <2>1. Moves(stack') /\ Running /\ ~Finished /\ Line.op = "POP"
    BY <1>13, PopTempMoves
  <2> QED BY <2>1, <1>13, MovesKeep DEF PopTemp
<1>14. CASE Allocate
  BY <1>14, NextLine DEF Allocate, Runs
<1>15. CASE StoreHeap
  BY <1>15, NextLine DEF StoreHeap, Runs
<1>16. CASE SetState
  BY <1>16, NextLine DEF SetState, Runs
<1>17. CASE CallScript
  BY <1>17, CallScriptKeeps
<1>18. CASE CallNative
  BY <1>18, CallNativeKeeps
<1>19. CASE CallSpawn
  BY <1>19, CallSpawnKeeps
<1>20. CASE Return
  BY <1>20, ReturnKeeps
<1>21. CASE Fault \/ Done
  BY <1>21, EndKeeps
<1>22. CASE UNCHANGED vars
  BY <1>22 DEF vars, StackInv
<1> QED BY <1>1, <1>2, <1>3, <1>4, <1>5, <1>6, <1>7, <1>8, <1>9, <1>10, <1>11, <1>12, <1>13,
           <1>14, <1>15, <1>16, <1>17, <1>18, <1>19, <1>20, <1>21, <1>22 DEF Next, Step

(* What is compiled stays so: the script never changes.                    *)
LEMMA VerifiedStays ==
  ASSUME Verified, [Next]_vars
  PROVE  Verified'
<1>1. UNCHANGED script
  BY DEF Next, Step, vars, Compile, HostBegins, HostCalls, HostSkips, HostReturns, Load, Exchange,
         Compute, Compare, Jump, NoOperation, PushPop, PopTemp, Allocate, StoreHeap, SetState,
         CallScript, CallNative, CallSpawn, Return, Fault, Done
<1> QED BY <1>1 DEF Verified

------------------------------- (* theorems *) ---------------------------------
(* The frames of all calls lie on each other without a gap, each as high   *)
(* as the map of its program says, arguments included, and the base        *)
(* pointers that they saved lead from each to the one below                *)
(* (call_program(), surgescript_stack_pushenv() and run_instruction()).    *)
THEOREM FramesLieOnEachOther == Spec /\ Verified => []StackInv
<1>1. Init => StackInv
  BY InitHolds
<1>2. StackInv /\ Verified /\ [Next]_vars => StackInv' /\ Verified'
  BY StepKeeps, VerifiedStays
<1> QED BY <1>1, <1>2, PTL DEF Spec

(* No statement leaves a value behind: wherever one begins, the stack      *)
(* holds the local variables and what the statements around it keep there  *)
(* (the code that asm.c generates, run by run_instruction()).              *)
THEOREM StackIsBalanced == Spec /\ Verified => []StackBalanced
<1>1. StackInv => StackBalanced
  <2> DEFINE program == pool[Current.key]
  <2> SUFFICES ASSUME StackInv, Running, Current.ip \in DOMAIN program.marks
               PROVE  Stack!sp(stack) - stack.bp = Locals(program) + program.marks[Current.ip]
    BY DEF StackBalanced
  <2>1. InCalls(pool, frames, stack) /\ PoolReady(pool) /\ Current = Last(frames)
    BY RunsReadyCode DEF Current
  <2>2. /\ stack.bp \in Nat /\ Len(stack.data) = stack.bp + Used(pool, Current) + 1
        /\ Used(pool, Current) \in Nat
    BY <2>1, InnerStack
  <2>3. Used(pool, Current) = Locals(program) + program.marks[Current.ip]
    BY RunsReadyCode DEF Fits
  <2>4. Stack!sp(stack) = stack.bp + Used(pool, Current)
    BY <2>2 DEF Stack!sp
  <2> QED BY <2>2, <2>3, <2>4
<1> QED BY <1>1, FramesLieOnEachOther, PTL

(* Whatever was called, and whether or not it left values behind, the host *)
(* finds the stack as high as it was created (surgescript_stack_popenv(),  *)
(* surgescript_object_init()).                                             *)
THEOREM HostFindsEmptyStack ==
  Spec /\ Verified => [](frames = << >> => stack.bp = 0 /\ Stack!sp(stack) = 0)
<1>1. StackInv => (frames = << >> => stack.bp = 0 /\ Stack!sp(stack) = 0)
  BY DEF StackInv, Idle, InCalls, Stack!sp
<1> QED BY <1>1, FramesLieOnEachOther, PTL

(* No program pops what it has not pushed, names a cell outside of its     *)
(* frame and its arguments, or returns from an empty stack: the fatal      *)
(* errors of surgescript_stack_pop(), _peek(), _poke() and _popenv() are   *)
(* never met.                                                              *)
THEOREM NoStackFault == Spec /\ Verified => []~StackFault
<1>1. ASSUME StackInv, Running, ~Finished, Line.op \in {"POP", "POPN", "SPEEK", "SPOKE"}
      PROVE  ~Faulty
  <2>1. CASE Line.op = "POP"
    <3>1. Stack!CanPop(stack, 1)
      BY <1>1, <2>1, PopMoves
    <3> QED BY <2>1, <3>1 DEF Faulty
  <2>2. CASE Line.op = "POPN"
    <3>1. Stack!CanPop(stack, Line.a)
      BY <1>1, <2>2, PopMoves
    <3> QED BY <2>2, <3>1 DEF Faulty
  <2>3. CASE Line.op \in {"SPEEK", "SPOKE"}
    <3>1. Stack!InBounds(stack, Line.b)
      BY <1>1, <2>3, PokeMoves
    <3> QED BY <2>3, <3>1 DEF Faulty
  <2> QED BY <1>1, <2>1, <2>2, <2>3
<1>2. ASSUME StackInv, Running
      PROVE  Stack!sp(stack) # 0
  <2>1. InCalls(pool, frames, stack) /\ PoolReady(pool) /\ Len(frames) > 1
    BY <1>2, RunsReadyCode
  <2>2. /\ stack.bp \in Nat /\ stack.bp > 0 /\ Used(pool, Last(frames)) \in Nat
        /\ Len(stack.data) = stack.bp + Used(pool, Last(frames)) + 1
    BY <2>1, InnerStack
  <2> QED BY <2>2 DEF Stack!sp
<1>3. StackInv => ~StackFault
  BY <1>1, <1>2 DEF StackFault
<1> QED BY <1>3, FramesLieOnEachOther, PTL

------------------------------ (* the callers *) -------------------------------
(* A step that leaves the cells below the arguments, and the base pointer. *)
LEMMA KeptBelow ==
  ASSUME StackInv, frames # << >>,
         KeepsBelow(stack, stack', IF Running THEN pool[Current.key].arity ELSE 0)
  PROVE  CallersKept
<1> DEFINE arity == IF Running THEN pool[Current.key].arity ELSE 0
<1>1. InCalls(pool, frames, stack) /\ PoolReady(pool)
  BY DEF StackInv, Idle
<1>2. stack.bp \in Nat
  BY <1>1, InnerStack
<1>3. arity \in Nat
  BY RunsReadyCode
<1>4. KeepsBelow(stack, stack', arity)
  OBVIOUS
<1> HIDE DEF arity
<1>5. ASSUME NEW k \in 0..stack.bp, k < stack.bp - arity \/ k = stack.bp
      PROVE  stack'.data[k + 1] = stack.data[k + 1]
  <2>1. k + 1 \in 1..stack.bp + 1 /\ (k + 1 <= stack.bp - arity \/ k + 1 = stack.bp + 1)
    BY <1>2, <1>3, <1>5
  <2> QED BY <2>1, <1>4 DEF KeepsBelow
<1> QED BY <1>5 DEF CallersKept, SameCell, arity

(* A frame that is gone.                                                   *)
LEMMA KeptAtReturn ==
  ASSUME StackInv, frames # << >>, Len(stack'.data) = stack.bp,
         \A i \in 1..stack.bp : stack'.data[i] = stack.data[i]
  PROVE  CallersKept
<1>1. InCalls(pool, frames, stack) /\ PoolReady(pool)
  BY DEF StackInv, Idle
<1>2. stack.bp \in Nat
  BY <1>1, InnerStack
<1>3. ASSUME NEW k \in 0..stack.bp, k < stack.bp
      PROVE  stack'.data[k + 1] = stack.data[k + 1]
  <2>1. k + 1 \in 1..stack.bp
    BY <1>2, <1>3
  <2> QED BY <2>1
<1> QED BY <1>3 DEF CallersKept, SameCell

(* A frame that waits.                                                     *)
LEMMA KeptAtCall ==
  ASSUME StackInv, frames # << >>, \A i \in 1..Len(stack.data) : stack'.data[i] = stack.data[i]
  PROVE  CallersKept
<1>1. InCalls(pool, frames, stack) /\ PoolReady(pool)
  BY DEF StackInv, Idle
<1>2. \A i \in 1..stack.bp + 1 : i \in 1..Len(stack.data)
  BY <1>1, InnerStack
<1> QED BY <1>2, KeptBelow DEF KeepsBelow

(* A line of a program.                                                    *)
LEMMA KeptWhenMoving ==
  ASSUME StackInv, Running, Moves(stack')
  PROVE  CallersKept
<1>1. frames # << >>
  BY DEF Running
<1> QED BY <1>1, KeptBelow DEF Moves

(* The end of a function in C.                                             *)
LEMMA HostReturnsKept ==
  ASSUME StackInv, HostReturns
  PROVE  CallersKept
<1> DEFINE d == Stack!popn(stack, 1)
<1>1. status = "running" /\ InHost /\ frames # << >>
  BY DEF HostReturns, InHost
<1>2. IsStack(stack) /\ stack.bp \in Nat /\ Len(stack.data) = stack.bp + 2
  BY <1>1, HostIsReady
<1>3. /\ IsStack(d) /\ d.bp = stack.bp /\ Len(d.data) = stack.bp + 1
      /\ \A i \in 1..stack.bp + 1 : d.data[i] = stack.data[i]
  <2>1. 1 \in 0..Len(stack.data) /\ Len(stack.data) - 1 = stack.bp + 1
    BY <1>2
  <2> QED BY <1>2, <2>1, Popped
<1>4. CASE Len(frames) = 1
  <2>1. stack' = d
    BY <1>4 DEF HostReturns
  <2> QED BY <1>1, <1>3, <2>1, KeptBelow DEF KeepsBelow
<1>5. CASE Len(frames) # 1
  <2>1. stack' = Stack!popenv(d)
    BY <1>5 DEF HostReturns
  <2> HIDE DEF d
  <2>2. d.bp \in 0..Len(d.data)
    BY <1>2, <1>3
  <2>3. Len(stack'.data) = d.bp /\ \A i \in 1..d.bp : stack'.data[i] = d.data[i]
    BY <1>3, <2>1, <2>2, PoppedEnv
  <2>4. \A i \in 1..stack.bp : i \in 1..stack.bp + 1
    BY <1>2
  <2>5. \A i \in 1..stack.bp : stack'.data[i] = stack.data[i]
    BY <1>3, <2>3, <2>4
  <2> QED BY <1>1, <1>3, <2>3, <2>5, KeptAtReturn
<1> QED BY <1>4, <1>5

(* The end of a program.                                                   *)
LEMMA ReturnKept ==
  ASSUME StackInv, Return
  PROVE  CallersKept
<1>1. Running /\ frames # << >>
  BY DEF Return, Running
<1>2. InCalls(pool, frames, stack) /\ PoolReady(pool) /\ IsStack(stack)
  BY <1>1, RunsReadyCode DEF InCalls
<1>3. stack.bp \in 0..Len(stack.data)
  BY <1>2, InnerStack
<1>4. Len(stack'.data) = stack.bp /\ \A i \in 1..stack.bp : stack'.data[i] = stack.data[i]
  BY <1>2, <1>3, PoppedEnv DEF Return
<1> QED BY <1>1, <1>4, KeptAtReturn

(* A call, by a program or by a function in C.                             *)
LEMMA CallsKept ==
  ASSUME StackInv, CallScript \/ CallSpawn \/ HostCalls
  PROVE  CallersKept
<1>1. frames # << >>
  BY DEF CallScript, CallSpawn, HostCalls, Calls, Runs, Running, InHost
<1>2. IsStack(stack)
  BY <1>1 DEF StackInv, Idle, InCalls
<1> DEFINE e == Stack!pushenv(stack)
<1>3. IsStack(e) /\ Len(e.data) = Len(stack.data) + 1 /\ \A i \in 1..Len(stack.data) : e.data[i] = stack.data[i]
  BY <1>2, PushedEnv
<1>4. CASE CallScript \/ HostCalls
  <2>1. stack' = e
    BY <1>4 DEF CallScript, HostCalls
  <2> QED BY <1>1, <1>3, <2>1, KeptAtCall
<1>5. CASE CallSpawn
  <2>1. stack' = Stack!push(e, Effect.value)
    BY <1>5 DEF CallSpawn
  <2> HIDE DEF e
  <2>2. \A i \in 1..Len(e.data) : stack'.data[i] = e.data[i]
    BY <1>3, <2>1, Pushed
  <2>3. \A i \in 1..Len(stack.data) : i \in 1..Len(stack.data) + 1
    <3>1. Len(stack.data) \in Nat
      BY <1>2, AppendIsSeq DEF IsStack
    <3> QED BY <3>1
  <2> QED BY <1>1, <1>3, <2>2, <2>3, KeptAtCall
<1> QED BY <1>4, <1>5

(* The stack is left alone by the other actions.                           *)
LEMMA StaysKept ==
  ASSUME UNCHANGED stack
  PROVE  CallersKept
BY DEF CallersKept, SameCell

(* Whatever a program does, and however deep it is called, the cells of    *)
(* its callers but for its arguments stay as they are, and the base        *)
(* pointer it saved as long as it runs (run_instruction(),                 *)
(* surgescript_stack_poke()).                                              *)
THEOREM CallersAreProtected == Spec /\ Verified => FramesProtected
<1>1. ASSUME StackInv, [Next]_vars
      PROVE  CallersKept
  <2>1. CASE PushPop
    BY <1>1, <2>1, PushPopMoves, KeptWhenMoving
  <2>2. CASE PopTemp
    BY <1>1, <2>2, PopTempMoves, KeptWhenMoving
  <2>3. CASE CallScript \/ CallSpawn \/ HostCalls
    BY <1>1, <2>3, CallsKept
  <2>4. CASE Return
    BY <1>1, <2>4, ReturnKept
  <2>5. CASE HostReturns
    BY <1>1, <2>5, HostReturnsKept
  <2>6. CASE HostBegins
    BY <2>6 DEF HostBegins, CallersKept
  <2>7. CASE Compile \/ HostSkips \/ Load \/ Exchange \/ Compute \/ Compare \/ Jump \/ NoOperation
             \/ Allocate \/ StoreHeap \/ SetState \/ CallNative \/ Fault \/ Done \/ UNCHANGED vars
    <3>1. UNCHANGED stack
      BY <2>7 DEF Compile, HostSkips, Load, Exchange, Compute, Compare, Jump, NoOperation,
           Allocate, StoreHeap, SetState, CallNative, Fault, Done, vars
    <3> QED BY <3>1, StaysKept
  <2> QED BY <1>1, <2>1, <2>2, <2>3, <2>4, <2>5, <2>6, <2>7 DEF Next, Step
<1> QED BY <1>1, FramesLieOnEachOther, PTL DEF Spec, FramesProtected
================================================================================
