---------------------------- MODULE IOHub_proofs ----------------------------
(***************************************************************************)
(* Proofs about IOHub for any number of devices and LDoms, any window      *)
(* sizes and any addresses that LDoms choose.                              *)
(***************************************************************************)
EXTENDS IOHub, TLAPS

----------------------------------------------------------------------------
(* Arithmetic.                                                             *)

LEMMA ModSmall ==
  ASSUME NEW x \in Nat, NEW w \in Nat, x < w
  PROVE  x % w = x
OBVIOUS

LEMMA MulMono ==
  ASSUME NEW k \in Nat, NEW n \in Nat, NEW m \in Nat, k <= n
  PROVE  k * m <= n * m
OBVIOUS

LEMMA MulSucc ==
  ASSUME NEW k \in Nat, NEW m \in Nat
  PROVE  (k + 1) * m = k * m + m
OBVIOUS

LEMMA ModAdd ==
  ASSUME NEW x \in Nat, NEW y \in Nat, x % 4 = 0, y % 4 = 0
  PROVE  (x + y) % 4 = 0
OBVIOUS

LEMMA ModType ==
  ASSUME NEW x \in Int, NEW w \in Nat, w > 0
  PROVE  x % w \in Nat
OBVIOUS

LEMMA Width == W \in Nat /\ UniqBase + 4 <= W /\ MaxSize < W /\ 4 < W
<1>1. NDev * MaxSize \in Nat /\ 1 * MaxSize <= NDev * MaxSize
  BY MulMono, ConstantAssumption
<1> QED BY <1>1, ConstantAssumption

LEMMA GuestValue ==
  ASSUME NEW v \in GuestValues
  PROVE  v \in 0 .. W - 1
<1>1. GuestBases \subseteq 2 .. W - 3
  BY ConstantAssumption
<1>2. W \in Nat /\ 4 < W
  BY Width
<1>3. CASE v \in GuestBases
  BY <1>1, <1>2, <1>3
<1>4. CASE v \in {0, 1, W - 2, Probe}
  BY <1>2, <1>4 DEF Probe
<1> QED BY <1>3, <1>4 DEF GuestValues

\* The masks at the values that get through, and at aligned addresses.
LEMMA Masks ==
  /\ Base(0) = 0 /\ Base(1) = 0 /\ Base(W - 2) = W - 2 /\ Base(Probe) = W - 2
  /\ Masked(0) = 0 /\ Masked(1) = 0 /\ Top = W - 4
  /\ \A v \in Nat : v % 2 = 0 => Base(v) = v
  /\ \A v \in Nat : v % 4 = 0 => Masked(v) = v /\ v % 2 = 0
<1>1. W \in Nat /\ 4 < W /\ W % 4 = 0
  BY Width, ConstantAssumption
<1>2. Base(0) = 0 /\ Base(1) = 0 /\ Masked(0) = 0 /\ Masked(1) = 0
  BY DEF Base, Masked
<1>3. Base(W - 2) = W - 2 /\ Base(Probe) = W - 2 /\ Top = W - 4
  BY <1>1 DEF Base, Probe, Top, Masked
<1>4. \A v \in Nat : v % 2 = 0 => Base(v) = v
  BY DEF Base
<1>5. \A v \in Nat : v % 4 = 0 => Masked(v) = v /\ v % 2 = 0
  BY DEF Masked
<1> QED BY <1>2, <1>3, <1>4, <1>5

\* What an LDom writes is an even address within the register, or gets through.
LEMMA GuestEven ==
  ASSUME NEW v \in GuestValues
  PROVE  ~Plain(v) => v \in 1 .. W - 3 /\ v % 2 = 0
<1>1. CASE v \in GuestBases
  BY <1>1, Width, ConstantAssumption
<1>2. CASE v \in {0, 1, W - 2, Probe}
  BY <1>2, Masks DEF Plain
<1> QED BY <1>1, <1>2 DEF GuestValues

----------------------------------------------------------------------------
(* Windows and decoders.                                                   *)

\* The windows given out so far lie one after the other between UniqBase and
\* nextBase, aligned as the device's mask asks.
Windows ==
  /\ UniqBase <= nextBase /\ nextBase <= UniqBase + sized * MaxSize
  /\ nextBase % 4 = 0 /\ \A d \in Devices : uniqBAR[d] % 4 = 0
  /\ \A d \in Devices : sized < d => uniqBAR[d] = 0
  /\ \A d \in Devices : d <= sized =>
       UniqBase <= uniqBAR[d] /\ uniqBAR[d] + Size[d] <= nextBase
  /\ \A d, e \in Devices : d < e /\ e <= sized =>
       uniqBAR[d] + Size[d] <= uniqBAR[e]

\* The values that reach device d, and the windows that it may then decode.
Sent(d) == {0, 1, W - 2, Probe, uniqBAR[d]}
Decodable(d) == {0, Top, uniqBAR[d]}

\* A device decodes nothing, its own window or the top of the address space; a
\* refused write carries a value that gets through or the device's own window.
Decoding ==
  /\ \A d \in Devices : barAddr[d] \in Decodable(d)
  /\ \A l \in LDoms : pend[l] # NoWrite =>
       /\ pend[l].dev \in Devices
       /\ pend[l].val \in Sent(pend[l].dev)
  /\ sized < NDev => /\ \A d \in Devices : barAddr[d] = 0
                     /\ \A l \in LDoms : pend[l] = NoWrite

HubInv == TypeOK /\ Windows /\ Decoding

LEMMA RangeType ==
  ASSUME HubInv, NEW d \in Devices, NEW v \in 0 .. W - 1
  PROVE  RangeOf(d, v) \in Range
<1>1. (uniqBAR[d] - v) % W \in Nat
  <2>1. uniqBAR[d] - v \in Int /\ W > 0 /\ W \in Nat
    BY Width DEF HubInv, TypeOK
  <2> QED BY <2>1, ModType
<1>2. Base(v) \in Nat
  BY Width DEF Base
<1> QED BY <1>1, <1>2, ConstantAssumption DEF RangeOf, Range, Devices

\* The hook keeps the types of what it writes.
LEMMA HookTypes ==
  ASSUME HubInv, NEW l \in LDoms, NEW d \in Devices, NEW v \in 0 .. W - 1,
         HookWrite(l, d, v)
  PROVE  /\ userBAR' \in [Devices -> 0 .. W - 2]
         /\ pciIoShadow' \in [LDoms -> SUBSET Range]
         /\ writer' \in [Devices -> LDoms \cup {NoLDom}]
         /\ clash' \subseteq LDoms
<1>1. CASE Plain(v)
  BY <1>1 DEF HookWrite, HubInv, TypeOK
<1>2. CASE ~Plain(v)
  <2>1. v \in 1 .. W - 2
    BY <1>2, Masks, Width DEF Plain, Probe
  <2>2. RangeOf(d, v) \in Range
    BY RangeType
  <2>3. Insert(pciIoShadow[l], RangeOf(d, v)) \in SUBSET Range
    BY <2>2 DEF Insert, HubInv, TypeOK
  <2>4. pciIoShadow' \in [LDoms -> SUBSET Range]
    BY <1>2, <2>3 DEF HookWrite, HubInv, TypeOK
  <2>5. userBAR' \in [Devices -> 0 .. W - 2]
    <3>1. userBAR' = [userBAR EXCEPT ![d] = v]
      BY <1>2 DEF HookWrite
    <3>2. v \in 0 .. W - 2 /\ userBAR \in [Devices -> 0 .. W - 2]
      BY <2>1, Width DEF HubInv, TypeOK
    <3> QED BY <3>1, <3>2
  <2>6. writer' \in [Devices -> LDoms \cup {NoLDom}]
    BY <1>2 DEF HookWrite, HubInv, TypeOK
  <2>7. clash' \subseteq LDoms
    BY <1>2 DEF HookWrite, HubInv, TypeOK
  <2> QED BY <2>4, <2>5, <2>6, <2>7
<1> QED BY <1>1, <1>2

\* After startup every device has a window within the register's width.
LEMMA UniqType ==
  ASSUME HubInv, sized = NDev, NEW d \in Devices
  PROVE  /\ uniqBAR[d] \in 1 .. W - 3 /\ ~Plain(uniqBAR[d])
         /\ Masked(uniqBAR[d]) = uniqBAR[d] /\ uniqBAR[d] % 2 = 0
<1>1. uniqBAR[d] \in 0 .. W - 2
  BY DEF HubInv, TypeOK
<1>2. UniqBase <= uniqBAR[d] /\ UniqBase \in Nat \ {0}
  BY ConstantAssumption DEF HubInv, Windows, Devices
<1>3. uniqBAR[d] % 4 = 0 /\ uniqBAR[d] \in Nat /\ W \in Nat /\ W % 4 = 0
  BY <1>1, Width, ConstantAssumption DEF HubInv, Windows
<1>4. Masked(uniqBAR[d]) = uniqBAR[d] /\ uniqBAR[d] % 2 = 0
  BY <1>3, Masks
<1>5. Base(uniqBAR[d]) = uniqBAR[d]
  BY <1>3, <1>4, Masks
<1>6. uniqBAR[d] # W - 2
  BY <1>3
<1> QED BY <1>1, <1>2, <1>4, <1>5, <1>6, Width DEF Plain

\* What the device does with the value that the hook sends on.
LEMMA ConfigKeeps ==
  ASSUME HubInv, sized = NDev, NEW d \in Devices,
         NEW v \in Sent(d), WriteConfig(d, v)
  PROVE  /\ baseAddr' \in [Devices -> 0 .. W - 1]
         /\ barAddr' \in [Devices -> 0 .. W - 2]
         /\ \A e \in Devices : barAddr'[e] \in Decodable(e)
<1> DEFINE bar == IF v = Probe \/ Masked(v) = 0 THEN barAddr[d] ELSE Masked(v)
<1>1. uniqBAR[d] \in 1 .. W - 3 /\ Masked(uniqBAR[d]) = uniqBAR[d]
  BY UniqType
<1>2. Size[d] \in 1 .. MaxSize /\ MaxSize < W
  <2>1. 1 * MaxSize <= NDev * MaxSize
    BY MulMono, ConstantAssumption
  <2> QED BY <2>1, ConstantAssumption
<1>3. v # Probe => Masked(v) \in {0, W - 4, uniqBAR[d]}
  BY <1>1, Masks DEF Sent, Top
<1>4. (IF v = Probe THEN W - Size[d] ELSE Masked(v)) \in 0 .. W - 1
  <2>1. CASE v = Probe
    BY <1>2, <2>1, Width, ConstantAssumption
  <2>2. CASE v # Probe
    BY <1>1, <1>3, <2>2, Width
  <2> QED BY <2>1, <2>2
<1>5. bar \in Decodable(d)
  BY <1>3, Masks DEF HubInv, Decoding, Decodable
<1>6. barAddr' = [barAddr EXCEPT ![d] = bar]
  BY DEF WriteConfig, HubInv, TypeOK
<1>7. barAddr' \in [Devices -> 0 .. W - 2]
  <2>1. bar \in 0 .. W - 2
    BY <1>1, <1>5, Masks, Width DEF Decodable
  <2> HIDE DEF bar
  <2> QED BY <1>6, <2>1 DEF HubInv, TypeOK
<1>8. \A e \in Devices : barAddr'[e] \in Decodable(e)
  <2> HIDE DEF bar
  <2> QED BY <1>5, <1>6 DEF HubInv, TypeOK, Decoding
<1> QED BY <1>4, <1>7, <1>8 DEF WriteConfig, HubInv, TypeOK

LEMMA HookedValue ==
  ASSUME HubInv, sized = NDev, NEW d \in Devices, NEW v \in 0 .. W - 1
  PROVE  Hooked(d, v) \in Sent(d) /\ Hooked(d, v) \in 0 .. W - 1
<1>1. CASE Plain(v)
  <2>1. v \in {0, 1, W - 2, Probe}
    BY <1>1, Width, ConstantAssumption DEF Plain, Base, Probe
  <2> QED BY <1>1, <2>1 DEF Hooked, Sent
<1>2. CASE ~Plain(v)
  BY <1>2, UniqType, Width DEF Hooked, Sent
<1> QED BY <1>1, <1>2

LEMMA ProgTypes ==
  ASSUME HubInv, NEW l \in LDoms, NEW d \in Devices, NEW v \in 0 .. W - 1,
         Programmed(l, d, v)
  PROVE  /\ prog' \in [LDoms -> [Devices -> 0 .. W - 2]]
         /\ writes' \in 0 .. MaxWrites
         /\ \A k \in LDoms, c \in Devices :
              \/ prog'[k][c] = prog[k][c] \/ prog'[k][c] = 0
              \/ k = l /\ c = d /\ prog'[k][c] = v /\ ~Plain(v)
<1>1. prog \in [LDoms -> [Devices -> 0 .. W - 2]] /\ 0 \in 0 .. W - 2
  BY Width DEF HubInv, TypeOK
<1>2. writes' \in 0 .. MaxWrites
  BY ConstantAssumption DEF Programmed, HubInv, TypeOK
<1>3. CASE Base(v) = W - 2
  BY <1>1, <1>3, <1>2 DEF Programmed
<1>4. CASE Base(v) # W - 2 /\ Base(v) = 0
  <2>1. prog' = [prog EXCEPT ![l][d] = 0]
    BY <1>4 DEF Programmed
  <2> QED BY <1>1, <1>2, <2>1
<1>5. CASE Base(v) # W - 2 /\ Base(v) # 0
  <2>1. prog' = [prog EXCEPT ![l][d] = v]
    BY <1>5 DEF Programmed
  <2>2. v \in 0 .. W - 2 /\ ~Plain(v)
    BY <1>5, Masks, Width DEF Plain, Probe
  <2> QED BY <1>1, <1>2, <2>1, <2>2
<1> QED BY <1>3, <1>4, <1>5

LEMMA StartupKeeps ==
  ASSUME HubInv, Startup PROVE HubInv'
<1> DEFINE d == sized + 1
<1>1. d \in Devices /\ sized \in Nat /\ sized < NDev /\ Size[d] \in 1 .. MaxSize
  BY ConstantAssumption DEF Startup, HubInv, TypeOK, Devices
<1>2. (sized + 1) * MaxSize = sized * MaxSize + MaxSize
  BY <1>1, MulSucc, ConstantAssumption
<1>3. (sized + 1) * MaxSize <= NDev * MaxSize
  BY <1>1, MulMono, ConstantAssumption
<1>4. nextBase \in Nat /\ nextBase' = nextBase + Size[d] /\ sized' = d
  BY DEF Startup, HubInv, TypeOK
<1>5. nextBase' <= UniqBase + sized' * MaxSize
  <2>1. sized * MaxSize \in Nat /\ sized' * MaxSize = sized * MaxSize + MaxSize
    BY <1>1, <1>2, <1>4, ConstantAssumption
  <2> QED BY <1>1, <1>4, <2>1, ConstantAssumption DEF HubInv, Windows
<1>6. nextBase <= W - 2 /\ UniqBase <= nextBase
  <2>1. sized * MaxSize \in Nat /\ NDev * MaxSize \in Nat /\ sized * MaxSize <= NDev * MaxSize
    BY <1>1, MulMono, ConstantAssumption
  <2>2. UniqBase <= nextBase
    BY DEF HubInv, Windows
  <2> QED BY <1>4, <2>1, <2>2, ConstantAssumption DEF HubInv, Windows
<1>7. \A e \in Devices : uniqBAR'[e] = IF e = d THEN nextBase ELSE uniqBAR[e]
  BY <1>1 DEF Startup, HubInv, TypeOK
<1>8. Windows'
  <2>1. \A e \in Devices : e \in Nat /\ Size[e] \in Nat /\ uniqBAR[e] \in Nat
    <3>1. \A e \in Devices : e \in Nat /\ Size[e] \in 1 .. MaxSize
      BY ConstantAssumption DEF Devices
    <3>2. \A e \in Devices : uniqBAR[e] \in 0 .. W - 2
      BY DEF HubInv, TypeOK
    <3> QED BY <3>1, <3>2, Width, ConstantAssumption
  <2>2. \A e \in Devices : sized' < e => uniqBAR'[e] = 0
    BY <1>1, <1>4, <1>7, <2>1 DEF HubInv, Windows
  <2>3. \A e \in Devices : e <= sized' =>
          UniqBase <= uniqBAR'[e] /\ uniqBAR'[e] + Size[e] <= nextBase'
    <3> SUFFICES ASSUME NEW e \in Devices, e <= sized'
                 PROVE  UniqBase <= uniqBAR'[e] /\ uniqBAR'[e] + Size[e] <= nextBase'
      OBVIOUS
    <3>1. CASE e = d
      BY <1>1, <1>4, <1>6, <1>7, <3>1
    <3>2. CASE e # d
      <4>1. e <= sized /\ uniqBAR'[e] = uniqBAR[e]
        BY <1>1, <1>4, <1>7, <2>1, <3>2
      <4>2. UniqBase <= uniqBAR[e] /\ uniqBAR[e] + Size[e] <= nextBase
        BY <4>1 DEF HubInv, Windows
      <4> QED BY <1>1, <1>4, <2>1, <4>1, <4>2
    <3> QED BY <3>1, <3>2
  <2>4. \A e, f \in Devices : e < f /\ f <= sized' =>
          uniqBAR'[e] + Size[e] <= uniqBAR'[f]
    <3> SUFFICES ASSUME NEW e \in Devices, NEW f \in Devices, e < f, f <= sized'
                 PROVE  uniqBAR'[e] + Size[e] <= uniqBAR'[f]
      OBVIOUS
    <3>1. e <= sized /\ uniqBAR'[e] = uniqBAR[e]
      BY <1>1, <1>4, <1>7, <2>1
    <3>2. CASE f = d
      BY <1>7, <3>1, <3>2 DEF HubInv, Windows
    <3>3. CASE f # d
      <4>1. f <= sized /\ uniqBAR'[f] = uniqBAR[f]
        BY <1>1, <1>4, <1>7, <2>1, <3>3
      <4> QED BY <3>1, <4>1 DEF HubInv, Windows
    <3> QED BY <3>2, <3>3
  <2>5. UniqBase <= nextBase'
    BY <1>1, <1>4, <1>6, ConstantAssumption
  <2>6. nextBase' % 4 = 0 /\ \A e \in Devices : uniqBAR'[e] % 4 = 0
    <3>1. nextBase % 4 = 0 /\ (\A e \in Devices : uniqBAR[e] % 4 = 0) /\ Size[d] % 4 = 0
      BY <1>1, ConstantAssumption DEF HubInv, Windows
    <3>2. (nextBase + Size[d]) % 4 = 0
      BY <1>1, <1>4, <3>1, ModAdd, ConstantAssumption
    <3> QED BY <1>4, <1>7, <3>1, <3>2
  <2> QED BY <1>5, <2>2, <2>3, <2>4, <2>5, <2>6 DEF Windows
<1>9. TypeOK'
  BY <1>1, <1>4, <1>6, ConstantAssumption DEF Startup, HubInv, TypeOK, histVars
<1>10. Decoding'
  <2>1. /\ \A e \in Devices : barAddr[e] = 0 /\ barAddr' = barAddr
        /\ \A l \in LDoms : pend[l] = NoWrite /\ pend' = pend
    BY <1>1 DEF Startup, HubInv, Decoding
  <2> QED BY <2>1 DEF Decoding, Decodable
<1> QED BY <1>8, <1>9, <1>10 DEF HubInv

LEMMA HubInvariant == Spec => []HubInv
<1>1. Init => HubInv
  <2> SUFFICES ASSUME Init PROVE HubInv
    OBVIOUS
  <2>1. TypeOK
    BY Width, ConstantAssumption DEF Init, TypeOK, NoWrite, NoLDom
  <2>2. Windows
    BY ConstantAssumption DEF Init, Windows, Devices
  <2>3. Decoding
    BY DEF Init, Decoding, Decodable
  <2> QED BY <2>1, <2>2, <2>3 DEF HubInv
<1>2. HubInv /\ [Next]_vars => HubInv'
  <2> SUFFICES ASSUME HubInv, [Next]_vars PROVE HubInv'
    OBVIOUS
  <2>1. CASE Startup
    BY <2>1, StartupKeeps
  <2>2. ASSUME NEW l \in LDoms, NEW m \in SUBSET Devices, SetMask(l, m)
        PROVE  HubInv'
    BY <2>2 DEF SetMask, HubInv, TypeOK, Windows, Decoding, Decodable, Sent, hubVars,
                devVars, histVars
  <2>3. ASSUME NEW l \in LDoms, NEW d \in Devices,
               NEW v \in GuestValues, WriteBar(l, d, v)
        PROVE  HubInv'
    <3>1. v \in 0 .. W - 1 /\ sized = NDev
      BY <2>3, GuestValue DEF WriteBar
    <3>2. Windows'
      BY <2>3 DEF WriteBar, HubInv, Windows
    <3>3. Hooked(d, v) \in Sent(d)
      BY <3>1, HookedValue
    <3>4. /\ baseAddr' \in [Devices -> 0 .. W - 1]
          /\ barAddr' \in [Devices -> 0 .. W - 2]
          /\ \A e \in Devices : barAddr'[e] \in Decodable(e)
      BY <2>3, <3>1, <3>3, ConfigKeeps DEF WriteBar
    <3>5. Decoding'
      BY <2>3, <3>1, <3>4, ConstantAssumption
         DEF WriteBar, HubInv, Decoding, Decodable, Sent
    <3>6. /\ prog' \in [LDoms -> [Devices -> 0 .. W - 2]]
          /\ writes' \in 0 .. MaxWrites
      BY <2>3, <3>1, ProgTypes DEF WriteBar
    <3>7. TypeOK'
      BY <2>3, <3>1, <3>4, <3>6, HookTypes DEF WriteBar, HubInv, TypeOK
    <3> QED BY <3>2, <3>5, <3>7 DEF HubInv
  <2>4. ASSUME NEW l \in LDoms, NEW d \in Devices,
               NEW v \in GuestValues, WriteBarRefused(l, d, v)
        PROVE  HubInv'
    <3>1. v \in 0 .. W - 1 /\ sized = NDev
      BY <2>4, GuestValue DEF WriteBarRefused
    <3>2. Windows'
      BY <2>4 DEF WriteBarRefused, HubInv, Windows
    <3>3. Hooked(d, v) \in Sent(d) /\ Hooked(d, v) \in 0 .. W - 1
      BY <3>1, HookedValue
    <3>4. pend' = [pend EXCEPT ![l] = [dev |-> d, val |-> Hooked(d, v)]]
      BY <2>4 DEF WriteBarRefused
    <3>5. Decoding'
      BY <2>4, <3>1, <3>3, <3>4
         DEF WriteBarRefused, HubInv, Decoding, Decodable, Sent, TypeOK
    <3>6. /\ prog' \in [LDoms -> [Devices -> 0 .. W - 2]]
          /\ writes' \in 0 .. MaxWrites
      BY <2>4, <3>1, ProgTypes DEF WriteBarRefused
    <3>7. pend' \in [LDoms -> [dev : 0 .. NDev, val : 0 .. W - 1]]
      BY <3>3, <3>4, ConstantAssumption DEF HubInv, TypeOK, Devices
    <3>8. TypeOK'
      BY <2>4, <3>1, <3>6, <3>7, HookTypes DEF WriteBarRefused, HubInv, TypeOK
    <3> QED BY <3>2, <3>5, <3>8 DEF HubInv
  <2>5. ASSUME NEW l \in LDoms, RetryTaken(l) PROVE HubInv'
    <3> DEFINE d == pend[l].dev  v == pend[l].val
    <3>1. d \in Devices /\ v \in 0 .. W - 1 /\ sized = NDev
      BY <2>5, ConstantAssumption DEF RetryTaken, HubInv, Decoding, TypeOK
    <3>2. Windows'
      BY <2>5 DEF RetryTaken, HubInv, Windows
    <3>3. Hooked(d, v) \in Sent(d)
      BY <3>1, HookedValue
    <3>4. /\ baseAddr' \in [Devices -> 0 .. W - 1]
          /\ barAddr' \in [Devices -> 0 .. W - 2]
          /\ \A e \in Devices : barAddr'[e] \in Decodable(e)
      BY <2>5, <3>1, <3>3, ConfigKeeps DEF RetryTaken
    <3>5. pend' = [pend EXCEPT ![l] = NoWrite]
      BY <2>5 DEF RetryTaken
    <3>6. Decoding'
      BY <2>5, <3>1, <3>4, <3>5
         DEF RetryTaken, HubInv, Decoding, Decodable, Sent, TypeOK
    <3>7. pend' \in [LDoms -> [dev : 0 .. NDev, val : 0 .. W - 1]]
      BY <3>5, ConstantAssumption DEF HubInv, TypeOK, NoWrite
    <3>8. TypeOK'
      BY <2>5, <3>1, <3>4, <3>7, HookTypes DEF RetryTaken, HubInv, TypeOK
    <3> QED BY <3>2, <3>6, <3>8 DEF HubInv
  <2>6. ASSUME NEW l \in LDoms, RetryRefused(l) PROVE HubInv'
    <3> DEFINE d == pend[l].dev  v == pend[l].val
    <3>1. d \in Devices /\ v \in 0 .. W - 1
      BY <2>6 DEF RetryRefused, HubInv, Decoding, TypeOK
    <3>2. TypeOK'
      BY <2>6, <3>1, HookTypes DEF RetryRefused, HubInv, TypeOK
    <3> QED BY <2>6, <3>2 DEF RetryRefused, HubInv, Windows, Decoding, Decodable, Sent
  <2>7. ASSUME NEW l \in LDoms, RetryHidden(l) PROVE HubInv'
    <3>1. pend' = [pend EXCEPT ![l] = NoWrite]
      BY <2>7 DEF RetryHidden
    <3>2. TypeOK'
      BY <2>7, <3>1, ConstantAssumption
         DEF RetryHidden, HubInv, TypeOK, NoWrite, hubVars, devVars, histVars
    <3>3. Windows'
      BY <2>7 DEF RetryHidden, HubInv, Windows, hubVars
    <3>4. Decoding'
      BY <2>7, <3>1
         DEF RetryHidden, HubInv, Decoding, Decodable, Sent, TypeOK, hubVars, devVars
    <3> QED BY <3>2, <3>3, <3>4 DEF HubInv
  <2>8. CASE UNCHANGED vars
    BY <2>8 DEF vars, HubInv, TypeOK, Windows, Decoding, Decodable, Sent
  <2> QED
    BY <2>1, <2>2, <2>3, <2>4, <2>5, <2>6, <2>7, <2>8 DEF Next, GuestWrite
<1> QED BY <1>1, <1>2, PTL DEF Spec

\* The hub's, the devices' and the LDoms' state keep their types; in particular
\* a unique window always fits the register.
THEOREM TypeCorrect == Spec => []TypeOK
<1>1. HubInv => TypeOK
  BY DEF HubInv
<1> QED BY <1>1, HubInvariant, PTL

\* For any number of devices and LDoms, whatever is written, refused and
\* retried, two devices decode a common address only when both were sent to the
\* top of the address space.
THEOREM Disjoint == Spec => []DecodeDisjoint
<1>1. HubInv => DecodeDisjoint
  <2> SUFFICES ASSUME HubInv, NEW d \in Devices, NEW e \in Devices, d # e,
                      barAddr[d] # 0, barAddr[e] # 0
               PROVE  \/ barAddr[d] = Top /\ barAddr[e] = Top
                      \/ barAddr[d] + Size[d] <= barAddr[e]
                      \/ barAddr[e] + Size[e] <= barAddr[d]
    BY DEF DecodeDisjoint
  <2>1. /\ barAddr[d] \in {Top, uniqBAR[d]} /\ barAddr[e] \in {Top, uniqBAR[e]}
        /\ sized = NDev
    BY ConstantAssumption DEF HubInv, Decoding, Decodable, TypeOK
  <2>2. d < e \/ e < d
    BY ConstantAssumption DEF Devices
  <2>3. \A c \in Devices : uniqBAR[c] + Size[c] <= Top
    <3>1. nextBase <= W - 4
      <4>1. nextBase <= UniqBase + NDev * MaxSize /\ nextBase \in Nat
        BY <2>1 DEF HubInv, Windows, TypeOK
      <4>2. NDev * MaxSize \in Nat
        BY ConstantAssumption
      <4> QED BY <4>1, <4>2, ConstantAssumption
    <3>2. nextBase \in Nat /\ \A c \in Devices : uniqBAR[c] \in Nat /\ Size[c] \in Nat
      BY Width, ConstantAssumption DEF HubInv, TypeOK
    <3>3. \A c \in Devices : uniqBAR[c] + Size[c] <= nextBase
      BY <2>1, ConstantAssumption DEF HubInv, Windows, Devices
    <3> QED BY <3>1, <3>2, <3>3, Masks, Width
  <2>4. d < e => uniqBAR[d] + Size[d] <= uniqBAR[e]
    BY <2>1, ConstantAssumption DEF HubInv, Windows, Devices
  <2>5. e < d => uniqBAR[e] + Size[e] <= uniqBAR[d]
    BY <2>1, ConstantAssumption DEF HubInv, Windows, Devices
  <2> QED BY <2>1, <2>2, <2>3, <2>4, <2>5
<1> QED BY <1>1, HubInvariant, PTL

----------------------------------------------------------------------------
(* The LDoms' maps.                                                        *)

\* An address that the hub enters: even, and within the register.
Even(b) == b \in 1 .. W - 3 /\ b % 2 = 0

\* Every entry is that of some device at an even address; the entries of one
\* LDom are disjoint; and what an LDom without a clash has programmed has an
\* entry.
Entries ==
  \A l \in LDoms : \A e \in pciIoShadow[l] :
    /\ \E d \in Devices : Even(e.base) /\ e = RangeOf(d, e.base)
    /\ \A f \in pciIoShadow[l] : Overlap(e, f) => e = f

Entered(S, d, b) == Even(b) /\ RangeOf(d, b) \in S

Recorded ==
  \A l \in LDoms \ clash : \A d \in Devices :
    prog[l][d] # 0 => Entered(pciIoShadow[l], d, prog[l][d])

Unused ==
  sized < NDev => /\ \A l \in LDoms : pciIoShadow[l] = {}
                  /\ \A l \in LDoms, d \in Devices : prog[l][d] = 0

ShadowInv == Entries /\ Recorded /\ Unused

LEMMA EntryShape ==
  ASSUME HubInv, NEW d \in Devices, NEW b, Even(b)
  PROVE  /\ RangeOf(d, b).base = b /\ RangeOf(d, b).size = Size[d]
         /\ b \in Nat /\ uniqBAR[d] \in Nat /\ Size[d] \in Nat /\ Size[d] > 0
<1>1. b \in Nat /\ Base(b) = b
  BY Masks, Width DEF Even
<1>2. uniqBAR[d] \in Nat
  BY Width DEF HubInv, TypeOK
<1>3. Size[d] \in 1 .. MaxSize
  BY ConstantAssumption
<1> QED BY <1>1, <1>2, <1>3, ConstantAssumption DEF RangeOf

\* The offset of an entry that is not above the window is the distance to it,
\* without wrapping.
LEMMA Offset ==
  ASSUME HubInv, NEW d \in Devices, NEW b, Even(b), b <= uniqBAR[d]
  PROVE  RangeOf(d, b).off = uniqBAR[d] - b
<1>1. uniqBAR[d] \in 0 .. W - 2 /\ W \in Nat /\ b \in Nat
  BY Width, EntryShape DEF HubInv, TypeOK
<1>2. uniqBAR[d] - b \in Nat /\ uniqBAR[d] - b < W
  BY <1>1
<1>3. (uniqBAR[d] - b) % W = uniqBAR[d] - b
  BY <1>1, <1>2, ModSmall
<1> QED BY <1>3 DEF RangeOf

\* The hook keeps the entries in order, and enters what it is given unless it
\* notes a clash.
LEMMA HookKeeps ==
  ASSUME HubInv, Entries, NEW l \in LDoms, NEW d \in Devices, NEW v,
         ~Plain(v) => Even(v),
         HookWrite(l, d, v), uniqBAR' = uniqBAR
  PROVE  /\ Entries'
         /\ \A k \in LDoms : pciIoShadow[k] \subseteq pciIoShadow'[k]
         /\ clash \subseteq clash'
         /\ ~Plain(v) /\ l \notin clash' => RangeOf(d, v) \in pciIoShadow'[l]
<1>1. CASE Plain(v)
  BY <1>1 DEF HookWrite, Entries, RangeOf
<1>2. CASE ~Plain(v)
  <2> DEFINE new == RangeOf(d, v)  S == pciIoShadow[l]
  <2>1. Even(v) /\ new.base = v
    BY <1>2, EntryShape
  <2>2. pciIoShadow' = [pciIoShadow EXCEPT ![l] = Insert(S, new)]
    BY <1>2 DEF HookWrite
  <2>3. pciIoShadow'[l] = Insert(S, new) /\ \A k \in LDoms : k # l => pciIoShadow'[k] = pciIoShadow[k]
    BY <2>2 DEF HubInv, TypeOK
  <2>4. clash' = IF \E f \in S : Overlap(new, f) /\ f # new
                   THEN clash \cup {l} ELSE clash
    BY <1>2 DEF HookWrite
  <2>5. \A e \in Devices : \A w : RangeOf(e, w)' = RangeOf(e, w)
    BY DEF RangeOf
  <2>6. CASE \E f \in S : Overlap(new, f)
    <3>1. pciIoShadow'[l] = S
      BY <2>3, <2>6 DEF Insert
    <3>2. l \notin clash' => new \in S
      BY <2>4, <2>6
    <3>3. \A k \in LDoms : pciIoShadow'[k] = pciIoShadow[k]
      BY <2>3, <3>1
    <3>4. Entries'
      BY <2>5, <3>3 DEF Entries, RangeOf, Overlap
    <3> QED BY <2>4, <3>1, <3>2, <3>3, <3>4
  <2>7. CASE ~\E f \in S : Overlap(new, f)
    <3>1. pciIoShadow'[l] = S \cup {new}
      BY <2>3, <2>7 DEF Insert
    <3>2. \A f \in S : ~Overlap(new, f) /\ ~Overlap(f, new)
      BY <2>7 DEF Overlap
    <3>3. ASSUME NEW k \in LDoms, NEW e \in pciIoShadow'[k]
          PROVE  /\ \E c \in Devices : Even(e.base) /\ e = RangeOf(c, e.base)
                 /\ \A f \in pciIoShadow'[k] : Overlap(e, f) => e = f
      <4>1. CASE k # l
        BY <2>3, <3>3, <4>1 DEF Entries
      <4>2. CASE k = l
        <5>1. \E c \in Devices : Even(e.base) /\ e = RangeOf(c, e.base)
          BY <2>1, <3>1, <3>3, <4>2 DEF Entries
        <5>2. \A f \in pciIoShadow'[k] : Overlap(e, f) => e = f
          BY <3>1, <3>2, <3>3, <4>2 DEF Entries
        <5> QED BY <5>1, <5>2
      <4> QED BY <4>1, <4>2
    <3>4. Entries'
      BY <3>3 DEF Entries, RangeOf, Overlap
    <3> QED BY <2>3, <2>4, <3>1, <3>4
  <2> QED BY <2>6, <2>7
<1> QED BY <1>1, <1>2

\* What the hook records for its LDom, and leaves of the others.
LEMMA HookRecords ==
  ASSUME HubInv, ShadowInv, NEW l \in LDoms, NEW d \in Devices, NEW v,
         ~Plain(v) => Even(v),
         HookWrite(l, d, v), uniqBAR' = uniqBAR
  PROVE  /\ Entries'
         /\ \A k \in LDoms \ clash' : \A c \in Devices :
              prog[k][c] # 0 => Entered(pciIoShadow'[k], c, prog[k][c])
         /\ ~Plain(v) /\ l \notin clash' => RangeOf(d, v) \in pciIoShadow'[l]
<1>1. /\ Entries'
      /\ \A k \in LDoms : pciIoShadow[k] \subseteq pciIoShadow'[k]
      /\ clash \subseteq clash'
      /\ ~Plain(v) /\ l \notin clash' => RangeOf(d, v) \in pciIoShadow'[l]
  BY HookKeeps DEF ShadowInv
<1>2. ASSUME NEW k \in LDoms \ clash', NEW c \in Devices, prog[k][c] # 0
      PROVE  Entered(pciIoShadow'[k], c, prog[k][c])
  BY <1>1, <1>2 DEF ShadowInv, Recorded, Entered
<1> QED BY <1>1, <1>2

LEMMA ShadowInvariant == Spec => []ShadowInv
<1>1. Init => ShadowInv
  BY ConstantAssumption DEF Init, ShadowInv, Entries, Recorded, Unused
<1>2. HubInv /\ ShadowInv /\ [Next]_vars => ShadowInv'
  <2> SUFFICES ASSUME HubInv, ShadowInv, [Next]_vars PROVE ShadowInv'
    OBVIOUS
  <2>1. CASE Startup
    <3>1. sized < NDev /\ UNCHANGED <<pciIoShadow, prog, clash>>
      BY <2>1 DEF Startup, histVars
    <3>2. /\ \A l \in LDoms : pciIoShadow[l] = {}
          /\ \A l \in LDoms, d \in Devices : prog[l][d] = 0
      BY <3>1 DEF ShadowInv, Unused
    <3> QED BY <3>1, <3>2, ConstantAssumption
            DEF ShadowInv, Entries, Recorded, Unused
  <2>2. ASSUME NEW l \in LDoms, NEW m \in SUBSET Devices, SetMask(l, m)
        PROVE  ShadowInv'
    BY <2>2 DEF SetMask, ShadowInv, Entries, Recorded, Entered, Unused, RangeOf,
                Overlap, hubVars, devVars, histVars
  <2>3. ASSUME NEW l \in LDoms, NEW d \in Devices,
               NEW v \in GuestValues, sized = NDev,
               HookWrite(l, d, v), Programmed(l, d, v),
               UNCHANGED <<sized, uniqBAR>>
        PROVE  ShadowInv'
    <3>1. ~Plain(v) => Even(v)
      BY GuestEven DEF Even
    <3>2. /\ Entries'
          /\ \A k \in LDoms \ clash' : \A c \in Devices :
              prog[k][c] # 0 => Entered(pciIoShadow'[k], c, prog[k][c])
          /\ ~Plain(v) /\ l \notin clash' => RangeOf(d, v) \in pciIoShadow'[l]
      BY <2>3, <3>1, HookRecords
    <3>3. \A k \in LDoms, c \in Devices :
            \/ prog'[k][c] = prog[k][c] \/ prog'[k][c] = 0
            \/ k = l /\ c = d /\ prog'[k][c] = v /\ ~Plain(v)
      BY <2>3, GuestValue, ProgTypes
    <3>4. \A c \in Devices : \A w : RangeOf(c, w)' = RangeOf(c, w)
      BY <2>3 DEF RangeOf
    <3>5. ASSUME NEW k \in LDoms \ clash', NEW c \in Devices, prog'[k][c] # 0
          PROVE  Entered(pciIoShadow'[k], c, prog'[k][c])
      <4>1. CASE prog'[k][c] = prog[k][c]
        BY <3>2, <3>5, <4>1
      <4>2. CASE k = l /\ c = d /\ prog'[k][c] = v /\ ~Plain(v)
        BY <3>1, <3>2, <3>5, <4>2 DEF Entered
      <4> QED BY <3>3, <3>5, <4>1, <4>2
    <3>6. Recorded'
      BY <2>3, <3>2, <3>5 DEF Recorded, Entered, RangeOf
    <3>7. Unused'
      BY <2>3, ConstantAssumption DEF Unused
    <3> QED BY <3>2, <3>6, <3>7 DEF ShadowInv
  <2>4. ASSUME NEW l \in LDoms, pend[l] # NoWrite,
               HookWrite(l, pend[l].dev, pend[l].val),
               UNCHANGED <<sized, uniqBAR, prog>>
        PROVE  ShadowInv'
    <3> DEFINE d == pend[l].dev  v == pend[l].val
    <3>1. d \in Devices /\ v \in Sent(d) /\ sized = NDev
      BY <2>4, ConstantAssumption DEF HubInv, Decoding, TypeOK
    <3>2. ~Plain(v) => Even(v)
      BY <3>1, UniqType, Masks DEF Plain, Sent, Even
    <3>3. /\ Entries'
          /\ \A k \in LDoms \ clash' : \A c \in Devices :
              prog[k][c] # 0 => Entered(pciIoShadow'[k], c, prog[k][c])
      BY <2>4, <3>1, <3>2, HookRecords
    <3>4. Recorded'
      BY <2>4, <3>3 DEF Recorded, Entered, RangeOf
    <3>5. Unused'
      BY <2>4, <3>1, ConstantAssumption DEF Unused
    <3> QED BY <3>3, <3>4, <3>5 DEF ShadowInv
  <2>5. ASSUME NEW l \in LDoms, RetryHidden(l) PROVE ShadowInv'
    BY <2>5 DEF RetryHidden, ShadowInv, Entries, Recorded, Entered, Unused, RangeOf,
                Overlap, hubVars, devVars, histVars
  <2>6. CASE UNCHANGED vars
    BY <2>6 DEF vars, ShadowInv, Entries, Recorded, Entered, Unused, RangeOf, Overlap
  <2>7. ASSUME NEW l \in LDoms, GuestWrite(l) PROVE ShadowInv'
    BY <2>3, <2>7 DEF GuestWrite, WriteBar, WriteBarRefused
  <2>8. ASSUME NEW l \in LDoms, RetryTaken(l) \/ RetryRefused(l) PROVE ShadowInv'
    BY <2>4, <2>8 DEF RetryTaken, RetryRefused
  <2> QED
    BY <2>1, <2>2, <2>5, <2>6, <2>7, <2>8 DEF Next
<1> QED BY <1>1, <1>2, HubInvariant, PTL DEF Spec

\* For whatever addresses the LDoms choose: an entry that is not above its
\* window leads to the start of it, and an LDom's entries are disjoint.
THEOREM LeadToWindows == Spec => []EntriesLeadToWindows
<1>1. HubInv /\ ShadowInv => EntriesLeadToWindows
  <2> SUFFICES ASSUME HubInv, ShadowInv, NEW l \in LDoms, NEW e \in pciIoShadow[l]
               PROVE  /\ \E d \in Devices :
                           /\ e.size = Size[d]
                           /\ e.base <= uniqBAR[d] => e.base + e.off = uniqBAR[d]
                      /\ \A f \in pciIoShadow[l] : Overlap(e, f) => e = f
    BY DEF EntriesLeadToWindows
  <2>1. PICK d \in Devices : Even(e.base) /\ e = RangeOf(d, e.base)
    BY DEF ShadowInv, Entries
  <2> DEFINE b == e.base
  <2>2. b \in Nat /\ uniqBAR[d] \in Nat /\ e.size = Size[d]
    BY <2>1, EntryShape
  <2>3. b <= uniqBAR[d] => e.off = uniqBAR[d] - b
    BY <2>1, Offset
  <2>4. b <= uniqBAR[d] => b + e.off = uniqBAR[d]
    BY <2>2, <2>3
  <2> QED BY <2>2, <2>4 DEF ShadowInv, Entries
<1> QED BY <1>1, HubInvariant, ShadowInvariant, PTL

\* An address within an entry is remapped by that entry's offset.
LEMMA RemapBy ==
  ASSUME HubInv, ShadowInv, NEW l \in LDoms, NEW e \in pciIoShadow[l],
         NEW a \in Nat, e.base <= a, a < e.base + e.size
  PROVE  RemapIo(l, a) = a + e.off
<1> DEFINE In(f) == f.base <= a /\ a < f.base + f.size
<1>1. \A f \in pciIoShadow[l] : In(f) => f = e
  <2> SUFFICES ASSUME NEW f \in pciIoShadow[l], In(f) PROVE f = e
    OBVIOUS
  <2>1. e \in Range /\ f \in Range
    BY DEF HubInv, TypeOK
  <2>2. Overlap(e, f)
    BY <2>1 DEF Overlap, Range
  <2> QED BY <2>2 DEF ShadowInv, Entries
<1>2. (CHOOSE f \in pciIoShadow[l] : In(f)) = e
  BY <1>1
<1> QED BY <1>2 DEF RemapIo

\* For whatever addresses the LDoms choose, refused and retried writes included:
\* an LDom none of whose ranges met another one reaches its device, at the same
\* offset, where it last put the BAR, if that is not above the device's window.
THEOREM Reached == Spec => []WindowReached
<1>1. HubInv /\ ShadowInv => WindowReached
  <2> SUFFICES ASSUME HubInv, ShadowInv, NEW l \in LDoms \ clash, NEW d \in Devices,
                      prog[l][d] \in 1 .. uniqBAR[d], NEW o \in 0 .. Size[d] - 1
               PROVE  RemapIo(l, prog[l][d] + o) = uniqBAR[d] + o
    BY DEF WindowReached
  <2> DEFINE b == prog[l][d]  e == RangeOf(d, b)
  <2>1. uniqBAR[d] \in Nat
    BY Width DEF HubInv, TypeOK
  <2>2. b # 0 /\ b <= uniqBAR[d]
    BY <2>1
  <2>3. Even(b) /\ e \in pciIoShadow[l]
    BY <2>2 DEF ShadowInv, Recorded, Entered
  <2>4. /\ e.base = b /\ e.size = Size[d] /\ b \in Nat /\ Size[d] \in Nat
    BY <2>3, EntryShape
  <2>5. e.off = uniqBAR[d] - b
    BY <2>2, <2>3, Offset
  <2> HIDE DEF e, b
  <2>6. b + o \in Nat /\ e.base <= b + o /\ b + o < e.base + e.size
    BY <2>4
  <2>7. RemapIo(l, b + o) = b + o + e.off
    BY <2>3, <2>6, RemapBy
  <2>8. RemapIo(l, b + o) = uniqBAR[d] + o
    BY <2>1, <2>4, <2>5, <2>7
  <2> QED BY <2>8 DEF b
<1> QED BY <1>1, HubInvariant, ShadowInvariant, PTL
=============================================================================
