------------------------- MODULE DeviceConfig_proofs -------------------------
(***************************************************************************)
(* Proofs about DeviceConfig for every set of parameter settings and every *)
(* content of the decimation register.  All that they need to know of the  *)
(* two lists of calls is Chain: how a call that is made although b_success *)
(* is false comes to be made.                                              *)
(***************************************************************************)
EXTENDS DeviceConfig, TLAPS

LibraryCalls ==
  {"ConfigDataReady", "SetDataReady", "ConfigBiasCorrectionTime",
   "SelectBiasConfigAxes", "UpdateBiasCorrection", "SetOutputDataRate",
   "ConfigSyncClkMode", "SetLineargComp", "SetPPercAlignment", "SetAcclBias",
   "GetAcclBias", "SetGyroBias", "GetGyroBias", "SetAcclScale", "GetAcclScale",
   "SetGyroScale", "GetGyroScale", "ConfigBurstDataFormat", "GetDevInfo",
   "PrintDevInfo", "EnablePPSSync", "SetUTC", "GetUTC", "UTCNotBehind",
   "DisablePPSSync", "SetDioConfig", "SetPatternImuBurst", "SetPatternRaw",
   "SetBufConfig", "GetInfo", "PrintInfo"}

Returners == Reports \cup {"GetAcclBias", "GetGyroBias", "GetAcclScale", "GetGyroScale"}

\* Whether a call returns early when it fails is a matter of its name, and the
\* data rate is set in any case.
CallType ==
  {c \in [name : LibraryCalls, when : {"always", "success", "block"},
          fails : {"decide", "ignore", "return"}] :
     /\ c.fails = "return" <=> c.name \in Returners
     /\ c.name = "SetOutputDataRate" => c.when = "always"}

\* A call that depends on its block follows a call whose failure is ignored, or
\* is SetDataReady.
Follows(c, before, prod) ==
  \/ before.fails = "ignore"
  \/ /\ c.name = "SetDataReady" /\ c.fails = "decide" /\ prod = 16495
     /\ before.name = "ConfigDataReady" /\ before.fails = "decide"

\* A part of a list: its first call does not depend on the part before it, and
\* only the reports are made in any case.
Part(s, prod) ==
  /\ s \in Seq(CallType)
  /\ \A i \in 1 .. Len(s) :
       /\ s[i].when = "block" => i > 1 /\ Follows(s[i], s[i - 1], prod)
       /\ s[i].when = "always" => s[i].name \in Reports /\ s[i].fails = "return"

\* A list begins with a call that is made in any case and decides.
Chain(s, prod) ==
  /\ s \in Seq(CallType) /\ Len(s) > 0
  /\ s[1].when = "always" /\ s[1].fails = "decide"
  /\ \A i \in 2 .. Len(s) :
       /\ s[i].when = "block" => Follows(s[i], s[i - 1], prod)
       /\ s[i].when = "always" => s[i].name \in Reports /\ s[i].fails = "return"

\* The elements of a concatenation.
LEMMA ConcatFacts ==
  ASSUME NEW S, NEW s \in Seq(S), NEW t \in Seq(S)
  PROVE  /\ s \o t \in Seq(S) /\ Len(s \o t) = Len(s) + Len(t)
         /\ \A i \in 1 .. Len(s) : (s \o t)[i] = s[i]
         /\ \A i \in Len(s) + 1 .. Len(s) + Len(t) : (s \o t)[i] = t[i - Len(s)]
OBVIOUS

\* A part can be appended to a list.
LEMMA ChainExtends ==
  ASSUME NEW prod, NEW s, NEW t, Chain(s, prod), Part(t, prod)
  PROVE  Chain(s \o t, prod)
<1>1. PICK u \in Seq(CallType) :
        /\ u = s \o t /\ Len(u) = Len(s) + Len(t)
        /\ \A i \in 1 .. Len(s) : u[i] = s[i]
        /\ \A i \in Len(s) + 1 .. Len(s) + Len(t) : u[i] = t[i - Len(s)]
  <2>1. s \in Seq(CallType) /\ t \in Seq(CallType)
    BY Zenon DEF Chain, Part
  <2>2. s \o t \in Seq(CallType)
    BY <2>1
  <2> WITNESS s \o t \in Seq(CallType)
  <2> QED BY <2>1, ConcatFacts, Zenon
<1>2. /\ s \in Seq(CallType) /\ t \in Seq(CallType)
      /\ Len(s) \in Nat \ {0} /\ Len(t) \in Nat
  BY DEF Chain, Part
<1>3. u[1] = s[1]
  BY <1>1, <1>2
<1>4. ASSUME NEW i \in 2 .. Len(u)
      PROVE  /\ u[i].when = "block" => Follows(u[i], u[i - 1], prod)
             /\ u[i].when = "always" => u[i].name \in Reports /\ u[i].fails = "return"
  <2>1. CASE i <= Len(s)
    <3>1. u[i] = s[i] /\ u[i - 1] = s[i - 1] /\ i \in 2 .. Len(s)
      BY <1>1, <1>2, <2>1
    <3> QED BY <3>1 DEF Chain
  <2>2. CASE i > Len(s)
    <3>1. PICK j \in 1 .. Len(t) : j = i - Len(s)
      BY <1>1, <1>2, <2>2
    <3>2. u[i] = t[j]
      BY <1>1, <1>2, <2>2, <3>1
    <3>3. j > 1 => u[i - 1] = t[j - 1]
      BY <1>1, <1>2, <2>2, <3>1
    <3> QED BY <3>2, <3>3 DEF Part
  <2> QED BY <1>2, <2>1, <2>2
<1>5. u[1].when = "always" /\ u[1].fails = "decide" /\ Len(u) > 0
  BY <1>1, <1>2, <1>3 DEF Chain
<1>6. Chain(u, prod)
  BY <1>4, <1>5, Zenon DEF Chain
<1> QED BY <1>1, <1>6

\* And the list still begins as it did.
LEMMA ChainBegins ==
  ASSUME NEW prod, NEW s, NEW t, NEW c, Chain(s, prod), Part(t, prod), s[1] = c
  PROVE  (s \o t)[1] = c
<1>1. /\ s \in Seq(CallType) /\ t \in Seq(CallType)
      /\ Len(s) \in Nat \ {0} /\ Len(t) \in Nat
  BY DEF Chain, Part
<1>2. 1 \in 1 .. Len(s)
  BY <1>1
<1> QED BY <1>1, <1>2, ConcatFacts

\* A part can be appended to a part.
LEMMA PartExtends ==
  ASSUME NEW prod, NEW s, NEW t, Part(s, prod), Part(t, prod)
  PROVE  Part(s \o t, prod)
<1>1. PICK u \in Seq(CallType) :
        /\ u = s \o t /\ Len(u) = Len(s) + Len(t)
        /\ \A i \in 1 .. Len(s) : u[i] = s[i]
        /\ \A i \in Len(s) + 1 .. Len(s) + Len(t) : u[i] = t[i - Len(s)]
  <2>1. s \in Seq(CallType) /\ t \in Seq(CallType)
    BY Zenon DEF Part
  <2>2. s \o t \in Seq(CallType)
    BY <2>1
  <2> WITNESS s \o t \in Seq(CallType)
  <2> QED BY <2>1, ConcatFacts, Zenon
<1>2. /\ s \in Seq(CallType) /\ t \in Seq(CallType)
      /\ Len(s) \in Nat /\ Len(t) \in Nat
  BY DEF Part
<1>3. ASSUME NEW i \in 1 .. Len(u)
      PROVE  /\ u[i].when = "block" => i > 1 /\ Follows(u[i], u[i - 1], prod)
             /\ u[i].when = "always" => u[i].name \in Reports /\ u[i].fails = "return"
  <2>1. CASE i <= Len(s)
    <3>1. u[i] = s[i] /\ i \in 1 .. Len(s) /\ (i > 1 => u[i - 1] = s[i - 1])
      BY <1>1, <1>2, <2>1
    <3> QED BY <3>1 DEF Part
  <2>2. CASE i > Len(s)
    <3>1. PICK j \in 1 .. Len(t) : j = i - Len(s)
      BY <1>1, <1>2, <2>2
    <3>2. u[i] = t[j]
      BY <1>1, <1>2, <2>2, <3>1
    <3>3. j > 1 => u[i - 1] = t[j - 1]
      BY <1>1, <1>2, <2>2, <3>1
    <3>4. /\ t[j].when = "block" => j > 1 /\ Follows(t[j], t[j - 1], prod)
          /\ t[j].when = "always" => t[j].name \in Reports /\ t[j].fails = "return"
      BY Zenon DEF Part
    <3>5. j > 1 => i > 1
      BY <1>2, <3>1
    <3> QED BY <3>2, <3>3, <3>4, <3>5, Zenon
  <2> QED BY <1>2, <2>1, <2>2
<1>4. Part(u, prod)
  BY <1>3, Zenon DEF Part
<1> QED BY <1>1, <1>4

\* A part of two calls, the second in the block of the first.
LEMMA PartPair ==
  ASSUME NEW prod, NEW a \in CallType, NEW b \in CallType,
         a.when = "success", b.when = "block", Follows(b, a, prod)
  PROVE  Part(<<a, b>>, prod)
<1>1. /\ <<a, b>> \in Seq(CallType) /\ Len(<<a, b>>) = 2
      /\ <<a, b>>[1] = a /\ <<a, b>>[2] = b
  OBVIOUS
<1>2. ASSUME NEW i \in 1 .. 2
      PROVE  /\ <<a, b>>[i].when = "block" => i > 1 /\ Follows(<<a, b>>[i], <<a, b>>[i - 1], prod)
             /\ <<a, b>>[i].when = "always" => <<a, b>>[i].name \in Reports /\ <<a, b>>[i].fails = "return"
  <2>1. CASE i = 1
    BY <1>1, <2>1
  <2>2. CASE i = 2
    BY <1>1, <2>2
  <2> QED BY <2>1, <2>2
<1> QED BY <1>1, <1>2 DEF Part

\* A part may be left out.
LEMMA PartEmpty == ASSUME NEW prod PROVE Part(<<>>, prod)
BY DEF Part

-----------------------------------------------------------------------------
\* The writes of AdiImu::config are such a list, whatever the parameters.
LEMMA AdiWritesChain == ASSUME NEW o \in Option PROVE Chain(AdiWrites(o), o.prod)
<1> DEFINE first == <<Call("SetOutputDataRate", "always", "decide")>>
           clock == <<Call("ConfigSyncClkMode", "success", "decide")>>
           align == <<Call("SetLineargComp", "success", "decide"),
                      Call("SetPPercAlignment", "success", "decide")>>
           format == <<Call("ConfigBurstDataFormat", "success", "decide")>>
           scale == WriteBack("SetAcclScale", "GetAcclScale")
           turn == WriteBack("SetGyroScale", "GetGyroScale")
<1>1. Chain(first, o.prod)
  BY DEF Chain, Call, CallType, LibraryCalls, Returners, Reports
<1>2. Part(DataReady(o.prod), o.prod)
  <2>1. CASE o.prod = 16495
    <3>1. DataReady(o.prod) = <<Call("ConfigDataReady", "success", "decide"),
                                Call("SetDataReady", "block", "decide")>>
      BY <2>1 DEF DataReady
    <3>2. /\ Call("ConfigDataReady", "success", "decide") \in CallType
          /\ Call("SetDataReady", "block", "decide") \in CallType
          /\ Follows(Call("SetDataReady", "block", "decide"),
                     Call("ConfigDataReady", "success", "decide"), o.prod)
          /\ Call("ConfigDataReady", "success", "decide").when = "success"
          /\ Call("SetDataReady", "block", "decide").when = "block"
      BY <2>1 DEF Call, CallType, LibraryCalls, Returners, Reports, Follows
    <3> QED BY <3>1, <3>2, PartPair
  <2>2. CASE o.prod # 16495
    <3>1. DataReady(o.prod) = <<Call("ConfigDataReady", "success", "decide")>>
      BY <2>2 DEF DataReady
    <3> QED BY <3>1 DEF Part, Call, CallType, LibraryCalls, Returners, Reports
  <2> QED BY <2>1, <2>2
<1>3. Part(clock, o.prod) /\ Part(format, o.prod)
  BY DEF Part, Call, CallType, LibraryCalls, Returners, Reports
<1>4. Part(align, o.prod)
  BY DEF Part, Call, CallType, LibraryCalls, Returners, Reports
<1>5. Part(BiasCorrection, o.prod)
  BY DEF Part, BiasCorrection, Call, CallType, LibraryCalls, Returners, Reports, Follows
<1>6. /\ Part(WriteBack("SetAcclBias", "GetAcclBias"), o.prod)
      /\ Part(WriteBack("SetGyroBias", "GetGyroBias"), o.prod)
  BY DEF Part, WriteBack, Call, CallType, LibraryCalls, Returners, Reports, Follows
<1>7. Part(scale, o.prod) /\ Part(turn, o.prod)
  BY DEF Part, WriteBack, Call, CallType, LibraryCalls, Returners, Reports, Follows
<1>9. Part(scale \o turn, o.prod)
  BY <1>7, PartExtends, Zenon
<1> DEFINE p2 == If(o.sync, clock)
           p4 == If(o.biasCorr /\ o.prod # 16500, BiasCorrection)
           p5 == If(o.acclBias, WriteBack("SetAcclBias", "GetAcclBias"))
           p6 == If(o.gyroBias, WriteBack("SetGyroBias", "GetGyroBias"))
           p7 == If(o.scales /\ o.prod = 16495, scale \o turn)
           p8 == If(o.prod = 16500, format)
           w1 == first \o DataReady(o.prod)
           w2 == w1 \o p2
           w3 == w2 \o align
           w4 == w3 \o p4
           w5 == w4 \o p5
           w6 == w5 \o p6
           w7 == w6 \o p7
           w8 == w7 \o p8
<1>10. AdiWrites(o) = w8
  BY DEF AdiWrites
<1> HIDE DEF first, clock, align, format, scale, turn
<1>11. /\ Part(p2, o.prod) /\ Part(p4, o.prod) /\ Part(p5, o.prod)
       /\ Part(p6, o.prod) /\ Part(p7, o.prod) /\ Part(p8, o.prod)
  <2>1. Part(<<>>, o.prod)
    BY PartEmpty
  <2>2. Part(p2, o.prod) /\ Part(p8, o.prod)
    BY <1>3, <2>1 DEF If
  <2>3. Part(p4, o.prod)
    BY <1>5, <2>1 DEF If
  <2>4. Part(p5, o.prod) /\ Part(p6, o.prod)
    BY <1>6, <2>1 DEF If
  <2>5. Part(p7, o.prod)
    BY <1>9, <2>1 DEF If
  <2> QED BY <2>2, <2>3, <2>4, <2>5
<1> HIDE DEF p2, p4, p5, p6, p7, p8, w1, w2, w3, w4, w5, w6, w7, w8
<1>12. Chain(w1, o.prod)
  BY <1>1, <1>2, ChainExtends, Zenon DEF w1
<1>13. Chain(w2, o.prod)
  BY <1>11, <1>12, ChainExtends, Zenon DEF w2
<1>14. Chain(w3, o.prod)
  BY <1>4, <1>13, ChainExtends, Zenon DEF w3
<1>15. Chain(w4, o.prod)
  BY <1>11, <1>14, ChainExtends, Zenon DEF w4
<1>16. Chain(w5, o.prod)
  BY <1>11, <1>15, ChainExtends, Zenon DEF w5
<1>17. Chain(w6, o.prod)
  BY <1>11, <1>16, ChainExtends, Zenon DEF w6
<1>18. Chain(w7, o.prod)
  BY <1>11, <1>17, ChainExtends, Zenon DEF w7
<1>19. Chain(w8, o.prod)
  BY <1>11, <1>18, ChainExtends, Zenon DEF w8
<1> QED BY <1>10, <1>19, Zenon

\* With the report at its end, from which the rate is taken.
LEMMA AdiChain ==
  ASSUME NEW o \in Option
  PROVE  /\ Chain(AdiCalls(o), o.prod)
         /\ AdiCalls(o)[Len(AdiCalls(o))] = Call("PrintDevInfo", "always", "return")
<1>1. /\ Part(AdiReport, o.prod) /\ AdiReport \in Seq(CallType) /\ Len(AdiReport) = 2
      /\ AdiReport[2] = Call("PrintDevInfo", "always", "return")
  BY DEF Part, AdiReport, Call, CallType, LibraryCalls, Returners, Reports
<1>2. Chain(AdiWrites(o), o.prod) /\ AdiWrites(o) \in Seq(CallType)
  BY AdiWritesChain DEF Chain
<1>3. Chain(AdiCalls(o), o.prod)
  BY <1>1, <1>2, ChainExtends, Zenon DEF AdiCalls
<1>4. PICK w \in Seq(CallType) : w = AdiWrites(o)
  BY <1>2
<1>5. PICK t \in Seq(CallType) :
        t = AdiReport /\ Len(t) = 2 /\ t[2] = Call("PrintDevInfo", "always", "return")
  BY <1>1
<1>6. (w \o t)[Len(w \o t)] = t[2]
  <2>1. /\ Len(w \o t) = Len(w) + Len(t)
        /\ \A i \in Len(w) + 1 .. Len(w) + Len(t) : (w \o t)[i] = t[i - Len(w)]
    BY ConcatFacts, Zenon
  <2>2. Len(w) + 2 \in Len(w) + 1 .. Len(w) + Len(t) /\ (Len(w) + 2) - Len(w) = 2
    BY <1>5
  <2> QED BY <1>5, <2>1, <2>2
<1> QED BY <1>3, <1>4, <1>5, <1>6 DEF AdiCalls

\* And so is ImuBuf::config.
LEMMA BufChain ==
  ASSUME NEW o \in Option
  PROVE  /\ Chain(BufCalls(o), o.prod)
         /\ BufCalls(o)[1] = Call("SetDioConfig", "always", "decide")
<1> DEFINE first == <<Call("SetDioConfig", "always", "decide")>>
           burst == <<Call("SetPatternImuBurst", "success", "decide")>>
           raw == <<Call("SetPatternRaw", "success", "decide")>>
           last3 == <<Call("SetBufConfig", "success", "decide"),
                      Call("GetInfo", "always", "return"), Call("PrintInfo", "always", "return")>>
<1>1. Chain(first, o.prod) /\ first[1] = Call("SetDioConfig", "always", "decide")
  BY DEF Chain, Call, CallType, LibraryCalls, Returners, Reports
<1>2. Part(Pps(o.pps), o.prod)
  <2>1. CASE o.pps
    <3>1. Pps(o.pps) = <<Call("EnablePPSSync", "success", "decide"),
                         Call("SetUTC", "success", "decide"),
                         Call("GetUTC", "success", "decide"),
                         Call("UTCNotBehind", "success", "decide")>>
      BY <2>1, Zenon DEF Pps
    <3> QED BY <3>1 DEF Part, Call, CallType, LibraryCalls, Returners, Reports
  <2>2. CASE ~o.pps
    <3>1. Pps(o.pps) = <<Call("DisablePPSSync", "success", "decide")>>
      BY <2>2, Zenon DEF Pps
    <3> QED BY <3>1 DEF Part, Call, CallType, LibraryCalls, Returners, Reports
  <2> QED BY <2>1, <2>2
<1>3. Part(burst, o.prod) /\ Part(raw, o.prod)
  BY DEF Part, Call, CallType, LibraryCalls, Returners, Reports
<1>4. Part(last3, o.prod)
  BY DEF Part, Call, CallType, LibraryCalls, Returners, Reports
<1> DEFINE p1 == Pps(o.pps)
           p2 == If(o.imuBurst, burst)
           p3 == If(~o.imuBurst /\ o.prod = 16495, raw)
           b1 == first \o p1
           b2 == b1 \o p2
           b3 == b2 \o p3
           b4 == b3 \o last3
<1>5. BufCalls(o) = b4
  BY DEF BufCalls
<1> HIDE DEF first, burst, raw, last3
<1>6. Part(p1, o.prod) /\ Part(p2, o.prod) /\ Part(p3, o.prod)
  <2>1. Part(<<>>, o.prod)
    BY PartEmpty
  <2>2. Part(p1, o.prod)
    BY <1>2
  <2>3. Part(p2, o.prod) /\ Part(p3, o.prod)
    BY <1>3, <2>1 DEF If
  <2> QED BY <2>2, <2>3
<1> HIDE DEF p1, p2, p3, b1, b2, b3, b4
<1>7. Chain(b1, o.prod)
  BY <1>1, <1>6, ChainExtends, Zenon DEF b1
<1>8. Chain(b2, o.prod)
  BY <1>6, <1>7, ChainExtends, Zenon DEF b2
<1>9. Chain(b3, o.prod)
  BY <1>6, <1>8, ChainExtends, Zenon DEF b3
<1>10. Chain(b4, o.prod)
  BY <1>4, <1>9, ChainExtends, Zenon DEF b4
<1> DEFINE begin == Call("SetDioConfig", "always", "decide")
<1> HIDE DEF begin
<1>11. first[1] = begin
  BY <1>1 DEF begin
<1>12. b1[1] = begin
  BY <1>1, <1>6, <1>11, ChainBegins, Zenon DEF b1
<1>13. b2[1] = begin
  BY <1>6, <1>7, <1>12, ChainBegins, Zenon DEF b2
<1>14. b3[1] = begin
  BY <1>6, <1>8, <1>13, ChainBegins, Zenon DEF b3
<1>15. b4[1] = begin
  BY <1>4, <1>9, <1>14, ChainBegins, Zenon DEF b4
<1> QED BY <1>5, <1>10, <1>15, Zenon DEF begin

-----------------------------------------------------------------------------
\* A call of the current list, and where its name belongs.
LEMMA CallFacts ==
  ASSUME opt \in Option, Working, step \in 1 .. Len(Calls)
  PROVE  /\ Calls[step].name \in CallNames
         /\ Calls[step].fails = "decide"
              => Calls[step].name \in Deciding(AdiCalls(opt)) \cup Deciding(BufCalls(opt))
         /\ phase = "adi" /\ Calls[step].fails = "return"
              => Calls[step].name \in Returning(AdiCalls(opt))
<1>1. CASE phase = "adi"
  <2>1. Calls = AdiCalls(opt) /\ DOMAIN AdiCalls(opt) = 1 .. Len(AdiCalls(opt))
    BY <1>1, AdiChain DEF Calls, Chain
  <2>2. step \in DOMAIN AdiCalls(opt)
    BY <2>1
  <2> QED BY <2>1, <2>2, Zenon DEF CallNames, Names, Deciding, Returning
<1>2. CASE phase # "adi"
  <2>1. Calls = BufCalls(opt) /\ DOMAIN BufCalls(opt) = 1 .. Len(BufCalls(opt))
    BY <1>2, BufChain DEF Calls, Chain
  <2>2. step \in DOMAIN BufCalls(opt)
    BY <2>1
  <2> QED BY <1>2, <2>1, <2>2, Zenon DEF CallNames, Names, Deciding
<1> QED BY <1>1, <1>2

\* A call that returns early decides nothing under its name.
LEMMA ReturnersDecideNothing ==
  ASSUME opt \in Option, step \in 1 .. Len(Calls), Calls[step].fails = "return"
  PROVE  Calls[step].name \notin Deciding(AdiCalls(opt)) \cup Deciding(BufCalls(opt))
<1>1. Calls[step].name \in Returners
  <2>1. Calls[step] \in CallType
    BY AdiChain, BufChain DEF Calls, Chain
  <2> QED BY <2>1 DEF CallType
<1>2. ASSUME NEW s, Chain(s, opt.prod), NEW n \in Deciding(s)
      PROVE  n \notin Returners
  <2>1. s \in Seq(CallType) /\ DOMAIN s = 1 .. Len(s)
    BY <1>2 DEF Chain
  <2>2. PICK j \in DOMAIN s : s[j].fails = "decide" /\ n = s[j].name
    BY <1>2 DEF Deciding
  <2>3. s[j] \in CallType
    BY <2>1
  <2> QED BY <2>2, <2>3 DEF CallType
<1>3. Chain(AdiCalls(opt), opt.prod) /\ Chain(BufCalls(opt), opt.prod)
  BY AdiChain, BufChain
<1> QED BY <1>1, <1>2, <1>3

\* The current list is a chain.
LEMMA CallsChain ==
  ASSUME opt \in Option
  PROVE  /\ Chain(Calls, opt.prod) /\ Calls \in Seq(CallType) /\ Len(Calls) \in Nat \ {0}
         /\ phase = "adi" => Calls[Len(Calls)] = Call("PrintDevInfo", "always", "return")
<1>1. Chain(Calls, opt.prod)
  BY AdiChain, BufChain DEF Calls
<1>2. phase = "adi" => Calls[Len(Calls)] = Call("PrintDevInfo", "always", "return")
  BY AdiChain DEF Calls
<1> QED BY <1>1, <1>2 DEF Chain

\* A call made although b_success is false is the first one, a report, or
\* SetDataReady after ConfigDataReady.
LEMMA MadeInSpite ==
  ASSUME opt \in Option, step \in 1 .. Len(Calls), Made(Calls[step]), ~ok
  PROVE  \/ step = 1 /\ Calls[step].fails = "decide"
         \/ step > 1 /\ Calls[step].name \in Reports /\ Calls[step].fails = "return"
         \/ step > 1 /\ reached /\ Follows(Calls[step], Calls[step - 1], opt.prod)
         \/ step = 1 /\ reached
<1>1. Calls[step] \in CallType
  BY CallsChain
<1>2. Calls[step].when \in {"always", "block"}
  BY <1>1 DEF Made, CallType
<1>3. CASE step = 1
  BY <1>3, CallsChain DEF Chain
<1>4. CASE step # 1
  <2>1. step \in 2 .. Len(Calls)
    BY <1>4, CallsChain
  <2>2. CASE Calls[step].when = "always"
    BY <2>1, <2>2, CallsChain DEF Chain
  <2>3. CASE Calls[step].when = "block"
    <3>1. reached
      BY <2>3 DEF Made
    <3> QED BY <2>1, <2>3, <3>1, CallsChain DEF Chain
  <2> QED BY <1>2, <2>2, <2>3
<1> QED BY <1>3, <1>4

-----------------------------------------------------------------------------
\* What the cut leaves is a number, unless it cannot be known.
LEMMA CutType ==
  ASSUME NEW a \in Nat \cup {Unknown}, NEW b \in Int
  PROVE  /\ Cut(a, b) \in Int \cup {Unknown}
         /\ a # Unknown /\ b # 0 => Cut(a, b) \in Int
<1>1. CASE a = Unknown \/ b = 0
  BY <1>1 DEF Cut
<1>2. CASE a # Unknown /\ b > 0
  <2>1. a \div b \in Int
    BY <1>2
  <2> QED BY <1>2, <2>1 DEF Cut
<1>3. CASE a # Unknown /\ b < 0
  <2>1. -b \in Nat \ {0}
    BY <1>3
  <2>2. a \div (-b) \in Int
    BY <1>3, <2>1
  <2> QED BY <1>3, <2>2 DEF Cut
<1> QED BY <1>1, <1>2, <1>3

\* TypeOK in two parts, the Boolean variables and the others.
Flags == ok \in BOOLEAN /\ reached \in BOOLEAN /\ result \in BOOLEAN

Values ==
  /\ opt \in OptionSets
  /\ phase \in {"adi", "buf", "node", "done"}
  /\ step \in 1 .. Len(Calls) + 1 /\ (~Working => step = 1)
  /\ failed \subseteq CallNames /\ last \in CallNames \cup {"none"}
  /\ decimation \in Decimations /\ rate \in Nat \cup {Unknown}
  /\ timer \in Int \cup {Unknown, NoTimer}

\* The configuration starts with the first call.
LEMMA InitTypes == Init => Flags /\ Values
<1> SUFFICES ASSUME Init PROVE Flags /\ Values
  OBVIOUS
<1>1. Flags
  BY Zenon DEF Init, Flags
<1>2. opt \in Option /\ opt \in OptionSets
  BY OptionAssumption DEF Init
<1>3. Values
  BY <1>2, CallsChain DEF Init, Values, Working
<1> QED BY <1>1, <1>3

\* Every step keeps the Boolean variables Boolean.
LEMMA NextFlags == Flags /\ Values /\ [Next]_vars => Flags'
<1> SUFFICES ASSUME Flags, Values, [Next]_vars PROVE Flags'
  OBVIOUS
<1> USE DEF Flags
<1>1. CASE Skip
  BY <1>1, Zenon DEF Skip
<1>2. CASE CallSucceeds
  BY <1>2, Zenon DEF CallSucceeds
<1>3. CASE CallFails
  <2>1. step \in 1 .. Len(Calls) /\ opt \in Option
    BY <1>3, CallsChain, OptionAssumption DEF CallFails, Values
  <2>2. Calls[step].fails \in {"decide", "ignore", "return"}
    <3>1. Calls[step] \in CallType
      BY <2>1, CallsChain
    <3> QED BY <3>1 DEF CallType
  <2>3. result' = result
    BY <1>3 DEF CallFails
  <2>4. AfterFailure(Calls[step])
    BY <1>3 DEF CallFails
  <2>5. CASE Calls[step].fails = "decide"
    BY <2>3, <2>4, <2>5 DEF AfterFailure
  <2>6. CASE Calls[step].fails = "ignore"
    BY <2>3, <2>4, <2>6 DEF AfterFailure
  <2>7. CASE Calls[step].fails = "return"
    BY <2>3, <2>4, <2>7 DEF AfterFailure, Finish
  <2> QED BY <2>2, <2>5, <2>6, <2>7
<1>4. CASE ReturnResult
  BY <1>4, Zenon DEF ReturnResult, Finish
<1>5. CASE Advertise
  <2>1. opt.msgValid \in BOOLEAN
    BY OptionAssumption DEF Values, Option
  <2> QED BY <1>5, <2>1, Zenon DEF Advertise
<1>6. CASE UNCHANGED vars
  BY <1>6, Zenon DEF vars
<1> QED BY <1>1, <1>2, <1>3, <1>4, <1>5, <1>6, Zenon DEF Next

\* The next function starts with its first call.
LEMMA StepFits ==
  ASSUME opt \in Option, opt' = opt
  PROVE  /\ 1 \in 1 .. Len(Calls') + 1
         /\ phase' = phase /\ step \in 1 .. Len(Calls) => step + 1 \in 1 .. Len(Calls') + 1
<1>1. Len(AdiCalls(opt)) \in Nat /\ Len(BufCalls(opt)) \in Nat
  BY AdiChain, BufChain DEF Chain
<1>2. Calls' = IF phase' = "adi" THEN AdiCalls(opt) ELSE BufCalls(opt)
  BY DEF Calls
<1>3. Len(Calls') \in Nat
  BY <1>1, <1>2
<1>4. phase' = phase => Calls' = Calls
  BY <1>2 DEF Calls
<1> QED BY <1>3, <1>4

\* Every step keeps the step within its list and the history to its names.
LEMMA NextValues == Values /\ [Next]_vars => Values'
<1> SUFFICES ASSUME Values, [Next]_vars PROVE Values'
  OBVIOUS
<1>1. opt \in Option /\ opt \in OptionSets
  BY OptionAssumption DEF Values
<1>2. opt' = opt
  BY DEF Next, Skip, CallSucceeds, CallFails, ReturnResult, Advertise, vars
<1>3. CallNames' = CallNames
  BY <1>2 DEF CallNames
<1> USE DEF Values
<1>4. CASE Skip
  <2>1. phase' = phase /\ Working /\ step \in 1 .. Len(Calls) /\ step' = step + 1
    BY <1>1, <1>4, CallsChain DEF Skip
  <2>2. step' \in 1 .. Len(Calls') + 1 /\ Working'
    BY <1>1, <1>2, <2>1, StepFits DEF Working
  <2>3. UNCHANGED <<failed, last, decimation, rate, timer>>
    BY <1>4 DEF Skip
  <2> QED BY <1>1, <1>2, <1>3, <2>1, <2>2, <2>3
<1>5. CASE CallSucceeds
  <2>1. /\ phase' = phase /\ Working /\ step \in 1 .. Len(Calls) /\ step' = step + 1
        /\ last' = Calls[step].name
    BY <1>1, <1>5, CallsChain DEF CallSucceeds
  <2>2. step' \in 1 .. Len(Calls') + 1 /\ Working'
    BY <1>1, <1>2, <2>1, StepFits DEF Working
  <2>3. failed' = failed /\ timer' = timer
    BY <1>5 DEF CallSucceeds
  <2>4. last' \in CallNames
    BY <1>1, <2>1, CallFacts
  <2>5. decimation' \in Decimations /\ rate' \in Nat \cup {Unknown}
    <3>1. RateSteps(Calls[step].name)
      BY <1>5 DEF CallSucceeds
    <3>2. decimation' \in Decimations
      BY <3>1 DEF RateSteps
    <3>3. DataRate(decimation) \in Nat
      BY OptionAssumption DEF DataRate, BaseRate
    <3>4. rate' = DataRate(decimation) \/ rate' = rate
      BY <3>1 DEF RateSteps
    <3> QED BY <3>2, <3>3, <3>4
  <2> QED BY <1>1, <1>2, <1>3, <2>1, <2>2, <2>3, <2>4, <2>5
<1>6. CASE CallFails
  <2>1. /\ Working /\ step \in 1 .. Len(Calls) /\ last' = Calls[step].name
        /\ failed' = failed \/ failed' = failed \cup {Calls[step].name}
        /\ UNCHANGED <<decimation, rate, timer>>
    BY <1>1, <1>6, CallsChain DEF CallFails
  <2>2. last' \in CallNames /\ failed' \subseteq CallNames
    BY <1>1, <2>1, CallFacts
  <2>3. Calls[step].fails \in {"decide", "ignore", "return"}
    <3>1. Calls[step] \in CallType
      BY <1>1, <2>1, CallsChain
    <3> QED BY <3>1 DEF CallType
  <2>4. AfterFailure(Calls[step])
    BY <1>6 DEF CallFails
  <2>5. CASE phase' = phase /\ step' = step + 1
    <3>1. step' \in 1 .. Len(Calls') + 1 /\ Working'
      BY <1>1, <1>2, <2>1, <2>5, StepFits DEF Working
    <3> QED BY <1>1, <1>2, <1>3, <2>1, <2>2, <2>5, <3>1
  <2>6. CASE phase' \in {"buf", "node"} /\ step' = 1
    <3>1. step' \in 1 .. Len(Calls') + 1
      BY <1>1, <1>2, <2>6, StepFits
    <3> QED BY <1>1, <1>2, <1>3, <2>1, <2>2, <2>6, <3>1
  <2>7. CASE Calls[step].fails = "return"
    BY <2>4, <2>6, <2>7 DEF AfterFailure, Finish
  <2>8. CASE Calls[step].fails # "return"
    BY <2>3, <2>4, <2>5, <2>8 DEF AfterFailure
  <2> QED BY <2>7, <2>8
<1>7. CASE ReturnResult \/ Advertise
  <2>1. step' = 1 /\ phase' \in {"buf", "node", "done"} /\ UNCHANGED <<failed, last, decimation, rate>>
    BY <1>7 DEF ReturnResult, Advertise, Finish, Working
  <2>2. timer' \in Int \cup {Unknown, NoTimer}
    <3>1. opt.burst \in Int
      <4>1. opt.burst \in Bursts
        BY <1>1 DEF Option
      <4>2. Bursts \subseteq Int
        BY OptionAssumption
      <4> QED BY <4>1, <4>2
    <3>2. CASE ReturnResult
      BY <3>2 DEF ReturnResult
    <3>3. CASE Advertise
      <4>1. LoopRate \in Int \cup {Unknown}
        BY <3>1, CutType DEF LoopRate
      <4> QED BY <3>3, <4>1 DEF Advertise
    <3> QED BY <1>7, <3>2, <3>3
  <2>3. step' \in 1 .. Len(Calls') + 1
    BY <1>1, <1>2, <2>1, StepFits
  <2> QED BY <1>1, <1>2, <1>3, <2>1, <2>2, <2>3
<1>8. CASE UNCHANGED vars
  BY <1>3, <1>8 DEF vars, Calls, Working
<1> QED BY <1>4, <1>5, <1>6, <1>7, <1>8 DEF Next

\* The configuration stays within its two lists of calls, for all parameters
\* (AdiImu::config, ImuBuf::config).
THEOREM ConfigTypes == Spec => []TypeOK
<1>1. Flags /\ Values => TypeOK
  BY DEF Flags, Values, TypeOK
<1> QED BY <1>1, InitTypes, NextFlags, NextValues, PTL DEF Spec

-----------------------------------------------------------------------------
(***************************************************************************)
(* The inductive invariant of the failures.  Decided stands for "a call    *)
(* that decides has failed".  Between two calls b_success is false exactly *)
(* because of such a failure, unless nothing has been called yet; while a  *)
(* failure is not overlooked it stays false, and SetDataReady is not next. *)
(***************************************************************************)
Decided == DecidingFailures # {}

FalseHasCause ==
  /\ Working /\ step > 1 /\ ~ok => Decided
  /\ phase = "done" /\ ~result => ~opt.msgValid \/ Decided

\* ConfigDataReady of a 16495 was the last call, SetDataReady is the next.
Mending == reached /\ opt.prod = 16495 /\ Calls[step - 1].name = "ConfigDataReady"

GraveStops ==
  /\ ~Overlooked => \/ Working /\ step > 1 /\ ~ok /\ ~Mending
                    \/ phase = "done" /\ ~result
  /\ phase # "done" => ~result

Entry == Working /\ step = 1 => ~reached /\ (phase = "buf" => ok) /\ (phase = "adi" => failed = {})

\* What is known after a call was made.
Block ==
  Working /\ reached /\ step > 1 =>
    /\ Calls[step - 1].fails = "ignore" => ok
    /\ Calls[step - 1].fails = "decide" /\ ~ok => Calls[step - 1].name \in failed

FailureInv == FalseHasCause /\ GraveStops /\ Entry /\ Block

\* Nothing has failed at the start.
LEMMA InitFailure == Init => FailureInv
<1> SUFFICES ASSUME Init PROVE FailureInv
  OBVIOUS
<1>1. phase = "adi" /\ step = 1 /\ failed = {} /\ reached = FALSE /\ result = FALSE
  BY Zenon DEF Init
<1>2. Overlooked
  BY <1>1 DEF Overlooked, DecidingFailures
<1>3. ~(step > 1) /\ phase # "done"
  BY <1>1
<1> QED BY <1>1, <1>2, <1>3, Zenon DEF FailureInv, FalseHasCause, GraveStops, Entry, Block

\* What depends on the failures only.
LEMMA SameFailures ==
  ASSUME opt' = opt, failed' = failed
  PROVE  /\ DecidingFailures' = DecidingFailures
         /\ Decided' <=> Decided
         /\ Overlooked' <=> Overlooked
BY DEF Decided, DecidingFailures, Overlooked

\* A call that is made although b_success is false: the first one, a report, or
\* SetDataReady that is to mend.
LEMMA MadeKnown ==
  ASSUME FailureInv, Working, opt \in Option, step \in 1 .. Len(Calls), Made(Calls[step]), ~ok
  PROVE  \/ step = 1 /\ Calls[step].fails = "decide" /\ failed = {}
         \/ step > 1 /\ Calls[step].name \in Reports /\ Calls[step].fails = "return"
         \/ step > 1 /\ Mending /\ Calls[step].name = "SetDataReady" /\ Calls[step].fails = "decide"
<1>1. Working /\ step = 1 => ~reached /\ (phase = "adi" => failed = {}) /\ (phase = "buf" => ok)
  BY DEF FailureInv, Entry
<1>2. CASE step = 1
  BY <1>1, <1>2, MadeInSpite DEF Working
<1>3. CASE step # 1
  <2>1. CASE step > 1 /\ reached /\ Follows(Calls[step], Calls[step - 1], opt.prod)
    <3>1. Calls[step - 1].fails # "ignore"
      BY <2>1, Zenon DEF FailureInv, Block
    <3> QED BY <2>1, <3>1 DEF Follows, Mending
  <2> QED BY <1>3, <2>1, MadeInSpite
<1> QED BY <1>2, <1>3

\* So no call that is made in spite of a grave failure can hide it.
LEMMA GraveMakesReports ==
  ASSUME FailureInv, Working, opt \in Option, step \in 1 .. Len(Calls), Made(Calls[step]),
         ~Overlooked
  PROVE  /\ step > 1 /\ ~ok
         /\ Calls[step].name \in Reports /\ Calls[step].fails = "return"
<1>1. Working /\ step > 1 /\ ~ok /\ ~Mending
  BY Zenon DEF FailureInv, GraveStops, Working
<1> QED BY <1>1, MadeKnown

\* Passing over a call.
LEMMA SkipFailure ==
  ASSUME Flags, Values, FailureInv, Skip
  PROVE  FailureInv'
<1>1. /\ opt' = opt /\ phase' = phase /\ ok' = ok /\ failed' = failed /\ result' = result
      /\ ~reached' /\ step' = step + 1 /\ step \in 1 .. Len(Calls) /\ ~Made(Calls[step])
      /\ Working /\ opt \in Option
  BY CallsChain, OptionAssumption DEF Skip, Values
<1>2. (Decided' <=> Decided) /\ (Overlooked' <=> Overlooked) /\ Working' /\ ~Mending'
  BY <1>1, SameFailures DEF Working, Mending
<1>3. step > 1 /\ step' > 1
  <2>1. step = 1 => Made(Calls[step])
    BY <1>1, CallsChain DEF Chain, Made
  <2>2. step \in Nat
    BY <1>1, CallsChain
  <2> QED BY <1>1, <2>1, <2>2
<1>4. FalseHasCause' /\ GraveStops'
  BY <1>1, <1>2, <1>3, Zenon DEF FailureInv, FalseHasCause, GraveStops
<1>5. Entry' /\ Block'
  BY <1>1, <1>3 DEF Entry, Block
<1> QED BY <1>4, <1>5 DEF FailureInv

\* A call that succeeds hides an earlier failure only if it is SetDataReady.
LEMMA SuccessFailure ==
  ASSUME Flags, Values, FailureInv, CallSucceeds
  PROVE  FailureInv'
<1>1. /\ opt' = opt /\ phase' = phase /\ failed' = failed /\ result' = result
      /\ reached' = TRUE /\ step' = step + 1 /\ step \in 1 .. Len(Calls) /\ Made(Calls[step])
      /\ ok' = IF Calls[step].fails = "return" THEN ok ELSE TRUE
      /\ Working /\ opt \in Option
  BY CallsChain, OptionAssumption DEF CallSucceeds, Values
<1>2. (Decided' <=> Decided) /\ (Overlooked' <=> Overlooked) /\ Working'
  BY <1>1, SameFailures DEF Working
<1>3. step' > 1 /\ step \in Nat \ {0} /\ Calls' = Calls /\ step' - 1 = step
  BY <1>1, CallsChain DEF Calls
<1>4. phase # "done" /\ phase' # "done"
  BY <1>1 DEF Working
<1>5. FalseHasCause'
  <2>1. CASE ok'
    BY <1>4, <2>1, Zenon DEF FalseHasCause
  <2>2. CASE ~ok'
    <3>1. ~ok /\ Calls[step].fails = "return"
      BY <1>1, <2>2, Zenon
    <3>2. step > 1
      <4>1. CASE step = 1
        BY <1>1, <3>1, <4>1, CallsChain DEF Chain
      <4> QED BY <1>3, <4>1
    <3> QED BY <1>1, <1>2, <1>4, <3>1, <3>2, Zenon DEF FailureInv, FalseHasCause
  <2> QED BY <2>1, <2>2
<1>6. GraveStops'
  <2>1. ~result'
    BY <1>1, <1>4, Zenon DEF FailureInv, GraveStops
  <2>2. ASSUME ~Overlooked PROVE ~ok' /\ ~Mending'
    <3>1. ~ok /\ Calls[step].name \in Reports /\ Calls[step].fails = "return"
      BY <1>1, <2>2, GraveMakesReports
    <3>2. ~ok'
      BY <1>1, <3>1, Zenon
    <3>3. Calls[step].name # "ConfigDataReady"
      BY <3>1 DEF Reports
    <3>4. ~Mending'
      BY <1>3, <3>3 DEF Mending
    <3> QED BY <3>2, <3>4
  <2> QED BY <1>2, <1>3, <2>1, <2>2, Zenon DEF GraveStops
<1>7. Entry'
  BY <1>3 DEF Entry
<1>8. Block'
  <2>1. CASE Calls[step].fails # "return"
    BY <1>1, <1>3, <2>1, Zenon DEF Block
  <2>2. CASE Calls[step].fails = "return"
    BY <1>3, <2>2 DEF Block
  <2> QED BY <2>1, <2>2
<1> QED BY <1>5, <1>6, <1>7, <1>8 DEF FailureInv

\* A call that fails decides, is ignored, or returns true in spite of it.
LEMMA FailFailure ==
  ASSUME Flags, Values, FailureInv, CallFails
  PROVE  FailureInv'
<1>1. /\ opt' = opt /\ result' = result /\ step \in 1 .. Len(Calls) /\ Made(Calls[step])
      /\ failed' = IF Calls[step].fails = "ignore" THEN failed
                   ELSE failed \cup {Calls[step].name}
      /\ AfterFailure(Calls[step])
      /\ Working /\ opt \in Option
  BY CallsChain, OptionAssumption DEF CallFails, Values
<1>2. Calls[step].fails \in {"decide", "ignore", "return"} /\ step \in Nat \ {0}
  <2>1. Calls[step] \in CallType
    BY <1>1, CallsChain
  <2> QED BY <1>1, <2>1, CallsChain DEF CallType
<1>3. phase # "done" /\ ~result
  BY <1>1, Zenon DEF Working, FailureInv, GraveStops
<1>4. CASE Calls[step].fails = "decide"
  <2>1. /\ ok' = FALSE /\ reached' = TRUE /\ phase' = phase /\ step' = step + 1
        /\ failed' = failed \cup {Calls[step].name}
    BY <1>1, <1>4 DEF AfterFailure
  <2>2. Working' /\ step' > 1 /\ Calls' = Calls /\ step' - 1 = step
    BY <1>1, <1>2, <2>1 DEF Working, Calls
  <2>3. Decided'
    <3>1. Calls[step].name \in Deciding(AdiCalls(opt)) \cup Deciding(BufCalls(opt))
      BY <1>1, <1>4, CallFacts
    <3> QED BY <1>1, <2>1, <3>1 DEF Decided, DecidingFailures
  <2>4. ASSUME ~Overlooked', Mending' PROVE FALSE
    <3>1. opt.prod = 16495 /\ Calls[step].name = "ConfigDataReady"
      BY <1>1, <2>2, <2>4 DEF Mending
    <3>2. Overlooked
      BY <1>1, <1>4, GraveMakesReports
    <3>3. Overlooked'
      BY <1>1, <2>1, <3>1, <3>2 DEF Overlooked, DecidingFailures
    <3> QED BY <2>4, <3>3
  <2>5. FalseHasCause' /\ GraveStops'
    BY <1>1, <1>3, <2>1, <2>2, <2>3, <2>4, Zenon DEF FalseHasCause, GraveStops
  <2>6. Entry' /\ Block'
    BY <1>4, <2>1, <2>2 DEF Entry, Block
  <2> QED BY <2>5, <2>6 DEF FailureInv
<1>5. CASE Calls[step].fails = "ignore"
  <2>1. /\ ok' = ok /\ reached' = TRUE /\ phase' = phase /\ step' = step + 1
        /\ failed' = failed
    BY <1>1, <1>5 DEF AfterFailure
  <2>2. Working' /\ step' > 1 /\ Calls' = Calls /\ step' - 1 = step
    BY <1>1, <1>2, <2>1 DEF Working, Calls
  <2>3. ok
    <3> SUFFICES ASSUME ~ok PROVE FALSE
      OBVIOUS
    <3> QED BY <1>1, <1>5, MadeKnown
  <2>4. Overlooked'
    <3>1. Overlooked
      BY <1>1, <1>5, GraveMakesReports
    <3> QED BY <1>1, <2>1, <3>1, SameFailures
  <2>5. FalseHasCause' /\ GraveStops'
    BY <1>1, <1>3, <2>1, <2>2, <2>3, <2>4, Zenon DEF FalseHasCause, GraveStops
  <2>6. Entry' /\ Block'
    BY <1>5, <2>1, <2>2, <2>3 DEF Entry, Block
  <2> QED BY <2>5, <2>6 DEF FailureInv
<1>6. CASE Calls[step].fails = "return"
  <2>1. /\ ok' = TRUE /\ ~reached' /\ phase' \in {"buf", "node"} /\ step' = 1
        /\ failed' = failed \cup {Calls[step].name}
    BY <1>1, <1>6 DEF AfterFailure, Finish
  <2>2. Overlooked'
    <3>1. CASE Calls[step].name \in Reports
      BY <2>1, <3>1 DEF Overlooked
    <3>2. CASE Calls[step].name \notin Reports
      <4>1. Overlooked
        BY <1>1, <3>2, GraveMakesReports
      <4>2. Calls[step].name \notin Deciding(AdiCalls(opt)) \cup Deciding(BufCalls(opt))
        BY <1>1, <1>6, ReturnersDecideNothing
      <4>3. DecidingFailures' = DecidingFailures
        BY <1>1, <2>1, <4>2 DEF DecidingFailures
      <4> QED BY <1>1, <2>1, <4>1, <4>3 DEF Overlooked
    <3> QED BY <3>1, <3>2
  <2>3. FalseHasCause' /\ GraveStops'
    BY <1>1, <1>3, <2>1, <2>2 DEF FalseHasCause, GraveStops, Working
  <2>4. Entry' /\ Block'
    BY <2>1 DEF Entry, Block
  <2> QED BY <2>3, <2>4 DEF FailureInv
<1> QED BY <1>2, <1>4, <1>5, <1>6

\* The end of a function, and the rest of AdiImuBuf::config.
LEMMA EndFailure ==
  ASSUME Flags, Values, FailureInv, ReturnResult \/ Advertise
  PROVE  FailureInv'
<1>1. opt' = opt /\ failed' = failed
  BY DEF ReturnResult, Advertise
<1>2. (Decided' <=> Decided) /\ (Overlooked' <=> Overlooked)
  BY <1>1, SameFailures
<1>3. CASE ReturnResult
  <2>1. /\ Working /\ step > Len(Calls) /\ step' = 1 /\ ~reached' /\ ok' = ok /\ result' = result
        /\ phase' \in {"buf", "node", "done"} /\ (phase' = "done" <=> ~ok)
    BY <1>3, Zenon DEF ReturnResult, Finish, Working
  <2>2. step > 1
    BY <2>1, CallsChain, OptionAssumption DEF Values
  <2>3. phase # "done" /\ ~result
    BY <2>1, Zenon DEF Working, FailureInv, GraveStops
  <2>4. ~(step' > 1) /\ (phase' = "buf" => ok)
    BY <2>1
  <2>5. FalseHasCause' /\ GraveStops'
    BY <1>1, <1>2, <2>1, <2>2, <2>3, <2>4, Zenon DEF FailureInv, FalseHasCause, GraveStops
  <2>6. Entry' /\ Block'
    BY <2>1, <2>4 DEF Entry, Block
  <2> QED BY <2>5, <2>6 DEF FailureInv
<1>4. CASE Advertise
  <2>1. /\ phase = "node" /\ phase' = "done" /\ result' = opt.msgValid
    BY <1>4 DEF Advertise
  <2>2. ~Working /\ ~Working'
    BY <2>1 DEF Working
  <2>3. Overlooked'
    BY <1>2, <2>1, <2>2 DEF FailureInv, GraveStops
  <2>4. FalseHasCause'
    BY <1>1, <2>1, <2>2, Zenon DEF FalseHasCause
  <2>5. GraveStops'
    BY <2>1, <2>3, Zenon DEF GraveStops
  <2>6. Entry' /\ Block'
    BY <2>2 DEF Entry, Block
  <2> QED BY <2>4, <2>5, <2>6 DEF FailureInv
<1> QED BY <1>3, <1>4

\* Every step keeps the invariant of the failures.
LEMMA NextFailure == Flags /\ Values /\ FailureInv /\ [Next]_vars => FailureInv'
<1> SUFFICES ASSUME Flags, Values, FailureInv, [Next]_vars PROVE FailureInv'
  OBVIOUS
<1>1. CASE UNCHANGED vars
  BY <1>1 DEF vars, FailureInv, FalseHasCause, GraveStops, Entry, Block, Decided, Mending,
              DecidingFailures, Overlooked, Working, Calls
<1> QED BY <1>1, SkipFailure, SuccessFailure, FailFailure, EndFailure DEF Next

\* A configuration is refused only for a failure that the code decides by, or
\* for an unknown message type, for all parameters (AdiImuBuf::config).
THEOREM RefusalsCaused == Spec => []RefusedForCause
<1>1. FailureInv => RefusedForCause
  BY DEF FailureInv, FalseHasCause, RefusedForCause, Decided
<1> QED BY <1>1, InitTypes, InitFailure, NextFlags, NextValues, NextFailure, PTL DEF Spec

\* An accepted configuration has no deciding failures but those that SetDataReady
\* made good or that a failed report hides, for all parameters ("return ret" in
\* AdiImu::config and ImuBuf::config).
THEOREM LostFailures == Spec => []AcceptedFailures
<1>1. Flags /\ FailureInv => AcceptedFailures
  <2> SUFFICES ASSUME Flags, FailureInv, result PROVE Overlooked
    BY DEF AcceptedFailures
  <2>1. phase = "done"
    BY Zenon DEF FailureInv, GraveStops
  <2>2. ~Working
    BY <2>1 DEF Working
  <2> QED BY <2>2, Zenon DEF FailureInv, GraveStops
<1> QED BY <1>1, InitTypes, InitFailure, NextFlags, NextValues, NextFailure, PTL DEF Spec

\* Nothing but the reports is called once a failure has decided, in whichever of
\* the two functions, unless SetDataReady has made it good or a failed report
\* hides it, for all parameters (b_success in AdiImu::config and ImuBuf::config).
THEOREM WritesStop == Spec => NoWriteAfterFailure
<1>1. Flags /\ Values /\ FailureInv /\ [Next]_vars
        => (last' # last /\ last' \notin Reports => Overlooked)
  <2> SUFFICES ASSUME Values, FailureInv, [Next]_vars, last' # last, ~Overlooked
               PROVE  last' \in Reports
    OBVIOUS
  <2>1. CallSucceeds \/ CallFails
    BY DEF Next, Skip, ReturnResult, Advertise, vars
  <2>2. /\ Working /\ step \in 1 .. Len(Calls) /\ Made(Calls[step]) /\ opt \in Option
        /\ last' = Calls[step].name
    <3>1. opt \in Option /\ step \in 1 .. Len(Calls) + 1
      BY OptionAssumption DEF Values
    <3>2. /\ Working /\ step <= Len(Calls) /\ Made(Calls[step]) /\ last' = Calls[step].name
      BY <2>1, Zenon DEF CallSucceeds, CallFails
    <3>3. step \in 1 .. Len(Calls)
      BY <3>1, <3>2, CallsChain
    <3> QED BY <3>1, <3>2, <3>3
  <2> QED BY <2>2, GraveMakesReports
<1> QED BY <1>1, InitTypes, InitFailure, NextFlags, NextValues, NextFailure, PTL
        DEF Spec, NoWriteAfterFailure

-----------------------------------------------------------------------------
(***************************************************************************)
(* The rate: the last call of AdiImu::config is made in any case, and is   *)
(* followed by the assignment, so that only an early return leaves it out. *)
(***************************************************************************)
RateKnown ==
  /\ rate = Unknown =>
       \/ phase = "adi" /\ step <= Len(Calls)
       \/ phase = "done" /\ ~result
       \/ failed \cap Returning(AdiCalls(opt)) # {}
  /\ timer = Unknown /\ opt.burst # 0 => rate = Unknown /\ phase = "done" /\ result

\* Nothing is configured at the start.
LEMMA InitRate == Init => RateKnown
<1> SUFFICES ASSUME Init PROVE RateKnown
  OBVIOUS
<1>1. opt \in Option
  BY OptionAssumption DEF Init
<1>2. step = 1 /\ phase = "adi" /\ timer = NoTimer
  BY DEF Init
<1> QED BY <1>1, <1>2, CallsChain, OptionAssumption DEF RateKnown

\* Every step keeps it.
LEMMA NextRate == Values /\ RateKnown /\ [Next]_vars => RateKnown'
<1> SUFFICES ASSUME Values, RateKnown, [Next]_vars PROVE RateKnown'
  OBVIOUS
<1>1. opt \in Option /\ step \in 1 .. Len(Calls) + 1 /\ Len(Calls) \in Nat \ {0}
  BY OptionAssumption, CallsChain DEF Values
<1>2. opt' = opt
  BY DEF Next, Skip, CallSucceeds, CallFails, ReturnResult, Advertise, vars
<1>3. phase' = phase => Calls' = Calls
  BY <1>2 DEF Calls
<1>4. phase = "adi" => /\ Calls[Len(Calls)].name = "PrintDevInfo"
                       /\ Calls[Len(Calls)].when = "always" /\ Calls[Len(Calls)].fails = "return"
  BY <1>1, CallsChain DEF Call
<1>5. CASE Skip
  <2>1. /\ phase' = phase /\ step' = step + 1 /\ ~Made(Calls[step]) /\ phase # "done"
        /\ UNCHANGED <<failed, rate, timer, result>>
    BY <1>5 DEF Skip, Working
  <2>2. phase = "adi" => step # Len(Calls)
    BY <1>4, <2>1 DEF Made
  <2> QED BY <1>1, <1>2, <1>3, <2>1, <2>2 DEF RateKnown
<1>6. CASE CallSucceeds
  <2>1. /\ phase' = phase /\ step' = step + 1 /\ phase # "done" /\ step <= Len(Calls)
        /\ RateSteps(Calls[step].name) /\ UNCHANGED <<failed, timer, result>>
    BY <1>6 DEF CallSucceeds, Working
  <2>2. CASE Calls[step].name = "PrintDevInfo"
    <3>1. rate' = DataRate(decimation)
      BY <2>1, <2>2 DEF RateSteps
    <3>2. DataRate(decimation) \in Nat
      BY OptionAssumption DEF DataRate, BaseRate, Values
    <3>3. rate' # Unknown
      BY <3>1, <3>2, OptionAssumption
    <3> QED BY <1>2, <2>1, <3>3 DEF RateKnown
  <2>3. CASE Calls[step].name # "PrintDevInfo"
    <3>1. rate' = rate /\ (phase = "adi" => step # Len(Calls))
      BY <1>4, <2>1, <2>3 DEF RateSteps
    <3> QED BY <1>1, <1>2, <1>3, <2>1, <3>1 DEF RateKnown
  <2> QED BY <2>2, <2>3
<1>7. CASE CallFails
  <2>1. /\ Working /\ phase # "done" /\ step \in 1 .. Len(Calls) /\ AfterFailure(Calls[step])
        /\ failed' = IF Calls[step].fails = "ignore" THEN failed
                     ELSE failed \cup {Calls[step].name}
        /\ UNCHANGED <<rate, timer, result>>
    BY <1>1, <1>7 DEF CallFails, Working
  <2>2. failed \cap Returning(AdiCalls(opt)) # {} => failed' \cap Returning(AdiCalls(opt)) # {}
    BY <2>1
  <2>3. Calls[step].fails \in {"decide", "ignore", "return"}
    <3>1. Calls[step] \in CallType
      BY <1>1, <2>1, CallsChain
    <3> QED BY <3>1 DEF CallType
  <2>4. CASE Calls[step].fails = "return"
    <3>1. phase' \in {"buf", "node"}
      BY <2>1, <2>4 DEF AfterFailure, Finish
    <3>2. phase = "adi" => failed' \cap Returning(AdiCalls(opt)) # {}
      BY <1>1, <2>1, <2>4, CallFacts
    <3> QED BY <1>2, <2>1, <2>2, <3>1, <3>2 DEF RateKnown
  <2>5. CASE Calls[step].fails # "return"
    <3>1. phase' = phase /\ step' = step + 1
      BY <2>1, <2>3, <2>5 DEF AfterFailure
    <3>2. phase = "adi" => step # Len(Calls)
      BY <1>4, <2>5
    <3> QED BY <1>1, <1>2, <1>3, <2>1, <2>2, <3>1, <3>2 DEF RateKnown
  <2> QED BY <2>4, <2>5
<1>8. CASE ReturnResult
  <2>1. /\ phase # "done" /\ step > Len(Calls) /\ phase' \in {"buf", "node", "done"}
        /\ UNCHANGED <<failed, rate, timer, result>>
    BY <1>8 DEF ReturnResult, Working, Finish
  <2> QED BY <1>1, <1>2, <2>1 DEF RateKnown
<1>9. CASE Advertise
  <2>1. /\ phase = "node" /\ phase' = "done" /\ failed' = failed /\ rate' = rate
        /\ timer' = (IF opt.msgValid THEN LoopRate ELSE NoTimer) /\ result' = opt.msgValid
    BY <1>9 DEF Advertise
  <2>2. rate = Unknown => failed' \cap Returning(AdiCalls(opt)) # {}
    BY <2>1 DEF RateKnown
  <2>3. timer' = Unknown /\ opt.burst # 0 => rate = Unknown /\ opt.msgValid
    <3>1. CASE rate # Unknown /\ opt.burst # 0
      <4>1. opt.burst \in Int
        <5>1. opt.burst \in Bursts
          BY <1>1 DEF Option
        <5>2. Bursts \subseteq Int
          BY OptionAssumption
        <5> QED BY <5>1, <5>2
      <4>2. 2 * rate \in Nat
        BY <3>1 DEF Values
      <4>3. LoopRate \in Int
        BY <3>1, <4>1, <4>2, CutType DEF LoopRate
      <4> QED BY <2>1, <4>3, OptionAssumption
    <3>2. CASE rate = Unknown \/ opt.burst = 0
      BY <2>1, <3>2, OptionAssumption
    <3> QED BY <3>1, <3>2
  <2> QED BY <1>2, <2>1, <2>2, <2>3 DEF RateKnown
<1>10. CASE UNCHANGED vars
  BY <1>3, <1>10 DEF vars, RateKnown
<1> QED BY <1>5, <1>6, <1>7, <1>8, <1>9, <1>10 DEF Next

\* A timer whose rate was never worked out has a failed call behind it, for all
\* parameters (AdiImu::getImuDataRateHz).
THEOREM RateSources == Spec => []TimerRateKnown
<1>1. RateKnown => TimerRateKnown
  BY DEF RateKnown, TimerRateKnown
<1> QED BY <1>1, InitTypes, InitRate, NextValues, NextRate, PTL DEF Spec

-----------------------------------------------------------------------------
(***************************************************************************)
(* The speed of the timer.  The rate is worked out from the register after *)
(* the last time that it is written, and the timer from the rate.          *)
(***************************************************************************)
\* What a division of natural numbers leaves.
LEMMA Division ==
  ASSUME NEW a \in Nat, NEW b \in Nat \ {0}
  PROVE  /\ a \div b \in Nat
         /\ (a \div b) * b <= a
         /\ a < (a \div b) * b + b
BY SMTT(60)

\* A positive product has no factor zero.
LEMMA Positive ==
  ASSUME NEW x \in Nat, NEW y \in Nat \ {0}, x * y > 0
  PROVE x >= 1
<1>1. CASE x = 0
  BY <1>1
<1> QED BY <1>1

\* Twice the whole hertz, cut to an int once more, are still faster than the
\* data: a quotient of one or more loses less than half of itself.
LEMMA WholeHertz ==
  ASSUME NEW base \in Nat, NEW d \in Nat, NEW burst \in Nat \ {0},
         burst <= 2 * (base \div (d + 1))
  PROVE  ((2 * (base \div (d + 1))) \div burst) * burst * (d + 1) > base
<1> DEFINE R == base \div (d + 1)
           q == (2 * R) \div burst
           p == q * burst
<1>1. R \in Nat /\ base < R * (d + 1) + (d + 1)
  BY Division
<1>2. q \in Nat /\ p <= 2 * R /\ 2 * R < p + burst
  <2>1. 2 * R \in Nat
    BY <1>1
  <2> HIDE DEF R
  <2> QED BY <2>1, Division
<1> HIDE DEF R, q
<1>3. p \in Nat
  BY <1>2
<1>4. q >= 1
  <2>1. p > 0
    BY <1>1, <1>2, <1>3 DEF R
  <2> QED BY <1>2, <2>1, Positive
<1>5. p >= burst
  <2>1. PICK k \in Nat : q = k + 1
    <3>1. q - 1 \in Nat /\ q = (q - 1) + 1
      BY <1>2, <1>4
    <3> QED BY <3>1
  <2>2. (k + 1) * burst = k * burst + burst /\ k * burst >= 0
    BY SMTT(30)
  <2> QED BY <2>1, <2>2
<1>6. p >= R + 1
  <2> HIDE DEF p
  <2> QED BY <1>1, <1>2, <1>3, <1>5
<1>7. p * (d + 1) >= R * (d + 1) + (d + 1)
  <2>1. PICK k \in Nat : p = R + 1 + k
    <3> HIDE DEF p
    <3>1. p - (R + 1) \in Nat /\ p = R + 1 + (p - (R + 1))
      BY <1>1, <1>3, <1>6
    <3> QED BY <3>1
  <2>2. (R + 1 + k) * (d + 1) = R * (d + 1) + (d + 1) + k * (d + 1) /\ k * (d + 1) >= 0
    BY <1>1, SMTT(30)
  <2>3. R * (d + 1) \in Nat
    BY <1>1
  <2> QED BY <2>1, <2>2, <2>3
<1>8. p * (d + 1) > base
  <2>1. R * (d + 1) \in Nat /\ p * (d + 1) \in Nat
    BY <1>1, <1>3
  <2> HIDE DEF p
  <2> QED BY <1>1, <1>7, <2>1
<1> QED BY <1>8 DEF R, q

RateTrue ==
  /\ rate # Unknown => rate = DataRate(decimation) /\ (phase # "adi" \/ step > 1)
  /\ timer # NoTimer => phase = "done" /\ timer = LoopRate

\* There is no timer at the start.
LEMMA InitRateTrue == Init => RateTrue
BY DEF Init, RateTrue

\* The data rate is set by the first call of AdiImu::config and by no other.
LEMMA RateSetFirst ==
  ASSUME opt \in Option, Working, step \in 1 .. Len(Calls),
         Calls[step].name = "SetOutputDataRate"
  PROVE  phase = "adi" /\ step = 1
<1>1. Calls[step] \in CallType
  BY CallsChain
<1>2. Calls[step].when = "always" /\ Calls[step].fails # "return"
  BY <1>1 DEF CallType, Returners, Reports
<1>3. step = 1
  <2>1. step \notin 2 .. Len(Calls)
    BY <1>2, CallsChain DEF Chain
  <2> QED BY <2>1, CallsChain
<1>4. phase = "adi"
  BY <1>3, BufChain DEF Calls, Call
<1> QED BY <1>3, <1>4

\* Every step keeps it.
LEMMA NextRateTrue == Values /\ RateTrue /\ [Next]_vars => RateTrue'
<1> SUFFICES ASSUME Values, RateTrue, [Next]_vars PROVE RateTrue'
  OBVIOUS
<1>1. opt \in Option /\ step \in 1 .. Len(Calls) + 1 /\ Len(Calls) \in Nat \ {0}
  BY OptionAssumption, CallsChain DEF Values
<1>2. opt' = opt
  BY DEF Next, Skip, CallSucceeds, CallFails, ReturnResult, Advertise, vars
<1>3. CASE Skip
  BY <1>1, <1>2, <1>3 DEF Skip, Working, RateTrue, DataRate, LoopRate
<1>4. CASE CallSucceeds
  <2>1. /\ phase' = phase /\ step' = step + 1 /\ Working /\ phase # "done"
        /\ step \in 1 .. Len(Calls)
        /\ RateSteps(Calls[step].name) /\ UNCHANGED timer
    BY <1>1, <1>4 DEF CallSucceeds, Working
  <2>2. timer' = NoTimer /\ step' > 1
    BY <2>1 DEF RateTrue
  <2>3. CASE Calls[step].name = "PrintDevInfo"
    <3>1. rate' = DataRate(decimation) /\ decimation' = decimation
      BY <2>1, <2>3 DEF RateSteps
    <3> QED BY <1>2, <2>2, <3>1 DEF RateTrue, DataRate
  <2>4. CASE Calls[step].name = "SetOutputDataRate"
    <3>1. rate' = rate /\ rate = Unknown
      BY <1>1, <2>1, <2>4, RateSetFirst DEF RateSteps, RateTrue
    <3> QED BY <2>2, <3>1 DEF RateTrue
  <2>5. CASE Calls[step].name \notin {"PrintDevInfo", "SetOutputDataRate"}
    <3>1. rate' = rate /\ decimation' = decimation
      BY <2>1, <2>5 DEF RateSteps
    <3> QED BY <1>2, <2>2, <3>1 DEF RateTrue, DataRate
  <2> QED BY <2>3, <2>4, <2>5
<1>5. CASE CallFails
  <2>1. /\ Working /\ phase # "done" /\ step \in 1 .. Len(Calls)
        /\ AfterFailure(Calls[step]) /\ UNCHANGED <<decimation, rate, timer>>
    BY <1>1, <1>5 DEF CallFails, Working
  <2>2. Calls[step].fails \in {"decide", "ignore", "return"}
    <3>1. Calls[step] \in CallType
      BY <1>1, <2>1, CallsChain
    <3> QED BY <3>1 DEF CallType
  <2>3. (phase' = phase /\ step' = step + 1) \/ phase' # "adi"
    BY <2>1, <2>2 DEF AfterFailure, Finish
  <2> QED BY <1>1, <1>2, <2>1, <2>3 DEF RateTrue, DataRate
<1>6. CASE ReturnResult
  BY <1>2, <1>6 DEF ReturnResult, Finish, Working, RateTrue, DataRate
<1>7. CASE Advertise
  <2>1. /\ phase' = "done" /\ UNCHANGED <<decimation, rate>>
        /\ timer' = (IF opt.msgValid THEN LoopRate ELSE NoTimer)
    BY <1>7 DEF Advertise
  <2> QED BY <1>2, <2>1 DEF RateTrue, DataRate, LoopRate
<1>8. CASE UNCHANGED vars
  BY <1>2, <1>8 DEF vars, RateTrue, DataRate, LoopRate
<1> QED BY <1>3, <1>4, <1>5, <1>6, <1>7, <1>8 DEF Next

\* A timer of a known rate outruns the IMU for every decimation and every burst
\* of at most two seconds of frames (AdiImuBuf::config).
THEOREM TimerFast == Spec => []TimerKeepsUp
<1>1. Values /\ RateTrue => TimerKeepsUp
  <2> SUFFICES ASSUME Values, RateTrue, timer \notin {NoTimer, Unknown},
                      opt.burst \in 1 .. 2 * rate
               PROVE  timer * opt.burst * (decimation + 1) > BaseRate(opt.prod)
    BY DEF TimerKeepsUp
  <2>1. timer = LoopRate /\ decimation \in Nat /\ rate \in Nat \cup {Unknown}
    BY OptionAssumption DEF RateTrue, Values
  <2>2. rate # Unknown
    BY <2>1 DEF LoopRate, Cut
  <2>3. rate = BaseRate(opt.prod) \div (decimation + 1) /\ BaseRate(opt.prod) \in Nat
    BY <2>2 DEF RateTrue, DataRate, BaseRate
  <2>4. opt.burst \in Nat \ {0} /\ opt.burst <= 2 * rate /\ 2 * rate \in Nat
    BY <2>1, <2>2
  <2>5. 2 * rate # Unknown
    BY <2>4, OptionAssumption
  <2>6. timer = (2 * rate) \div opt.burst
    BY <2>1, <2>2, <2>4, <2>5 DEF LoopRate, Cut
  <2> QED BY <2>1, <2>3, <2>4, <2>6, WholeHertz
<1> QED BY <1>1, InitTypes, InitRateTrue, NextValues, NextRateTrue, PTL DEF Spec

=============================================================================
