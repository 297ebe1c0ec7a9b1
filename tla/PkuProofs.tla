------------------------------ MODULE PkuProofs ------------------------------
(***************************************************************************)
(* What a success shown by the PKU tab means, for any number of tabs and   *)
(* other clients, any input, and whatever crashes or stops in between.     *)
(***************************************************************************)
EXTENDS PkuProps, TLAPS

\* What the service makes of what a client asks.
Wanted(a) == SendCommand(a.id, a.parameter)

\* No text of it had a ";" of its own.
Uncut(a) ==
  /\ a.button = "write_main" => Len(a.parameter) = 8
  /\ a.button = "send_rk" => Len(a.parameter) = 3

\* The service makes of it what the operator meant, or refuses it.
Meant(a) ==
  /\ a.button = "version" => a.meant = None
  /\ a.meant # None /\ Uncut(a) =>
       Failed(Wanted(a)) \/ Wanted(a) = a.meant

\* The request of a client on its way to the driver, and what a success says.
CallInv(c) ==
  /\ stage[c] \in {"driver", "inside"} =>
       request[c] = Wanted(asked[c]) /\ ~Failed(Wanted(asked[c]))
  /\ stage[c] = "answer" /\ response[c].success =>
       carried[c] = Wanted(asked[c]) /\ ~Failed(Wanted(asked[c]))
  /\ c \in Tabs /\ stage[c] # "none" => Meant(asked[c])

\* The types, and the domains they say nothing of.
Domains ==
  /\ TypeOK
  /\ DOMAIN asked = Clients /\ DOMAIN request = Clients /\ DOMAIN carried = Clients
  /\ DOMAIN saw = Clients /\ DOMAIN response = Clients
  /\ DOMAIN store = {"durations", "modes", "rk", "information"}

PkuInv == Domains /\ \A c \in Clients : CallInv(c)

-----------------------------------------------------------------------------
(* The way there and back through the text: every button's parameter is    *)
(* taken apart into what was meant.                                        *)

\* Six texts, none of them empty, that are six pieces together are one each.
LEMMA SixOnes ==
  ASSUME NEW m \in Nat \ {0}, NEW n \in Nat \ {0}, NEW o \in Nat \ {0},
         NEW p \in Nat \ {0}, NEW q \in Nat \ {0}, NEW t \in Nat \ {0},
         m + n + o + p + q + t = 6
  PROVE  m = 1 /\ n = 1 /\ o = 1 /\ p = 1 /\ q = 1 /\ t = 1
OBVIOUS

\* What follows k elements comes at k + 1.
LEMMA Joined ==
  ASSUME NEW S, NEW s \in Seq(S), NEW t \in Seq(S)
  PROVE  /\ s \o t \in Seq(S) /\ Len(s \o t) = Len(s) + Len(t)
         /\ Len(s) \in Nat /\ Len(t) \in Nat
         /\ \A k \in 1..Len(s) : (s \o t)[k] = s[k]
         /\ t # << >> => (s \o t)[Len(s) + 1] = t[1]
OBVIOUS

LEMMA Behind ==
  ASSUME NEW S, NEW s \in Seq(S), NEW t \in Seq(S)
  PROVE  \A k \in 1..Len(t) : (s \o t)[Len(s) + k] = t[k]
OBVIOUS

\* The parameter of six texts and two more pieces, and that its pieces are the
\* first ones of the texts in their order.
Line(a, b, c, d, e, f, x, y) == a \o b \o c \o d \o e \o f \o <<x, y>>

InOrder(w, a, b, c, d, e, f, x) ==
  /\ w[1] = a[1] /\ w[2] = b[1] /\ w[3] = c[1] /\ w[4] = d[1] /\ w[5] = e[1]
  /\ w[6] = f[1] /\ w[7] = x

LEMMA SixPieces ==
  ASSUME NEW S, NEW w, NEW a \in Seq(S), NEW b \in Seq(S), NEW c \in Seq(S),
         NEW d \in Seq(S), NEW e \in Seq(S), NEW f \in Seq(S), NEW x \in S, NEW y \in S,
         a # << >>, b # << >>, c # << >>, d # << >>, e # << >>, f # << >>,
         w = Line(a, b, c, d, e, f, x, y), Len(w) = 8
  PROVE  InOrder(w, a, b, c, d, e, f, x)
<1> DEFINE u2 == a \o b
           u3 == u2 \o c
           u4 == u3 \o d
           u5 == u4 \o e
           u6 == u5 \o f
           z == <<x, y>>
           v == u6 \o z
<1>w. w = v
  BY DEF Line
<1>y. z \in Seq(S) /\ z # << >>
  OBVIOUS
<1>z. Len(z) = 2 /\ z[1] = x
  OBVIOUS
<1> HIDE DEF z
<1>u2. u2 \in Seq(S)
  OBVIOUS
<1>2. /\ Len(u2) = Len(a) + Len(b)
      /\ Len(a) \in Nat /\ Len(b) \in Nat
      /\ \A k \in 1..Len(a) : u2[k] = a[k]
      /\ u2[Len(a) + 1] = b[1]
  BY Joined
<1> HIDE DEF u2
<1>u3. u3 \in Seq(S)
  BY <1>u2
<1>3. /\ Len(u3) = Len(u2) + Len(c)
      /\ Len(u2) \in Nat /\ Len(c) \in Nat
      /\ \A k \in 1..Len(u2) : u3[k] = u2[k]
      /\ u3[Len(u2) + 1] = c[1]
  BY <1>u2, Joined
<1> HIDE DEF u3
<1>u4. u4 \in Seq(S)
  BY <1>u3
<1>4. /\ Len(u4) = Len(u3) + Len(d)
      /\ Len(u3) \in Nat /\ Len(d) \in Nat
      /\ \A k \in 1..Len(u3) : u4[k] = u3[k]
      /\ u4[Len(u3) + 1] = d[1]
  BY <1>u3, Joined
<1> HIDE DEF u4
<1>u5. u5 \in Seq(S)
  BY <1>u4
<1>5. /\ Len(u5) = Len(u4) + Len(e)
      /\ Len(u4) \in Nat /\ Len(e) \in Nat
      /\ \A k \in 1..Len(u4) : u5[k] = u4[k]
      /\ u5[Len(u4) + 1] = e[1]
  BY <1>u4, Joined
<1> HIDE DEF u5
<1>u6. u6 \in Seq(S)
  BY <1>u5
<1>6. /\ Len(u6) = Len(u5) + Len(f)
      /\ Len(u5) \in Nat /\ Len(f) \in Nat
      /\ \A k \in 1..Len(u5) : u6[k] = u5[k]
      /\ u6[Len(u5) + 1] = f[1]
  BY <1>u5, Joined
<1> HIDE DEF u6
<1>7. /\ Len(v) = Len(u6) + Len(z)
      /\ \A k \in 1..Len(u6) : v[k] = u6[k]
      /\ v[Len(u6) + 1] = z[1]
  BY <1>u6, <1>y, Joined
<1> HIDE DEF v
<1>8. /\ Len(a) = 1 /\ Len(b) = 1 /\ Len(c) = 1
      /\ Len(d) = 1 /\ Len(e) = 1 /\ Len(f) = 1
  <2> DEFINE la == Len(a)
             lb == Len(b)
             lc == Len(c)
             ld == Len(d)
             le == Len(e)
             lf == Len(f)
             l2 == Len(u2)
             l3 == Len(u3)
             l4 == Len(u4)
             l5 == Len(u5)
             l6 == Len(u6)
  <2>1. la \in Nat \ {0} /\ lb \in Nat \ {0}
    OBVIOUS
  <2>2. lc \in Nat \ {0} /\ ld \in Nat \ {0}
    OBVIOUS
  <2>3. le \in Nat \ {0} /\ lf \in Nat \ {0}
    OBVIOUS
  <2>4. l6 \in Nat
    BY <1>6
  <2>5. l6 + 2 = 8
    BY <1>7, <1>w, <1>z
  <2>6. l2 = la + lb /\ l3 = l2 + lc /\ l4 = l3 + ld /\ l5 = l4 + le /\ l6 = l5 + lf
    BY <1>2, <1>3, <1>4, <1>5, <1>6
  <2> HIDE DEF la, lb, lc, ld, le, lf, l2, l3, l4, l5, l6
  <2>7. la + lb + lc + ld + le + lf = 6
    BY <2>1, <2>2, <2>3, <2>4, <2>5, <2>6
  <2>8. la = 1 /\ lb = 1 /\ lc = 1 /\ ld = 1 /\ le = 1 /\ lf = 1
    BY <2>1, <2>2, <2>3, <2>7, SixOnes
  <2> QED
    BY <2>8 DEF la, lb, lc, ld, le, lf
<1>9. u2[1] = a[1] /\ u2[2] = b[1] /\ Len(u2) = 2
  BY <1>2, <1>8
<1>10. u3[1] = a[1] /\ u3[2] = b[1] /\ u3[3] = c[1] /\ Len(u3) = 3
  BY <1>3, <1>8, <1>9
<1>11. u4[1] = a[1] /\ u4[2] = b[1] /\ u4[3] = c[1] /\ u4[4] = d[1] /\ Len(u4) = 4
  BY <1>4, <1>8, <1>10
<1>12. /\ u5[1] = a[1] /\ u5[2] = b[1] /\ u5[3] = c[1] /\ u5[4] = d[1] /\ u5[5] = e[1]
       /\ Len(u5) = 5
  BY <1>5, <1>8, <1>11
<1>13. /\ u6[1] = a[1] /\ u6[2] = b[1] /\ u6[3] = c[1] /\ u6[4] = d[1] /\ u6[5] = e[1]
       /\ u6[6] = f[1] /\ Len(u6) = 6
  BY <1>6, <1>8, <1>12
<1>14. \A k \in 1..6 : v[k] = u6[k]
  BY <1>7, <1>13
<1>15. v[7] = x
  BY <1>7, <1>13, <1>z
<1> QED
  BY <1>13, <1>14, <1>15, <1>w DEF InOrder

LEMMA WriteMainMeant ==
  ASSUME NEW i \in Informations
  PROVE  LET p == i.pieces IN
         Meant([button |-> "write_main", id |-> 4,
                parameter |-> p["description"] \o p["mac"] \o p["ip"] \o p["netmask"]
                                \o p["gateway"] \o p["dns"] \o <<IF i.use_dhcp THEN 1 ELSE 0, Op>>,
                meant |-> [rpc |-> "WriteMainInfo", use_dhcp |-> i.use_dhcp,
                           fields |-> [f \in Fields |-> p[f][1]]]])
<1> DEFINE p == i.pieces
           w == p["description"] \o p["mac"] \o p["ip"] \o p["netmask"]
                  \o p["gateway"] \o p["dns"] \o <<IF i.use_dhcp THEN 1 ELSE 0, Op>>
           m == [rpc |-> "WriteMainInfo", use_dhcp |-> i.use_dhcp,
                 fields |-> [f \in Fields |-> p[f][1]]]
<1>1. ASSUME Len(w) = 8 PROVE SendCommand(4, w) = m
  <2>1. \A f \in Fields : p[f] \in Seq(NotNumbers \union Int) /\ p[f] # << >>
    BY InformationsAssumption DEF InformationsAssumption
  <2> DEFINE S == NotNumbers \union Int \union {Op}
             x == IF i.use_dhcp THEN 1 ELSE 0
  <2>a. ASSUME NEW f \in Fields PROVE p[f] \in Seq(S)
    <3>1. p[f] \in Seq(NotNumbers \union Int)
      BY <2>1
    <3>2. Len(p[f]) \in Nat /\ p[f] = [k \in 1..Len(p[f]) |-> p[f][k]]
          /\ \A k \in 1..Len(p[f]) : p[f][k] \in S
      BY <3>1
    <3> QED
      BY <3>2
  <2>b. x \in S /\ Op \in S
    OBVIOUS
  <2>2. /\ w[1] = p["description"][1] /\ w[2] = p["mac"][1] /\ w[3] = p["ip"][1]
        /\ w[4] = p["netmask"][1] /\ w[5] = p["gateway"][1] /\ w[6] = p["dns"][1] /\ w[7] = x
    <3> DEFINE a == p["description"]
               b == p["mac"]
               c == p["ip"]
               d == p["netmask"]
               e == p["gateway"]
               f == p["dns"]
    <3>1. w = Line(a, b, c, d, e, f, x, Op)
      BY DEF Line
    <3>2. /\ a \in Seq(S) /\ b \in Seq(S) /\ c \in Seq(S)
          /\ d \in Seq(S) /\ e \in Seq(S) /\ f \in Seq(S)
      BY <2>a DEF Fields
    <3>3. a # << >> /\ b # << >> /\ c # << >> /\ d # << >> /\ e # << >> /\ f # << >>
      BY <2>1 DEF Fields
    <3>4. Len(w) = 8
      BY <1>1
    <3> HIDE DEF S, p, w, x, a, b, c, d, e, f
    <3>5. InOrder(w, a, b, c, d, e, f, x)
      BY <2>b, <3>1, <3>2, <3>3, <3>4, SixPieces
    <3> QED
      BY <3>5 DEF InOrder, a, b, c, d, e, f
  <2> HIDE DEF w
  <2>3. SendCommand(4, w) = [rpc |-> "WriteMainInfo", use_dhcp |-> w[7] = 1,
          fields |-> [description |-> w[1], mac |-> w[2], ip |-> w[3],
                      netmask |-> w[4], gateway |-> w[5], dns |-> w[6]]]
    BY <1>1 DEF SendCommand, MainInformationWritingExecutor, StrToWriteMainInfoRequest
  <2>4. (w[7] = 1) = i.use_dhcp
    BY <2>2, InformationsAssumption DEF InformationsAssumption
  <2>5. [description |-> w[1], mac |-> w[2], ip |-> w[3],
         netmask |-> w[4], gateway |-> w[5], dns |-> w[6]] = [f \in Fields |-> p[f][1]]
    BY <2>2 DEF Fields
  <2> QED
    BY <2>3, <2>4, <2>5
<1> HIDE DEF w, m
<1>2. Meant([button |-> "write_main", id |-> 4, parameter |-> w, meant |-> m])
  BY <1>1 DEF Meant, Uncut, Wanted
<1> QED
  BY <1>2 DEF w, m

LEMMA ReadPkuMeant ==
  ASSUME NEW s \in Selections
  PROVE  Meant([button |-> "read_pku", id |-> 5, parameter |-> Append(s, Op),
                meant |-> [rpc |-> "ReadPku", indices |-> s]])
<1>1. s \in Seq(Listed)
  BY SelectionsAssumption DEF SelectionsAssumption
<1>2. SubSeq(Append(s, Op), 1, Len(Append(s, Op)) - 1) = s
  BY <1>1
<1>3. \/ SendCommand(5, Append(s, Op)) = [rpc |-> "ReadPku", indices |-> s]
      \/ SendCommand(5, Append(s, Op)) = Error("index")
  BY <1>2 DEF SendCommand, PkuReadingExecutor, StrToReadPkuRequest
<1> QED
  BY <1>3 DEF Meant, Wanted, Error, Failed

LEMMA SetModeMeant ==
  ASSUME NEW i, NEW m
  PROVE  Meant([button |-> "set_mode", id |-> 6, parameter |-> <<i, m, Op>>,
                meant |-> [rpc |-> "SetPkuMode", index |-> i, value |-> m]])
<1>1. \A x, y : Failed(Parse(x, y)) \/ Parse(x, y) = [value |-> x]
  BY DEF Failed, Parse, Error
<1> DEFINE v == Parse(i, "index")
           u == Parse(m, "mode")
           r == SendCommand(6, <<i, m, Op>>)
<1>2. r = IF Failed(v) THEN v
          ELSE Both(u, [value |-> Op], [rpc |-> "SetPkuMode", index |-> v.value, value |-> u.value])
  BY DEF SendCommand, PkuModeSettingExecutor, StrToSetPkuModeRequest
<1>3. (Failed(v) \/ v = [value |-> i]) /\ (Failed(u) \/ u = [value |-> m])
  BY <1>1
<1> HIDE DEF v, u, r
<1>4. Failed(r) \/ r = [rpc |-> "SetPkuMode", index |-> i, value |-> m]
  <2>1. CASE Failed(v)
    BY <1>2, <2>1
  <2>2. CASE ~Failed(v) /\ Failed(u)
    BY <1>2, <2>2 DEF Both
  <2>3. CASE ~Failed(v) /\ ~Failed(u)
    <3>1. ~Failed([value |-> Op])
      BY DEF Failed
    <3>2. v.value = i /\ u.value = m
      BY <1>3, <2>3
    <3> QED
      BY <1>2, <2>3, <3>1, <3>2 DEF Both
  <2> QED
    BY <2>1, <2>2, <2>3
<1> QED
  BY <1>4 DEF Meant, Wanted, r

LEMMA SendRkMeant ==
  ASSUME NEW x \in RkInputs
  PROVE  Meant([button |-> "send_rk", id |-> 7, parameter |-> x.index \o x.duration \o <<Op>>,
                meant |-> [rpc |-> "SendRkByIndex", index |-> x.index[1],
                           value |-> x.duration[1]]])
<1> DEFINE S == NotNumbers \union Int \union {Op}
           a == x.index
           b == x.duration
           u == a \o b
           z == <<Op>>
           w == u \o z
           m == [rpc |-> "SendRkByIndex", index |-> a[1], value |-> b[1]]
<1>1. a \in Seq(S) /\ a # << >> /\ b \in Seq(S) /\ b # << >>
  <2>1. \A f \in {"index", "duration"} : x[f] \in Seq(NotNumbers \union Int) /\ x[f] # << >>
    BY RkInputsAssumption DEF RkInputsAssumption
  <2>2. \A q \in Seq(NotNumbers \union Int) : q \in Seq(S)
    <3> TAKE q \in Seq(NotNumbers \union Int)
    <3>1. Len(q) \in Nat /\ q = [k \in 1..Len(q) |-> q[k]] /\ \A k \in 1..Len(q) : q[k] \in S
      OBVIOUS
    <3> QED
      BY <3>1
  <2> QED
    BY <2>1, <2>2
<1>2. z \in Seq(S) /\ Len(z) = 1
  OBVIOUS
<1> HIDE DEF S, a, b, z
<1>3. /\ u \in Seq(S) /\ Len(u) = Len(a) + Len(b) /\ Len(a) \in Nat \ {0} /\ Len(b) \in Nat \ {0}
      /\ \A k \in 1..Len(a) : u[k] = a[k]
      /\ u[Len(a) + 1] = b[1]
  BY <1>1, Joined
<1> HIDE DEF u
<1>4. Len(w) = Len(u) + 1 /\ \A k \in 1..Len(u) : w[k] = u[k]
  <2>1. u \in Seq(S) /\ z \in Seq(S)
    BY ONLY <1>2, <1>3
  <2>2. Len(w) = Len(u) + Len(z) /\ \A k \in 1..Len(u) : w[k] = u[k]
    BY ONLY <2>1, Joined
  <2> HIDE DEF w
  <2> QED
    BY ONLY <1>2, <2>2
<1> HIDE DEF w
<1>5. ASSUME Len(w) = 3 PROVE Failed(SendCommand(7, w)) \/ SendCommand(7, w) = m
  <2>1. w[1] = a[1] /\ w[2] = b[1]
    <3>1. Len(a) = 1 /\ Len(b) = 1 /\ Len(u) = 2
      <4>1. \A i, j \in Nat \ {0} : i + j + 1 = 3 => i = 1 /\ j = 1 /\ i + j = 2
        OBVIOUS
      <4>2. Len(a) \in Nat \ {0} /\ Len(b) \in Nat \ {0} /\ Len(u) = Len(a) + Len(b)
        BY ONLY <1>3
      <4>3. Len(w) = Len(u) + 1
        BY ONLY <1>4
      <4> QED
        BY ONLY <1>5, <4>1, <4>2, <4>3
    <3> QED
      BY ONLY <1>3, <1>4, <3>1
  <2>2. \A y, q : Failed(Parse(y, q)) \/ Parse(y, q) = [value |-> y]
    BY DEF Failed, Parse, Error
  <2> DEFINE v == Parse(w[1], "index")
             d == Parse(w[2], "duration")
             r == SendCommand(7, w)
  <2>3. r = IF Failed(v) THEN v
            ELSE Both(d, [value |-> w[3]],
                      [rpc |-> "SendRkByIndex", index |-> v.value, value |-> d.value])
    BY <1>5 DEF SendCommand, RkSendingExecutor, StrToSendRkByIndexRequest
  <2>4. (Failed(v) \/ v = [value |-> a[1]]) /\ (Failed(d) \/ d = [value |-> b[1]])
    BY <2>1, <2>2
  <2> HIDE DEF v, d, r
  <2>5. CASE Failed(v)
    BY <2>3, <2>5 DEF r
  <2>6. CASE ~Failed(v) /\ Failed(d)
    BY <2>3, <2>6 DEF Both, r
  <2>7. CASE ~Failed(v) /\ ~Failed(d)
    <3>1. ~Failed([value |-> w[3]])
      BY DEF Failed
    <3>2. v.value = a[1] /\ d.value = b[1]
      BY <2>4, <2>7
    <3> QED
      BY <2>3, <2>7, <3>1, <3>2 DEF Both, r
  <2> QED
    BY <2>5, <2>6, <2>7
<1> HIDE DEF m
<1>6. Meant([button |-> "send_rk", id |-> 7, parameter |-> w, meant |-> m])
  BY <1>5 DEF Meant, Uncut, Wanted
<1> QED
  BY <1>6 DEF w, u, z, a, b, m

\* The other buttons mean no more than their command.
LEMMA PlainlyMeant ==
  ASSUME NEW name, NEW id
  PROVE  Meant(Plainly(name, id))
BY DEF Meant, Plainly

-----------------------------------------------------------------------------
(* The invariant.                                                          *)

\* A step that leaves a call alone.
LEMMA CallKept ==
  ASSUME NEW c \in Clients, CallInv(c),
         asked'[c] = asked[c], stage'[c] = stage[c], request'[c] = request[c],
         carried'[c] = carried[c], response'[c] = response[c]
  PROVE  CallInv(c)'
BY DEF CallInv, Wanted

\* A call that failed, or is over.
LEMMA CallFailed ==
  ASSUME NEW c \in Clients, CallInv(c), stage[c] # "none",
         asked'[c] = asked[c], stage'[c] = "answer", ~response'[c].success
  PROVE  CallInv(c)'
BY DEF CallInv, Wanted

LEMMA CallOver ==
  ASSUME Domains, \A d \in Clients : CallInv(d), NEW c \in Clients, Over(c)
  PROVE  \A d \in Clients : CallInv(d)'
<1>1. ASSUME NEW d \in Clients, d # c PROVE CallInv(d)'
  BY <1>1, CallKept DEF Over, Domains, TypeOK
<1>2. CallInv(c)'
  BY DEF Over, Domains, TypeOK, CallInv
<1> QED
  BY <1>1, <1>2

\* A call that begins.
LEMMA CallAsked ==
  ASSUME Domains, \A d \in Clients : CallInv(d), NEW c \in Clients, NEW a,
         Ask(c, a), c \in Tabs => Meant(a)
  PROVE  \A d \in Clients : CallInv(d)'
<1>1. ASSUME NEW d \in Clients, d # c PROVE CallInv(d)'
  BY <1>1, CallKept DEF Ask, Domains, TypeOK
<1>2. CallInv(c)'
  BY DEF Ask, Domains, TypeOK, CallInv
<1> QED
  BY <1>1, <1>2

\* Every button asks for what it means.
LEMMA ButtonInv ==
  ASSUME Domains, \A d \in Clients : CallInv(d), NEW g \in Tabs, Button(g) \/ Open(g)
  PROVE  \A d \in Clients : CallInv(d)'
<1>0. g \in Clients
  BY DEF Clients
<1>1. ASSUME NEW a, Press(g, a), Meant(a) PROVE \A d \in Clients : CallInv(d)'
  BY <1>0, <1>1, CallAsked DEF Press
<1>2. ASSUME Complain(g) PROVE \A d \in Clients : CallInv(d)'
  BY <1>2, CallKept DEF Complain, calls
<1>3. CASE CheckConnection(g) \/ GetStatus(g) \/ ReadMain(g) \/ GetVersion(g)
  BY <1>1, <1>3, PlainlyMeant DEF CheckConnection, GetStatus, ReadMain, GetVersion
<1>4. CASE WriteMain(g)
  BY <1>1, <1>2, <1>4, WriteMainMeant DEF WriteMain
<1>5. CASE ReadPkuClicked(g)
  BY <1>1, <1>2, <1>5, ReadPkuMeant DEF ReadPkuClicked
<1>6. CASE SetMode(g)
  BY <1>1, <1>6, SetModeMeant DEF SetMode
<1>7. CASE SendRk(g)
  BY <1>1, <1>2, <1>7, SendRkMeant DEF SendRk
<1>8. CASE Open(g)
  BY <1>0, <1>8, PlainlyMeant, CallAsked DEF Open
<1> QED
  BY <1>3, <1>4, <1>5, <1>6, <1>7, <1>8 DEF Button

\* The service passes on what it was asked, or refuses.
LEMMA ServiceInv ==
  ASSUME Domains, \A d \in Clients : CallInv(d), NEW c \in Clients, ServiceStep(c)
  PROVE  \A d \in Clients : CallInv(d)'
<1>1. ASSUME NEW d \in Clients, d # c PROVE CallInv(d)'
  BY <1>1, CallKept DEF ServiceStep, Dispatch, CallFails, NotServed, Answered, Domains, TypeOK
<1>2. CASE NotServed(c) \/ CallFails(c)
  <2>1. ~response'[c].success /\ stage'[c] = "answer" /\ stage[c] # "none" /\ asked' = asked
    BY <1>2 DEF NotServed, CallFails, Answered, ConnectionLost, Failure, Domains, TypeOK
  <2> QED
    BY <1>1, <2>1, CallFailed
<1>3. CASE Dispatch(c) /\ Failed(Wanted(asked[c]))
  <2>1. ~response'[c].success /\ stage'[c] = "answer" /\ stage[c] # "none" /\ asked' = asked
    BY <1>3 DEF Dispatch, Wanted, Answered, Failure, Domains, TypeOK
  <2> QED
    BY <1>1, <2>1, CallFailed
<1>4. CASE Dispatch(c) /\ ~Failed(Wanted(asked[c]))
  <2>1. /\ stage'[c] = "driver" /\ request'[c] = Wanted(asked[c])
        /\ asked' = asked /\ stage[c] # "none"
    BY <1>4 DEF Dispatch, Wanted, Domains, TypeOK
  <2>2. CallInv(c)'
    BY <1>4, <2>1 DEF CallInv, Wanted
  <2> QED
    BY <1>1, <2>2
<1> QED
  BY <1>2, <1>3, <1>4 DEF ServiceStep

\* What the driver carries out is what it was sent.
LEMMA DriverInv ==
  ASSUME Domains, \A d \in Clients : CallInv(d), NEW c \in Clients, DriverStep(c)
  PROVE  \A d \in Clients : CallInv(d)'
<1>1. ASSUME NEW d \in Clients, d # c PROVE CallInv(d)'
  <2>1. CASE Begins(c)
    BY <1>1, <2>1, CallKept DEF Begins, Domains, TypeOK
  <2>2. CASE Ends(c)
    BY <1>1, <2>2, CallKept DEF Ends, Answered, Domains, TypeOK
  <2> QED
    BY <2>1, <2>2 DEF DriverStep
<1>2. CASE Begins(c)
  <2>1. /\ stage[c] = "driver" /\ stage'[c] = "inside"
        /\ asked' = asked /\ request' = request
    BY <1>2 DEF Begins, Domains, TypeOK
  <2>2. CallInv(c)'
    BY <2>1 DEF CallInv, Wanted
  <2> QED
    BY <1>1, <2>2
<1>3. CASE Ends(c)
  <2>1. /\ stage[c] = "inside" /\ stage'[c] = "answer"
        /\ asked' = asked /\ carried'[c] = request[c]
    BY <1>3 DEF Ends, Answered, Domains, TypeOK
  <2>2. CallInv(c)'
    BY <2>1 DEF CallInv, Wanted
  <2> QED
    BY <1>1, <2>2
<1> QED
  BY <1>2, <1>3 DEF DriverStep

\* Who is answered because something died is told of a failure.
LEMMA DeathInv ==
  ASSUME Domains, \A d \in Clients : CallInv(d), ServiceStops \/ Crashes
  PROVE  \A d \in Clients : CallInv(d)'
<1> SUFFICES ASSUME NEW c \in Clients PROVE CallInv(c)'
  OBVIOUS
<1>1. asked' = asked /\ request' = request /\ carried' = carried
  BY DEF ServiceStops, Crashes
<1>2. \/ stage[c] # "none" /\ stage'[c] = "answer" /\ ~response'[c].success
      \/ stage'[c] = stage[c] /\ response'[c] = response[c]
  <2>1. CASE ServiceStops
    BY <2>1 DEF ServiceStops, Domains, TypeOK
  <2>2. CASE Crashes
    BY <2>2 DEF Crashes, ConnectionLost, Failure, Domains, TypeOK
  <2> QED
    BY <2>1, <2>2
<1> QED
  BY <1>1, <1>2, CallKept, CallFailed

\* What a writing leaves.
LEMMA WriteMainInfoKeeps ==
  ASSUME NEW s, NEW r, NEW new \in WriteMainInfo(s, r),
         DOMAIN s = {"durations", "modes", "rk", "information"}
  PROVE  /\ DOMAIN new = DOMAIN s /\ new.durations = s.durations /\ new.modes = s.modes
         /\ DOMAIN new.information.fields = Fields
         /\ \A f \in Fields : new.information.fields[f] \in Converted(f, r.fields[f])
         /\ new.information.use_dhcp = r.use_dhcp
<1> DEFINE t == r.fields
<1>1. PICK stored \in
        [description : convert_description(t["description"]), mac : convert_mac(t["mac"]),
         ip : convert_address(t["ip"]), netmask : convert_address(t["netmask"]),
         gateway : convert_address(t["gateway"]), dns : convert_address(t["dns"])] :
        new = [s EXCEPT !.information = [fields |-> stored, use_dhcp |-> r.use_dhcp]]
  BY DEF WriteMainInfo
<1>2. /\ stored["description"] \in convert_description(t["description"])
      /\ stored["mac"] \in convert_mac(t["mac"])
      /\ \A f \in {"ip", "netmask", "gateway", "dns"} : stored[f] \in convert_address(t[f])
  BY <1>1
<1>3. /\ DOMAIN new = DOMAIN s /\ new.durations = s.durations /\ new.modes = s.modes
      /\ new.information = [fields |-> stored, use_dhcp |-> r.use_dhcp]
  BY <1>1
<1>4. \A f \in Fields : stored[f] \in Converted(f, t[f])
  BY <1>2 DEF Fields, Converted
<1>5. DOMAIN stored = Fields
  BY <1>1 DEF Fields
<1> QED
  BY <1>3, <1>4, <1>5

\* No handler changes the shape of what is stored.
LEMMA CarryOutKeeps ==
  ASSUME Domains, NEW r, NEW raced, CarryOut(r, raced)
  PROVE  /\ spoiled' \in BOOLEAN
         /\ DOMAIN store' = {"durations", "modes", "rk", "information"}
         /\ DOMAIN store'.modes = 1..PkuCount /\ DOMAIN store'.durations = 1..PkuCount
         /\ DOMAIN store'.information.fields = Fields
<1>1. spoiled' \in BOOLEAN
  BY DEF CarryOut
<1>2. CASE store' = PkuDriverPlug
  BY <1>1, <1>2 DEF PkuDriverPlug, InitialInformation
<1>3. CASE store' = store
  BY <1>1, <1>3 DEF Domains, TypeOK
<1>4. CASE store' \in WriteMainInfo(store, r)
  BY <1>1, <1>4, WriteMainInfoKeeps DEF Domains, TypeOK
<1>5. CASE store' = SetPkuMode(store, r)
  BY <1>1, <1>5 DEF SetPkuMode, Domains, TypeOK
<1>6. CASE store' = SendRkByIndex(store, r)
  BY <1>1, <1>6 DEF SendRkByIndex, Domains, TypeOK
<1> QED
  BY <1>2, <1>3, <1>4, <1>5, <1>6 DEF CarryOut, Effects

\* Nothing but the variables' own elements change.
LEMMA DomainsKept ==
  ASSUME Domains, [Next]_vars
  PROVE  Domains'
<1>1. ASSUME NEW c \in Clients, NEW a, Ask(c, a), label' = [label EXCEPT ![c] = "waiting"]
                                              \/ label' = label
      PROVE Domains'
  BY <1>1 DEF Ask, Domains, TypeOK
<1>2. ASSUME NEW c \in Clients, Over(c), tab' \in [Tabs -> {"closed", "open"}],
             label' \in [Tabs -> {"none", "waiting", "fill_in", "ok", "error", "network"}]
      PROVE  Domains'
  BY <1>2 DEF Over, Domains, TypeOK
<1>3. ASSUME NEW g \in Tabs, NEW a, Press(g, a) PROVE Domains'
  BY <1>1, <1>3 DEF Press, Clients
<1>4. ASSUME NEW g \in Tabs, Complain(g) PROVE Domains'
  BY <1>4 DEF Complain, Domains, TypeOK, calls
<1>5. ASSUME NEW g \in Tabs, Button(g) PROVE Domains'
  BY <1>3, <1>4, <1>5 DEF Button, CheckConnection, GetStatus, ReadMain, GetVersion,
    WriteMain, ReadPkuClicked, SetMode, SendRk
<1>6. ASSUME NEW g \in Tabs, Open(g) \/ Expire(g) \/ Show(g) PROVE Domains'
  <2>1. g \in Clients
    BY DEF Clients
  <2>2. CASE Open(g)
    BY <1>1, <2>1, <2>2 DEF Open
  <2>3. CASE Expire(g)
    BY <1>2, <2>1, <2>3 DEF Expire, view, Domains, TypeOK
  <2>4. CASE Show(g)
    <3>1. Says(asked[g], response[g]) \in {"ok", "error", "network"}
      BY DEF Says
    <3>2. label' \in [Tabs -> {"none", "waiting", "fill_in", "ok", "error", "network"}]
      BY <2>4, <3>1 DEF Show, Domains, TypeOK
    <3>3. tab' \in [Tabs -> {"closed", "open"}]
      BY <2>4 DEF Show, Domains, TypeOK
    <3> QED
      BY <1>2, <2>1, <2>4, <3>2, <3>3 DEF Show
  <2> QED
    BY <1>6, <2>2, <2>3, <2>4
<1>7. ASSUME NEW c \in Others, OtherAsks(c) \/ OtherGets(c) PROVE Domains'
  <2>1. c \in Clients
    BY DEF Clients
  <2>2. CASE OtherAsks(c)
    BY <1>1, <2>1, <2>2 DEF OtherAsks
  <2>3. CASE OtherGets(c)
    BY <1>2, <2>1, <2>3 DEF OtherGets, view, Domains, TypeOK
  <2> QED
    BY <1>7, <2>2, <2>3
<1>8. ASSUME NEW c \in Clients, ServiceStep(c) PROVE Domains'
  <2>1. CASE Dispatch(c)
    BY <2>1 DEF Dispatch, Answered, view, Domains, TypeOK
  <2>2. CASE CallFails(c) \/ NotServed(c)
    BY <2>2 DEF CallFails, NotServed, Answered, view, Domains, TypeOK
  <2> QED
    BY <1>8, <2>1, <2>2 DEF ServiceStep
<1>9. ASSUME NEW c \in Clients, DriverStep(c) PROVE Domains'
  <2>1. CASE Begins(c)
    BY <2>1 DEF Begins, view, Domains, TypeOK
  <2>2. CASE Ends(c)
    BY <2>2, CarryOutKeeps DEF Ends, Answered, view, Domains, TypeOK
  <2> QED
    BY <1>9, <2>1, <2>2 DEF DriverStep
<1>10. CASE ServiceStops
  BY <1>10 DEF ServiceStops, view, Domains, TypeOK
<1>11. CASE Crashes
  BY <1>11 DEF Crashes, view, Domains, TypeOK, PkuDriverPlug, InitialInformation
<1>12. CASE ServiceStarts
  BY <1>12 DEF ServiceStarts, calls, view, Domains, TypeOK
<1>13. CASE Restarts \/ UNCHANGED vars
  BY <1>13 DEF Restarts, vars, calls, view, Domains, TypeOK
<1>14. ASSUME NEW r \in late, LateEnds(r) PROVE Domains'
  BY <1>14, CarryOutKeeps DEF LateEnds, calls, view, Domains, TypeOK
<1> QED
  BY <1>5, <1>6, <1>7, <1>8, <1>9, <1>10, <1>11, <1>12, <1>13, <1>14 DEF Next

LEMMA InitInv == Init => PkuInv
<1> SUFFICES ASSUME Init PROVE PkuInv
  OBVIOUS
<1>1. \A c \in Clients : stage[c] = "none"
  BY DEF Init
<1>2. /\ DOMAIN store = {"durations", "modes", "rk", "information"}
      /\ DOMAIN store.modes = 1..PkuCount /\ DOMAIN store.durations = 1..PkuCount
      /\ DOMAIN store.information.fields = Fields
  BY DEF Init, PkuDriverPlug, InitialInformation
<1> QED
  BY <1>1, <1>2 DEF Init, PkuInv, Domains, TypeOK, CallInv

LEMMA NextInv ==
  ASSUME PkuInv, [Next]_vars
  PROVE  PkuInv'
<1> USE DEF PkuInv
<1>1. Domains'
  BY DomainsKept
<1>2. \A c \in Clients : CallInv(c)'
  <2>1. ASSUME NEW g \in Tabs, Button(g) \/ Open(g) PROVE \A c \in Clients : CallInv(c)'
    BY <2>1, ButtonInv
  <2>2. ASSUME NEW g \in Tabs, Expire(g) \/ Show(g) PROVE \A c \in Clients : CallInv(c)'
    BY <2>2, CallOver DEF Expire, Show, Clients
  <2>3. ASSUME NEW c \in Others, OtherAsks(c) PROVE \A d \in Clients : CallInv(d)'
    <3>1. c \in Clients /\ c \notin Tabs
      BY ClientsAssumption DEF Clients, ClientsAssumption
    <3> QED
      BY <2>3, <3>1, CallAsked DEF OtherAsks
  <2>4. ASSUME NEW c \in Others, OtherGets(c) PROVE \A d \in Clients : CallInv(d)'
    BY <2>4, CallOver DEF OtherGets, Clients
  <2>5. ASSUME NEW c \in Clients, ServiceStep(c) PROVE \A d \in Clients : CallInv(d)'
    BY <2>5, ServiceInv
  <2>6. ASSUME NEW c \in Clients, DriverStep(c) PROVE \A d \in Clients : CallInv(d)'
    BY <2>6, DriverInv
  <2>7. CASE ServiceStops \/ Crashes
    BY <2>7, DeathInv
  <2>8. CASE ServiceStarts \/ Restarts \/ UNCHANGED vars \/ \E r \in late : LateEnds(r)
    <3>1. UNCHANGED calls
      BY <2>8 DEF ServiceStarts, Restarts, LateEnds, vars
    <3> QED
      BY <3>1, CallKept DEF calls
  <2> QED
    BY <2>1, <2>2, <2>3, <2>4, <2>5, <2>6, <2>7, <2>8 DEF Next
<1> QED
  BY <1>1, <1>2

-----------------------------------------------------------------------------
\* The tab shows the outcome of a call only when it shows its answer.
LEMMA OnlyShowTells ==
  ASSUME Domains, [Next]_vars, NEW g \in Tabs, Tells(g, "ok")
  PROVE  Show(g)
<1>1. stage[g] = "answer" /\ label'[g] = "ok" /\ label'[g] # label[g]
  BY DEF Tells
<1>2. ASSUME NEW h \in Tabs, Button(h) PROVE FALSE
  <2>1. ASSUME NEW a, Press(h, a) PROVE FALSE
    BY <1>1, <2>1 DEF Press, Domains, TypeOK
  <2>2. ASSUME Complain(h) PROVE FALSE
    BY <1>1, <2>2 DEF Complain, Domains, TypeOK
  <2> QED
    BY <1>2, <2>1, <2>2 DEF Button, CheckConnection, GetStatus, ReadMain, GetVersion,
      WriteMain, ReadPkuClicked, SetMode, SendRk
<1>3. ASSUME NEW h \in Tabs, Open(h) \/ Expire(h) PROVE FALSE
  BY <1>1, <1>3 DEF Open, Expire, view
<1>4. ASSUME NEW h \in Tabs, Show(h) PROVE Show(g)
  BY <1>1, <1>4 DEF Show, Domains, TypeOK
<1>5. ASSUME NEW c \in Others, OtherAsks(c) \/ OtherGets(c) PROVE FALSE
  BY <1>1, <1>5 DEF OtherAsks, OtherGets, view
<1>6. ASSUME NEW c \in Clients, ServiceStep(c) \/ DriverStep(c) PROVE FALSE
  BY <1>1, <1>6 DEF ServiceStep, Dispatch, CallFails, NotServed, DriverStep, Begins, Ends, view
<1>7. ASSUME \/ ServiceStarts \/ ServiceStops \/ Crashes \/ Restarts \/ UNCHANGED vars
             \/ \E r \in late : LateEnds(r)
      PROVE  FALSE
  BY <1>1, <1>7 DEF ServiceStarts, ServiceStops, Crashes, Restarts, LateEnds, vars, view
<1> QED
  BY <1>2, <1>3, <1>4, <1>5, <1>6, <1>7 DEF Next

\* What the tab reports as done the driver carried out as the operator meant
\* it: every button, every text without a ";" of its own, in the main
\* information and for an RK, however many tabs and clients share the service,
\* and whatever crashes in between.
THEOREM SuccessAlwaysTrue == Spec => SuccessIsTrue
<1> DEFINE Told == \A g \in Tabs :
                     Tells(g, "ok") /\ asked[g].meant # None /\ OnePieceEach(g) =>
                       carried[g] = asked[g].meant
<1>1. ASSUME PkuInv, [Next]_vars PROVE Told
  <2> SUFFICES ASSUME NEW g \in Tabs, Tells(g, "ok"), asked[g].meant # None, OnePieceEach(g)
               PROVE  carried[g] = asked[g].meant
    OBVIOUS
  <2>1. Show(g)
    BY <1>1, OnlyShowTells DEF PkuInv
  <2>2. g \in Clients /\ CallInv(g) /\ stage[g] = "answer"
    BY <1>1, <2>1 DEF PkuInv, Clients, Show
  <2>3. Meant(asked[g])
    BY <2>2 DEF CallInv
  <2>4. response[g].success
    <3>1. Says(asked[g], response[g]) = "ok"
      BY <1>1, <2>1 DEF Show, Tells, Domains, TypeOK, PkuInv
    <3>2. asked[g].button # "version"
      BY <2>3 DEF Meant
    <3> QED
      BY <3>1, <3>2 DEF Says
  <2>5. carried[g] = Wanted(asked[g]) /\ ~Failed(Wanted(asked[g]))
    BY <2>2, <2>4 DEF CallInv
  <2> QED
    BY <2>3, <2>5 DEF Meant, Uncut, OnePieceEach
<1>2. PkuInv /\ [Next]_vars => PkuInv'
  BY NextInv
<1>3. PkuInv /\ [Next]_vars => [Told]_vars
  BY <1>1
<1>4. Spec => []PkuInv
  BY InitInv, <1>2, PTL DEF Spec
<1>5. Spec => [][Told]_vars
  BY <1>3, <1>4, PTL DEF Spec
<1> QED
  BY <1>5 DEF SuccessIsTrue

\* Type correctness: nothing that is written, sent, crashed or started again
\* changes the shape of what the driver stores or takes a call to a stage that
\* is none.
THEOREM TypeCorrect == Spec => []TypeOK
<1>1. PkuInv /\ [Next]_vars => PkuInv'
  BY NextInv
<1>2. PkuInv => TypeOK
  BY DEF PkuInv, Domains
<1> QED
  BY InitInv, <1>1, <1>2, PTL DEF Spec

-----------------------------------------------------------------------------
(* What a reading shows: the stored bytes are those of the last            *)
(* information written, and the answer is made of them.                    *)

\* The main information kept for what was written: the factory's, or what the
\* six texts may become.
StoredAs(s, w) ==
  /\ w = None => s.information = InitialInformation
  /\ w # None =>
       /\ \A f \in Fields : s.information.fields[f] \in Converted(f, w.fields[f])
       /\ s.information.use_dhcp = w.use_dhcp

\* The text of an answer says what was written, up to the first field that may
\* be more than one piece.
Faithful(t, w) ==
  /\ w = None => \A k \in 1..6 : t[k + 2] = Factory
  /\ w # None =>
       /\ \A k \in 1..6 :
            OnePieceUpTo(k, w.fields) /\ WellFormed(Order[k], w.fields[Order[k]]) =>
              t[k + 2] = w.fields[Order[k]]
       /\ OnePieceUpTo(6, w.fields) => t[9] = IF w.use_dhcp THEN 1 ELSE 0

\* A successful answer is to what the driver read, whatever happened to the
\* store since.
AnswerInv(c) ==
  stage[c] = "answer" /\ response[c].success =>
    /\ carried[c].rpc = "ReadMainInfo" => Faithful(response[c].text, saw[c])
    /\ carried[c].rpc = "ReadPku" =>
         \A k \in 1..Len(carried[c].indices) :
           carried[c].indices[k] \in 1..PkuCount => response[c].text[carried[c].indices[k]] = 1

\* The two buttons that read ask for what they mean.
Reading(a) ==
  /\ a.button = "read_main" => a.id = 3
  /\ a.button = "read_pku" => \E s \in Selections : a.meant = [rpc |-> "ReadPku", indices |-> s]

StoreInv ==
  /\ \A i \in 1..PkuCount : store.durations[i] = 1
  /\ StoredAs(store, written)

ReadInv ==
  /\ DOMAIN shown = Tabs /\ StoreInv
  /\ \A c \in Clients : AnswerInv(c)
  /\ \A g \in Tabs : stage[g] # "none" => Reading(asked[g])

\* What is joined to the end of a sequence leaves its elements in their places.
Extends(s, v) == \A k \in 1..Len(s) : v[k] = s[k]

LEMMA Follows ==
  ASSUME NEW S, NEW s \in Seq(S), NEW t \in Seq(S), t # << >>,
         NEW v, Extends(s \o t, v)
  PROVE  /\ Len(s \o t) = Len(s) + Len(t) /\ Len(s) \in Nat
         /\ Extends(s, v) /\ v[Len(s) + 1] = t[1]
<1> DEFINE u == s \o t
<1>1. /\ u \in Seq(S) /\ Len(u) = Len(s) + Len(t)
      /\ Len(s) \in Nat /\ Len(t) \in Nat
      /\ \A k \in 1..Len(s) : u[k] = s[k]
      /\ u[Len(s) + 1] = t[1]
  BY Joined
<1>2. Len(t) # 0
  OBVIOUS
<1> HIDE DEF u
<1>3. \A k \in 1..Len(u) : v[k] = u[k]
  BY DEF Extends, u
<1>4. \A k \in 1..Len(s) : k \in 1..Len(u)
  BY ONLY <1>1
<1>5. Len(s) + 1 \in 1..Len(u)
  BY ONLY <1>1, <1>2
<1> QED
  BY <1>1, <1>3, <1>4, <1>5 DEF Extends, u

\* Two elements, six sequences and one more element: each sequence begins in its
\* place as long as those before it have one element each.
Block(h, p, z) == h \o p[1] \o p[2] \o p[3] \o p[4] \o p[5] \o p[6] \o z

InBlock(t, p, z) ==
  /\ t[3] = p[1][1]
  /\ Len(p[1]) = 1 =>
     /\ t[4] = p[2][1]
     /\ Len(p[2]) = 1 =>
        /\ t[5] = p[3][1]
        /\ Len(p[3]) = 1 =>
           /\ t[6] = p[4][1]
           /\ Len(p[4]) = 1 =>
              /\ t[7] = p[5][1]
              /\ Len(p[5]) = 1 =>
                 /\ t[8] = p[6][1]
                 /\ Len(p[6]) = 1 => t[9] = z[1]

LEMMA BlockInOrder ==
  ASSUME NEW S, NEW h \in Seq(S), NEW p, NEW z \in Seq(S), Len(h) = 2, z # << >>,
         \A k \in 1..6 : p[k] \in Seq(S) /\ p[k] # << >>,
         NEW t, t = Block(h, p, z)
  PROVE  InBlock(t, p, z)
<1> DEFINE a == p[1]
           b == p[2]
           c == p[3]
           d == p[4]
           e == p[5]
           f == p[6]
<1>a. a \in Seq(S) /\ b \in Seq(S) /\ c \in Seq(S) /\ d \in Seq(S) /\ e \in Seq(S) /\ f \in Seq(S)
  OBVIOUS
<1>b. a # << >> /\ b # << >> /\ c # << >> /\ d # << >> /\ e # << >> /\ f # << >>
  OBVIOUS
<1>c. t = h \o a \o b \o c \o d \o e \o f \o z
  BY DEF Block
<1> HIDE DEF a, b, c, d, e, f
<1> DEFINE u2 == h \o a
           u3 == u2 \o b
           u4 == u3 \o c
           u5 == u4 \o d
           u6 == u5 \o e
           u7 == u6 \o f
           u8 == u7 \o z
<1>t. t = u8
  BY <1>c
<1>s2. u2 \in Seq(S)
  BY <1>a
<1> HIDE DEF u2
<1>s3. u3 \in Seq(S)
  BY <1>a, <1>s2
<1> HIDE DEF u3
<1>s4. u4 \in Seq(S)
  BY <1>a, <1>s3
<1> HIDE DEF u4
<1>s5. u5 \in Seq(S)
  BY <1>a, <1>s4
<1> HIDE DEF u5
<1>s6. u6 \in Seq(S)
  BY <1>a, <1>s5
<1> HIDE DEF u6
<1>s7. u7 \in Seq(S)
  BY <1>a, <1>s6
<1> HIDE DEF u7
<1>8. Extends(u8, t)
  BY <1>t DEF Extends
<1>e8. u8 = u7 \o z
  OBVIOUS
<1> HIDE DEF u8
<1>7. Extends(u7, t) /\ t[Len(u7) + 1] = z[1]
  <2>1. Extends(u7 \o z, t)
    BY ONLY <1>8, <1>e8
  <2>2. Extends(u7, t) /\ t[Len(u7) + 1] = z[1]
        /\ Len(u7 \o z) = Len(u7) + Len(z)
    BY ONLY <1>s7, <2>1, z \in Seq(S), z # << >>, Follows
  <2> QED
    BY ONLY <2>2, <1>e8
<1>e7. u7 = u6 \o f
  BY DEF u7
<1>6. Extends(u6, t) /\ t[Len(u6) + 1] = f[1] /\ Len(u7) = Len(u6) + Len(f)
  <2>1. Extends(u6 \o f, t)
    BY ONLY <1>7, <1>e7
  <2>2. Extends(u6, t) /\ t[Len(u6) + 1] = f[1]
        /\ Len(u6 \o f) = Len(u6) + Len(f)
    BY ONLY <1>s6, <2>1, <1>a, <1>b, Follows
  <2> QED
    BY ONLY <2>2, <1>e7
<1>e6. u6 = u5 \o e
  BY DEF u6
<1>5. Extends(u5, t) /\ t[Len(u5) + 1] = e[1] /\ Len(u6) = Len(u5) + Len(e)
  <2>1. Extends(u5 \o e, t)
    BY ONLY <1>6, <1>e6
  <2>2. Extends(u5, t) /\ t[Len(u5) + 1] = e[1]
        /\ Len(u5 \o e) = Len(u5) + Len(e)
    BY ONLY <1>s5, <2>1, <1>a, <1>b, Follows
  <2> QED
    BY ONLY <2>2, <1>e6
<1>e5. u5 = u4 \o d
  BY DEF u5
<1>4. Extends(u4, t) /\ t[Len(u4) + 1] = d[1] /\ Len(u5) = Len(u4) + Len(d)
  <2>1. Extends(u4 \o d, t)
    BY ONLY <1>5, <1>e5
  <2>2. Extends(u4, t) /\ t[Len(u4) + 1] = d[1]
        /\ Len(u4 \o d) = Len(u4) + Len(d)
    BY ONLY <1>s4, <2>1, <1>a, <1>b, Follows
  <2> QED
    BY ONLY <2>2, <1>e5
<1>e4. u4 = u3 \o c
  BY DEF u4
<1>3. Extends(u3, t) /\ t[Len(u3) + 1] = c[1] /\ Len(u4) = Len(u3) + Len(c)
  <2>1. Extends(u3 \o c, t)
    BY ONLY <1>4, <1>e4
  <2>2. Extends(u3, t) /\ t[Len(u3) + 1] = c[1]
        /\ Len(u3 \o c) = Len(u3) + Len(c)
    BY ONLY <1>s3, <2>1, <1>a, <1>b, Follows
  <2> QED
    BY ONLY <2>2, <1>e4
<1>e3. u3 = u2 \o b
  BY DEF u3
<1>2. Extends(u2, t) /\ t[Len(u2) + 1] = b[1] /\ Len(u3) = Len(u2) + Len(b)
  <2>1. Extends(u2 \o b, t)
    BY ONLY <1>3, <1>e3
  <2>2. Extends(u2, t) /\ t[Len(u2) + 1] = b[1]
        /\ Len(u2 \o b) = Len(u2) + Len(b)
    BY ONLY <1>s2, <2>1, <1>a, <1>b, Follows
  <2> QED
    BY ONLY <2>2, <1>e3
<1>e2. u2 = h \o a
  BY DEF u2
<1>1. Extends(h, t) /\ t[Len(h) + 1] = a[1] /\ Len(u2) = Len(h) + Len(a)
  <2>1. Extends(h \o a, t)
    BY ONLY <1>2, <1>e2
  <2>2. Extends(h, t) /\ t[Len(h) + 1] = a[1]
        /\ Len(h \o a) = Len(h) + Len(a)
    BY ONLY h \in Seq(S), <2>1, <1>a, <1>b, Follows
  <2> QED
    BY ONLY <2>2, <1>e2
<1>9. t[3] = a[1]
  BY ONLY <1>1, Len(h) = 2
<1>10. Len(a) = 1 => Len(u2) = 3 /\ t[4] = b[1]
  BY ONLY <1>1, <1>2, Len(h) = 2
<1>11. Len(u2) = 3 /\ Len(b) = 1 => Len(u3) = 4 /\ t[5] = c[1]
  BY ONLY <1>2, <1>3
<1>12. Len(u3) = 4 /\ Len(c) = 1 => Len(u4) = 5 /\ t[6] = d[1]
  BY ONLY <1>3, <1>4
<1>13. Len(u4) = 5 /\ Len(d) = 1 => Len(u5) = 6 /\ t[7] = e[1]
  BY ONLY <1>4, <1>5
<1>14. Len(u5) = 6 /\ Len(e) = 1 => Len(u6) = 7 /\ t[8] = f[1]
  BY ONLY <1>5, <1>6
<1>15. Len(u6) = 7 /\ Len(f) = 1 => t[9] = z[1]
  BY ONLY <1>6, <1>7
<1> QED
  BY ONLY <1>9, <1>10, <1>11, <1>12, <1>13, <1>14, <1>15 DEF InBlock, a, b, c, d, e, f

\* The places of the fields in the block that is read.
LEMMA FieldsInOrder ==
  ASSUME NEW s, NEW S, {Factory, 0, 1} \subseteq S,
         \A f \in Fields : /\ s.information.fields[f].pieces \in Seq(S)
                            /\ s.information.fields[f].pieces # << >>
  PROVE  LET t == convert_main_information(s).pieces
             p == [k \in 1..6 |-> s.information.fields[Order[k]].pieces] IN
         /\ \A k \in 1..6 : (\A j \in 1..6 : j < k => Len(p[j]) = 1) => t[k + 2] = p[k][1]
         /\ (\A j \in 1..6 : Len(p[j]) = 1) =>
              t[9] = IF s.information.use_dhcp THEN 1 ELSE 0
<1> DEFINE t == convert_main_information(s).pieces
           p == [k \in 1..6 |-> s.information.fields[Order[k]].pieces]
           x == IF s.information.use_dhcp THEN 1 ELSE 0
           h == <<Factory, Factory>>
           z == <<x>>
<1>1. h \in Seq(S) /\ Len(h) = 2 /\ z \in Seq(S) /\ z # << >> /\ z[1] = x
  OBVIOUS
<1>2. t = Block(h, p, z)
  <2> DEFINE i == s.information.fields
  <2>1. t = h \o i["description"].pieces \o i["mac"].pieces \o i["ip"].pieces
              \o i["netmask"].pieces \o i["gateway"].pieces \o i["dns"].pieces \o z
    BY DEF convert_main_information
  <2>2. /\ p[1] = i["description"].pieces /\ p[2] = i["mac"].pieces
        /\ p[3] = i["ip"].pieces /\ p[4] = i["netmask"].pieces
        /\ p[5] = i["gateway"].pieces /\ p[6] = i["dns"].pieces
    BY DEF Order
  <2> HIDE DEF t, p, h, z, i
  <2> QED
    BY ONLY <2>1, <2>2 DEF Block
<1>3. \A k \in 1..6 : Order[k] \in Fields /\ p[k] = s.information.fields[Order[k]].pieces
  BY DEF Order, Fields
<1>4. \A k \in 1..6 : p[k] \in Seq(S) /\ p[k] # << >>
  BY <1>3
<1> HIDE DEF t, p, x, h, z
<1>5. InBlock(t, p, z)
  BY ONLY <1>1, <1>2, <1>4, BlockInOrder
<1>6. ASSUME NEW k \in 1..6, \A j \in 1..6 : j < k => Len(p[j]) = 1
      PROVE  t[k + 2] = p[k][1]
  <2>1. /\ k > 1 => Len(p[1]) = 1
        /\ k > 2 => Len(p[2]) = 1
        /\ k > 3 => Len(p[3]) = 1
        /\ k > 4 => Len(p[4]) = 1
        /\ k > 5 => Len(p[5]) = 1
    BY <1>6
  <2>2. k = 1 \/ k = 2 \/ k = 3 \/ k = 4 \/ k = 5 \/ k = 6
    OBVIOUS
  <2> QED
    BY ONLY <1>5, <2>1, <2>2 DEF InBlock
<1>7. ASSUME \A j \in 1..6 : Len(p[j]) = 1 PROVE t[9] = x
  <2>1. /\ Len(p[1]) = 1 /\ Len(p[2]) = 1 /\ Len(p[3]) = 1
        /\ Len(p[4]) = 1 /\ Len(p[5]) = 1 /\ Len(p[6]) = 1
    BY <1>7
  <2> QED
    BY ONLY <1>1, <1>5, <2>1 DEF InBlock
<1> QED
  BY <1>6, <1>7 DEF t, p, x

\* What a text may become is one piece or more, of it or of no meaning.
LEMMA ConvertedPieces ==
  ASSUME NEW S, NEW f \in Fields, NEW t \in S, Garbage \in S, NEW x \in Converted(f, t)
  PROVE  /\ x.pieces \in Seq(S) /\ x.pieces # << >>
         /\ OnePiece(f, t) => Len(x.pieces) = 1
         /\ OnePiece(f, t) /\ WellFormed(f, t) => x.pieces[1] = t
<1>1. ASSUME NEW y \in S, x = Full(y)
      PROVE  /\ x.pieces \in Seq(S) /\ x.pieces # << >>
             /\ Len(x.pieces) = 1 /\ x.pieces[1] = y
  BY <1>1 DEF Full
<1>2. ASSUME NEW m \in Nat \ {0}, x \in Cut(m)
      PROVE  x.pieces \in Seq(S) /\ x.pieces # << >>
  <2>1. PICK n \in m..MaxPieces : x.pieces = [k \in 1..n |-> Garbage]
    BY <1>2 DEF Cut
  <2>2. n \in Nat /\ n # 0
    BY <2>1, SizesAssumption DEF SizesAssumption
  <2> QED
    BY <2>1, <2>2
<1>3. ASSUME x \in Malformed
      PROVE  x.pieces \in Seq(S) /\ x.pieces # << >>
  <2>1. CASE x \in Cut(1)
    BY <1>2, <2>1
  <2>2. CASE x = [pieces |-> <<Garbage>>, whole |-> FALSE]
    <3>1. x.pieces = <<Garbage>>
      BY <2>2
    <3> QED
      BY <3>1
  <2> QED
    BY <1>3, <2>1, <2>2 DEF Malformed
<1>4. CASE f = "description"
  <2>1. x = Full(IF t \in Plain THEN t ELSE Garbage)
    BY <1>4 DEF Converted, convert_description
  <2> QED
    BY <1>1, <1>4, <2>1 DEF WellFormed
<1>5. CASE f # "description" /\ ~WellFormed(f, t)
  <2>1. x \in Malformed
    BY <1>5 DEF Converted, convert_mac, convert_address, WellFormed
  <2> QED
    BY <1>3, <1>5, <2>1 DEF OnePiece
<1>6. CASE f # "description" /\ WellFormed(f, t)
  <2>1. x \in WellFormedBytes(t)
    BY <1>6 DEF Converted, convert_mac, convert_address, WellFormed
  <2>2. CASE t \in Awkward
    BY <1>2, <1>6, <2>1, <2>2 DEF WellFormedBytes, OnePiece
  <2>3. CASE t \notin Awkward
    BY <1>1, <1>6, <2>1, <2>3 DEF WellFormedBytes
  <2> QED
    BY <2>2, <2>3
<1> QED
  BY <1>4, <1>5, <1>6

\* So the answer says what the store was written with.
LEMMA AnswerFaithful ==
  ASSUME NEW s, NEW w, StoredAs(s, w)
  PROVE  Faithful(convert_main_information(s).pieces, w)
<1> DEFINE t == convert_main_information(s).pieces
           g(k) == s.information.fields[Order[k]].pieces
           p == [k \in 1..6 |-> g(k)]
           S == {Factory, Garbage, 0, 1} \union {w.fields[f] : f \in Fields}
           x == IF s.information.use_dhcp THEN 1 ELSE 0
<1>0. \A k \in 1..6 : Order[k] \in Fields
  BY DEF Order, Fields
<1>1. ASSUME \A f \in Fields : /\ s.information.fields[f].pieces \in Seq(S)
                                /\ s.information.fields[f].pieces # << >>
      PROVE  /\ \A k \in 1..6 : (\A j \in 1..6 : j < k => Len(p[j]) = 1) => t[k + 2] = p[k][1]
             /\ (\A j \in 1..6 : Len(p[j]) = 1) => t[9] = x
  <2>1. {Factory, 0, 1} \subseteq S
    OBVIOUS
  <2> HIDE DEF S
  <2> QED
    BY ONLY <1>1, <2>1, FieldsInOrder
<1> HIDE DEF t, x
<1>2. CASE w = None
  <2>1. \A f \in Fields : s.information.fields[f].pieces = <<Factory>>
    BY <1>2 DEF StoredAs, InitialInformation, Full
  <2>2. <<Factory>> \in Seq(S) /\ <<Factory>> # << >> /\ Len(<<Factory>>) = 1
        /\ <<Factory>>[1] = Factory
    OBVIOUS
  <2>3. \A k \in 1..6 : p[k] = <<Factory>>
    BY <1>0, <2>1
  <2> HIDE DEF S, p
  <2>4. \A k \in 1..6 : t[k + 2] = Factory
    BY <1>1, <2>1, <2>2, <2>3
  <2> QED
    BY <1>2, <2>4 DEF Faithful, t
<1>3. CASE w # None
  <2>1. ASSUME NEW f \in Fields
        PROVE  LET q == s.information.fields[f].pieces IN
               /\ q \in Seq(S) /\ q # << >>
               /\ OnePiece(f, w.fields[f]) => Len(q) = 1
               /\ OnePiece(f, w.fields[f]) /\ WellFormed(f, w.fields[f]) => q[1] = w.fields[f]
    <3>1. s.information.fields[f] \in Converted(f, w.fields[f])
      BY <1>3 DEF StoredAs
    <3>2. w.fields[f] \in S /\ Garbage \in S
      OBVIOUS
    <3> HIDE DEF S
    <3> QED
      BY <3>1, <3>2, ConvertedPieces
  <2>2. /\ \A k \in 1..6 : (\A j \in 1..6 : j < k => Len(p[j]) = 1) => t[k + 2] = p[k][1]
        /\ (\A j \in 1..6 : Len(p[j]) = 1) => t[9] = x
    BY <1>1, <2>1
  <2> HIDE DEF S
  <2>3. ASSUME NEW k \in 1..6, OnePiece(Order[k], w.fields[Order[k]])
        PROVE  /\ Len(p[k]) = 1
               /\ WellFormed(Order[k], w.fields[Order[k]]) => p[k][1] = w.fields[Order[k]]
    BY <1>0, <2>1, <2>3
  <2> HIDE DEF p
  <2>4. ASSUME NEW k \in 1..6, OnePieceUpTo(k, w.fields),
               WellFormed(Order[k], w.fields[Order[k]])
        PROVE  t[k + 2] = w.fields[Order[k]]
    <3>1. \A j \in 1..6 : j =< k => OnePiece(Order[j], w.fields[Order[j]])
      BY <2>4 DEF OnePieceUpTo
    <3>2. \A j \in 1..6 : j < k => Len(p[j]) = 1
      BY <2>3, <3>1
    <3>3. p[k][1] = w.fields[Order[k]]
      BY <2>3, <2>4, <3>1
    <3> QED
      BY <2>2, <3>2, <3>3
  <2>5. ASSUME OnePieceUpTo(6, w.fields) PROVE t[9] = IF w.use_dhcp THEN 1 ELSE 0
    <3>1. \A j \in 1..6 : Len(p[j]) = 1
      BY <2>3, <2>5 DEF OnePieceUpTo
    <3>2. s.information.use_dhcp = w.use_dhcp
      BY <1>3 DEF StoredAs
    <3> QED
      BY <2>2, <3>1, <3>2 DEF x
  <2> QED
    BY <1>3, <2>4, <2>5 DEF Faithful, t
<1> QED
  BY <1>2, <1>3

-----------------------------------------------------------------------------
(* The steps keep it.                                                      *)

\* No handler changes a duration, and only a writing changes the information.
LEMMA StoreKept ==
  ASSUME Domains, StoreInv, NEW r, NEW raced, CarryOut(r, raced)
  PROVE  StoreInv'
<1>1. CASE store' = PkuDriverPlug /\ written' = None
  BY <1>1 DEF StoreInv, StoredAs, PkuDriverPlug
<1>2. CASE ~(store' = PkuDriverPlug /\ written' = None)
  <2>1. /\ store' \in Effects(store, r) /\ ~OutOfMemory(store, r)
        /\ written' = IF r.rpc = "WriteMainInfo" THEN r ELSE written
    BY <1>2 DEF CarryOut
  <2>2. CASE r.rpc = "WriteMainInfo"
    <3>1. written' = r /\ r # None
      BY <2>1, <2>2 DEF None
    <3>2. store' \in WriteMainInfo(store, r)
      BY <2>1, <2>2 DEF Effects
    <3>3. /\ store'.durations = store.durations
          /\ \A f \in Fields : store'.information.fields[f] \in Converted(f, r.fields[f])
          /\ store'.information.use_dhcp = r.use_dhcp
      BY <3>2, WriteMainInfoKeeps DEF Domains
    <3> QED
      BY <3>1, <3>3 DEF StoreInv, StoredAs
  <2>3. CASE r.rpc # "WriteMainInfo"
    <3>1. store' \in {store, SetPkuMode(store, r), SendRkByIndex(store, r)}
      BY <2>1, <2>3 DEF Effects
    <3>2. store'.durations = store.durations /\ store'.information = store.information
      BY <3>1 DEF SetPkuMode, SendRkByIndex, Domains
    <3>3. written' = written
      BY <2>1, <2>3
    <3> QED
      BY <3>2, <3>3 DEF StoreInv, StoredAs
  <2> QED
    BY <2>2, <2>3
<1> QED
  BY <1>1, <1>2

\* The driver answers from the store, and what was written is kept with the
\* answer.
LEMMA EndsAnswer ==
  ASSUME Domains, StoreInv, NEW c \in Clients, Ends(c)
  PROVE  AnswerInv(c)'
<1> DEFINE r == request[c]
<1>1. /\ response'[c] = Result(Answer(store, r)) /\ carried'[c] = r
      /\ r.rpc = "ReadMainInfo" => saw'[c] = written
  BY DEF Ends, Answered, Domains
<1>2. CASE r.rpc = "ReadMainInfo"
  <2>1. Answer(store, r) = [kind |-> "memory", data |-> convert_main_information(store)]
    BY <1>2 DEF Answer
  <2>2. response'[c].success =>
          response'[c].text = convert_main_information(store).pieces
    BY <1>1, <2>1 DEF Result, ReadMemoryResponseToCommandResponse, Success, Failure
  <2>3. Faithful(convert_main_information(store).pieces, written)
    BY AnswerFaithful DEF StoreInv
  <2> QED
    BY <1>1, <1>2, <2>2, <2>3 DEF AnswerInv
<1>3. CASE r.rpc = "ReadPku"
  <2>1. Answer(store, r) = [kind |-> "durations", data |-> ReadPku(store, r)]
    BY <1>3 DEF Answer
  <2>2. response'[c].text = ReadPku(store, r)
    BY <1>1, <2>1 DEF Result, ReadPkuResponseToCommandResponse, Success
  <2>3. ASSUME NEW k \in 1..Len(r.indices), r.indices[k] \in 1..PkuCount
        PROVE  ReadPku(store, r)[r.indices[k]] = 1
    BY <2>3 DEF ReadPku, StoreInv
  <2> QED
    BY <1>1, <1>3, <2>2, <2>3 DEF AnswerInv
<1>4. CASE r.rpc # "ReadMainInfo" /\ r.rpc # "ReadPku"
  BY <1>1, <1>4 DEF AnswerInv
<1> QED
  BY <1>2, <1>3, <1>4

\* A step that leaves a call's answer alone, or makes none.
LEMMA AnswerKept ==
  ASSUME NEW c \in Clients, AnswerInv(c),
         \/ stage'[c] = stage[c] /\ response'[c] = response[c]
            /\ carried'[c] = carried[c] /\ saw'[c] = saw[c]
         \/ stage'[c] # "answer"
         \/ ~response'[c].success
  PROVE  AnswerInv(c)'
BY DEF AnswerInv

LEMMA AnswersKept ==
  ASSUME Domains, StoreInv, \A c \in Clients : AnswerInv(c), [Next]_vars
  PROVE  \A c \in Clients : AnswerInv(c)'
<1> SUFFICES ASSUME NEW c \in Clients PROVE AnswerInv(c)'
  OBVIOUS
<1> DEFINE Kept == stage'[c] = stage[c] /\ response'[c] = response[c]
                   /\ carried'[c] = carried[c] /\ saw'[c] = saw[c]
<1>1. ASSUME NEW d \in Clients, NEW a, Ask(d, a) PROVE Kept \/ stage'[c] # "answer"
  BY <1>1 DEF Ask, Domains, TypeOK
<1>2. ASSUME NEW d \in Clients, Over(d) PROVE Kept \/ stage'[c] # "answer"
  BY <1>2 DEF Over, Domains, TypeOK
<1>3. ASSUME NEW g \in Tabs, Button(g) PROVE Kept \/ stage'[c] # "answer"
  <2>1. ASSUME NEW a, Press(g, a) PROVE Kept \/ stage'[c] # "answer"
    BY <1>1, <2>1 DEF Press, Clients
  <2>2. ASSUME Complain(g) PROVE Kept
    BY <2>2 DEF Complain, calls
  <2> QED
    BY <1>3, <2>1, <2>2 DEF Button, CheckConnection, GetStatus, ReadMain, GetVersion,
      WriteMain, ReadPkuClicked, SetMode, SendRk
<1>4. ASSUME NEW g \in Tabs, Open(g) \/ Expire(g) \/ Show(g)
      PROVE  Kept \/ stage'[c] # "answer"
  BY <1>1, <1>2, <1>4 DEF Open, Expire, Show, Clients
<1>5. ASSUME NEW d \in Others, OtherAsks(d) \/ OtherGets(d)
      PROVE  Kept \/ stage'[c] # "answer"
  BY <1>1, <1>2, <1>5 DEF OtherAsks, OtherGets, Clients
<1>6. ASSUME NEW d \in Clients, ServiceStep(d)
      PROVE  Kept \/ stage'[c] # "answer" \/ ~response'[c].success
  <2>1. CASE Dispatch(d)
    BY <2>1 DEF Dispatch, Answered, Failure, Domains, TypeOK
  <2>2. CASE CallFails(d) \/ NotServed(d)
    BY <2>2 DEF CallFails, NotServed, Answered, ConnectionLost, Failure, Domains, TypeOK
  <2> QED
    BY <1>6, <2>1, <2>2 DEF ServiceStep
<1>7. ASSUME NEW d \in Clients, Begins(d) PROVE Kept \/ stage'[c] # "answer"
  BY <1>7 DEF Begins, Domains, TypeOK
<1>8. ASSUME NEW d \in Clients, d # c, Ends(d) PROVE Kept
  BY <1>8 DEF Ends, Answered, Domains, TypeOK
<1>9. ASSUME ServiceStops \/ Crashes PROVE Kept \/ ~response'[c].success
  <2>1. CASE ServiceStops
    BY <2>1 DEF ServiceStops, Domains, TypeOK
  <2>2. CASE Crashes
    BY <2>2 DEF Crashes, ConnectionLost, Failure, Domains, TypeOK
  <2> QED
    BY <1>9, <2>1, <2>2
<1>10. ASSUME ServiceStarts \/ Restarts \/ UNCHANGED vars \/ \E r \in late : LateEnds(r)
       PROVE  Kept
  BY <1>10 DEF ServiceStarts, Restarts, LateEnds, vars, calls
<1>11. CASE Ends(c)
  BY <1>11, EndsAnswer
<1>12. CASE Kept \/ stage'[c] # "answer" \/ ~response'[c].success
  BY <1>12, AnswerKept
<1> HIDE DEF Kept
<1> QED
  BY <1>3, <1>4, <1>5, <1>6, <1>7, <1>8, <1>9, <1>10, <1>11, <1>12 DEF Next, DriverStep

\* The store is changed by what the driver carries out, and by a crash.
LEMMA StoresKept ==
  ASSUME Domains, StoreInv, [Next]_vars
  PROVE  StoreInv'
<1>1. CASE \/ \E c \in Clients : Ends(c)
           \/ \E r \in late : LateEnds(r)
  BY <1>1, StoreKept DEF Ends, LateEnds
<1>2. CASE Crashes
  BY <1>2 DEF Crashes, StoreInv, StoredAs, PkuDriverPlug
<1>3. ASSUME NEW g \in Tabs, Button(g) PROVE UNCHANGED <<store, written>>
  BY <1>3 DEF Button, CheckConnection, GetStatus, ReadMain, GetVersion, WriteMain,
    ReadPkuClicked, SetMode, SendRk, Press, Complain, Ask
<1>4. ASSUME NEW g \in Tabs, Open(g) \/ Expire(g) \/ Show(g)
      PROVE  UNCHANGED <<store, written>>
  BY <1>4 DEF Open, Expire, Show, Ask, Over
<1>5. ASSUME NEW d \in Others, OtherAsks(d) \/ OtherGets(d)
      PROVE  UNCHANGED <<store, written>>
  BY <1>5 DEF OtherAsks, OtherGets, Ask, Over
<1>6. ASSUME NEW d \in Clients, ServiceStep(d) \/ Begins(d)
      PROVE  UNCHANGED <<store, written>>
  BY <1>6 DEF ServiceStep, Dispatch, CallFails, NotServed, Begins
<1>7. ASSUME ServiceStarts \/ ServiceStops \/ Restarts \/ UNCHANGED vars
      PROVE  UNCHANGED <<store, written>>
  BY <1>7 DEF ServiceStarts, ServiceStops, Restarts, vars
<1>8. CASE UNCHANGED <<store, written>>
  BY <1>8 DEF StoreInv
<1> QED
  BY <1>1, <1>2, <1>3, <1>4, <1>5, <1>6, <1>7, <1>8 DEF Next, DriverStep

\* What a tab asks it asked when the call began.
LEMMA ReadingsKept ==
  ASSUME Domains, \A g \in Tabs : stage[g] # "none" => Reading(asked[g]),
         DOMAIN shown = Tabs, [Next]_vars
  PROVE  /\ DOMAIN shown' = Tabs
         /\ \A g \in Tabs : stage'[g] # "none" => Reading(asked'[g])
<1> DEFINE Fine == /\ DOMAIN shown' = Tabs
                   /\ \A g \in Tabs : stage'[g] # "none" => Reading(asked'[g])
<1>1. ASSUME NEW g \in Clients, NEW a, Ask(g, a), g \in Tabs => Reading(a)
      PROVE  \A h \in Tabs : stage'[h] # "none" => Reading(asked'[h])
  BY <1>1 DEF Ask, Domains, TypeOK, Clients
<1>2. ASSUME NEW g \in Clients, Over(g)
      PROVE  \A h \in Tabs : stage'[h] # "none" => Reading(asked'[h])
  BY <1>2 DEF Over, Domains, TypeOK, Clients
<1>3. ASSUME NEW g \in Tabs, NEW a, Press(g, a), Reading(a) PROVE Fine
  BY <1>1, <1>3 DEF Press, Clients
<1>4. ASSUME NEW g \in Tabs, Complain(g) PROVE Fine
  BY <1>4 DEF Complain, calls
<1>5. ASSUME NEW name, NEW id, name = "read_main" => id = 3, name # "read_pku"
      PROVE  Reading(Plainly(name, id))
  BY <1>5 DEF Reading, Plainly
<1>6. ASSUME NEW g \in Tabs, Button(g) PROVE Fine
  <2>1. CASE CheckConnection(g) \/ GetStatus(g) \/ ReadMain(g) \/ GetVersion(g)
    <3>1. /\ Reading(Plainly("check", 1)) /\ Reading(Plainly("status", 2))
          /\ Reading(Plainly("read_main", 3)) /\ Reading(Plainly("version", 8))
      BY <1>5
    <3> HIDE DEF Fine
    <3> QED
      BY <1>3, <2>1, <3>1 DEF CheckConnection, GetStatus, ReadMain, GetVersion
  <2>2. CASE WriteMain(g)
    <3>1. \A i, p, m : Reading([button |-> "write_main", id |-> i, parameter |-> p, meant |-> m])
      BY DEF Reading
    <3> HIDE DEF Fine
    <3> QED
      BY <1>3, <1>4, <2>2, <3>1 DEF WriteMain
  <2>3. CASE ReadPkuClicked(g)
    <3>1. \A s \in Selections :
            Reading([button |-> "read_pku", id |-> 5, parameter |-> Append(s, Op),
                     meant |-> [rpc |-> "ReadPku", indices |-> s]])
      BY DEF Reading
    <3> HIDE DEF Fine
    <3> QED
      BY <1>3, <1>4, <2>3, <3>1 DEF ReadPkuClicked
  <2>4. CASE SetMode(g) \/ SendRk(g)
    <3>1. \A n \in {"set_mode", "send_rk"} : \A i, p, m :
            Reading([button |-> n, id |-> i, parameter |-> p, meant |-> m])
      BY DEF Reading
    <3> HIDE DEF Fine
    <3> QED
      BY <1>3, <1>4, <2>4, <3>1 DEF SetMode, SendRk
  <2> QED
    BY <1>6, <2>1, <2>2, <2>3, <2>4 DEF Button
<1>7. ASSUME NEW g \in Tabs, Open(g) \/ Expire(g) \/ Show(g) PROVE Fine
  <2>1. Reading(Plainly("open", 1))
    BY <1>5
  <2>2. DOMAIN shown' = Tabs
    BY <1>7 DEF Open, Expire, Show, view
  <2> QED
    BY <1>1, <1>2, <1>7, <2>1, <2>2 DEF Open, Expire, Show, Clients
<1>8. ASSUME NEW d \in Others, OtherAsks(d) \/ OtherGets(d) PROVE Fine
  <2>1. d \in Clients /\ d \notin Tabs
    BY ClientsAssumption DEF Clients, ClientsAssumption
  <2>2. shown' = shown
    BY <1>8 DEF OtherAsks, OtherGets, view
  <2> QED
    BY <1>1, <1>2, <1>8, <2>1, <2>2 DEF OtherAsks, OtherGets
<1>9. ASSUME NEW d \in Clients, ServiceStep(d) \/ DriverStep(d) PROVE Fine
  <2>1. asked' = asked /\ shown' = shown
    BY <1>9 DEF ServiceStep, Dispatch, CallFails, NotServed, DriverStep, Begins, Ends, view
  <2>2. stage[d] # "none" /\ \A c \in Clients \ {d} : stage'[c] = stage[c]
    <3>1. \E x : stage' = [stage EXCEPT ![d] = x]
      BY <1>9 DEF ServiceStep, Dispatch, CallFails, NotServed, DriverStep, Begins, Ends, Answered
    <3>2. stage[d] # "none"
      BY <1>9 DEF ServiceStep, Dispatch, CallFails, NotServed, DriverStep, Begins, Ends
    <3> QED
      BY <3>1, <3>2 DEF Domains, TypeOK
  <2>3. \A g \in Tabs : stage'[g] # "none" => stage[g] # "none"
    BY <2>2 DEF Clients
  <2> QED
    BY <2>1, <2>3
<1>10. ASSUME \/ ServiceStarts \/ ServiceStops \/ Crashes \/ Restarts \/ UNCHANGED vars
              \/ \E r \in late : LateEnds(r)
       PROVE  Fine
  <2>1. asked' = asked /\ shown' = shown
    BY <1>10 DEF ServiceStarts, ServiceStops, Crashes, Restarts, LateEnds, calls, vars, view
  <2>2. \A g \in Tabs : stage'[g] # "none" => stage[g] # "none"
    <3>1. CASE ServiceStops \/ Crashes
      BY <3>1 DEF ServiceStops, Crashes, Clients
    <3>2. CASE ServiceStarts \/ Restarts \/ UNCHANGED vars \/ \E r \in late : LateEnds(r)
      BY <3>2 DEF ServiceStarts, Restarts, LateEnds, calls, vars
    <3> QED
      BY <1>10, <3>1, <3>2
  <2> QED
    BY <2>1, <2>2
<1> HIDE DEF Fine
<1>11. Fine
  BY <1>6, <1>7, <1>8, <1>9, <1>10 DEF Next
<1> QED
  BY <1>11 DEF Fine

LEMMA NextReadInv ==
  ASSUME PkuInv, ReadInv, [Next]_vars
  PROVE  ReadInv'
BY AnswersKept, StoresKept, ReadingsKept DEF PkuInv, ReadInv

LEMMA InitReadInv == Init => ReadInv
<1> SUFFICES ASSUME Init PROVE ReadInv
  OBVIOUS
<1>1. StoreInv
  BY DEF Init, StoreInv, StoredAs, PkuDriverPlug
<1>2. \A c \in Clients : stage[c] = "none"
  BY DEF Init
<1>3. \A g \in Tabs : g \in Clients
  BY DEF Clients
<1>4. DOMAIN shown = Tabs
  BY DEF Init
<1> QED
  BY <1>1, <1>2, <1>3, <1>4 DEF ReadInv, AnswerInv

-----------------------------------------------------------------------------
\* What an answer of nine pieces, or of a duration per PKU, is displayed as.
LEMMA MainDisplayed ==
  ASSUME NEW a, NEW t, a.button = "read_main"
  PROVE  LET d == Displayed(a, t) IN
         /\ d[1] = t[3] /\ d[2] = parse_mac(t[4]) /\ d[3] = parse_address(t[5])
         /\ d[4] = parse_address(t[6]) /\ d[5] = parse_address(t[7])
         /\ d[6] = parse_address(t[8]) /\ d[7] = t[9]
<1> DEFINE S == {t[3], parse_mac(t[4]), parse_address(t[5]), parse_address(t[6]),
                 parse_address(t[7]), parse_address(t[8]), t[9]}
           u == <<t[3], parse_mac(t[4])>>
           v == [k \in 1..4 |-> parse_address(t[k + 4])]
           w == <<t[9]>>
           d == Displayed(a, t)
<1>1. d = u \o v \o w
  BY DEF Displayed
<1>2. u \in Seq(S) /\ Len(u) = 2 /\ u[1] = t[3] /\ u[2] = parse_mac(t[4])
  OBVIOUS
<1>3. /\ v[1] = parse_address(t[5]) /\ v[2] = parse_address(t[6])
      /\ v[3] = parse_address(t[7]) /\ v[4] = parse_address(t[8])
  OBVIOUS
<1>4. Len(v) = 4 /\ v \in Seq(S)
  <2>1. \A k \in 1..4 : v[k] \in S
    <3> TAKE k \in 1..4
    <3>1. k = 1 \/ k = 2 \/ k = 3 \/ k = 4
      OBVIOUS
    <3> QED
      BY <1>3, <3>1
  <2>2. v = [k \in 1..4 |-> v[k]]
    OBVIOUS
  <2> HIDE DEF v, S
  <2> QED
    BY <2>1, <2>2
<1>5. w \in Seq(S) /\ w # << >> /\ w[1] = t[9]
  OBVIOUS
<1> HIDE DEF S, u, v, w, d
<1> DEFINE uv == u \o v
<1>6. /\ uv \in Seq(S) /\ Len(uv) = 6 /\ \A k \in 1..2 : uv[k] = u[k]
      /\ \A k \in 1..4 : uv[2 + k] = v[k]
  <2>0. u \in Seq(S) /\ v \in Seq(S)
    BY <1>2, <1>4
  <2>1. /\ uv \in Seq(S) /\ Len(uv) = Len(u) + Len(v)
        /\ \A k \in 1..Len(u) : uv[k] = u[k]
    BY ONLY <2>0, Joined
  <2>2. \A k \in 1..Len(v) : uv[Len(u) + k] = v[k]
    BY ONLY <2>0, Behind
  <2> HIDE DEF uv
  <2> QED
    BY <1>2, <1>4, <2>1, <2>2
<1> HIDE DEF uv
<1> DEFINE uvw == uv \o w
<1>9. (\A k \in 1..6 : uvw[k] = uv[k]) /\ uvw[7] = w[1]
  <2>1. w # << >> /\ uv \in Seq(S) /\ w \in Seq(S)
    BY <1>5, <1>6
  <2>2. /\ \A k \in 1..Len(uv) : uvw[k] = uv[k]
        /\ uvw[Len(uv) + 1] = w[1]
    BY ONLY <2>1, Joined
  <2> HIDE DEF uvw
  <2> QED
    BY <1>6, <2>2
<1>10. d = uvw
  BY <1>1 DEF uv
<1> HIDE DEF uvw
<1>11. d[1] = u[1] /\ d[2] = u[2]
  BY <1>6, <1>9, <1>10
<1>12. d[3] = v[1] /\ d[4] = v[2] /\ d[5] = v[3] /\ d[6] = v[4] /\ d[7] = w[1]
  BY <1>6, <1>9, <1>10
<1> QED
  BY <1>2, <1>3, <1>5, <1>11, <1>12 DEF d

\* What is well-formed, and what the panel is delivered with, is displayed as
\* it is.
LEMMA DisplayedFaithfully ==
  ASSUME NEW a, NEW t, NEW w, a.button = "read_main", Faithful(t, w)
  PROVE  LET d == Displayed(a, t) IN
         /\ w = None => \A k \in 1..6 : d[k] = Factory
         /\ w # None =>
              /\ \A k \in 1..6 :
                   OnePieceUpTo(k, w.fields) /\ WellFormed(Order[k], w.fields[Order[k]]) =>
                     d[k] = w.fields[Order[k]]
              /\ OnePieceUpTo(6, w.fields) => d[7] = IF w.use_dhcp THEN 1 ELSE 0
<1> DEFINE d == Displayed(a, t)
<1>1. /\ d[1] = t[3] /\ d[2] = parse_mac(t[4]) /\ d[3] = parse_address(t[5])
      /\ d[4] = parse_address(t[6]) /\ d[5] = parse_address(t[7])
      /\ d[6] = parse_address(t[8]) /\ d[7] = t[9]
  BY MainDisplayed
<1> HIDE DEF d
<1>2. CASE w = None
  <2>1. \A k \in 1..6 : t[k + 2] = Factory
    BY <1>2 DEF Faithful
  <2>2. /\ t[3] = Factory /\ t[4] = Factory /\ t[5] = Factory
        /\ t[6] = Factory /\ t[7] = Factory /\ t[8] = Factory
    BY <2>1
  <2>3. \A k \in 1..6 : d[k] = Factory
    <3> TAKE k \in 1..6
    <3>1. k = 1 \/ k = 2 \/ k = 3 \/ k = 4 \/ k = 5 \/ k = 6
      OBVIOUS
    <3> QED
      BY <1>1, <2>2, <3>1 DEF parse_mac, parse_address
  <2> QED
    BY <1>2, <2>3 DEF d
<1>3. CASE w # None
  <2>1. /\ \A k \in 1..6 :
             OnePieceUpTo(k, w.fields) /\ WellFormed(Order[k], w.fields[Order[k]]) =>
               t[k + 2] = w.fields[Order[k]]
        /\ OnePieceUpTo(6, w.fields) => t[9] = IF w.use_dhcp THEN 1 ELSE 0
    BY <1>3 DEF Faithful
  <2>2. ASSUME NEW k \in 1..6, OnePieceUpTo(k, w.fields),
               WellFormed(Order[k], w.fields[Order[k]])
        PROVE  d[k] = w.fields[Order[k]]
    <3>1. t[k + 2] = w.fields[Order[k]]
      BY <2>1, <2>2
    <3>2. CASE k = 1
      BY <1>1, <3>1, <3>2
    <3>3. CASE k = 2
      <4>1. w.fields[Order[k]] \in Macs
        BY <2>2, <3>3 DEF WellFormed, Order
      <4> QED
        BY <1>1, <3>1, <3>3, <4>1 DEF parse_mac
    <3>4. CASE k \in 3..6
      <4>1. w.fields[Order[k]] \in Addresses
        BY <2>2, <3>4 DEF WellFormed, Order
      <4>2. d[k] = parse_address(t[k + 2])
        BY <1>1, <3>4
      <4> QED
        BY <3>1, <4>1, <4>2 DEF parse_address
    <3> QED
      BY <3>2, <3>3, <3>4
  <2> QED
    BY <1>1, <1>3, <2>1, <2>2 DEF d
<1> QED
  BY <1>2, <1>3

\* What is displayed as read is what was last written before it was read, by
\* whomever: through the driver's bytes, the texts cut at ";" and the display,
\* for any number of clients whose writings, readings and crashes interleave.
\* It holds up to the first field whose bytes may hold a ";", an awkward or a
\* malformed one: what is behind it may be out of its place.  And every selected
\* PKU is shown with the duration that comes under its own number.
THEOREM AlwaysReadsWhatWasWritten == Spec => ReadsWhatWasWritten
<1> DEFINE Read(g) ==
      /\ asked[g].button = "read_main" /\ saw[g] = None =>
           \A k \in 1..6 : shown'[g][k] = Factory
      /\ asked[g].button = "read_main" /\ saw[g] # None =>
           LET fields == saw[g].fields IN
           /\ \A k \in 1..6 : OnePieceUpTo(k, fields) /\ WellFormed(Order[k], fields[Order[k]]) =>
                shown'[g][k] = fields[Order[k]]
           /\ OnePieceUpTo(6, fields) => shown'[g][7] = (IF saw[g].use_dhcp THEN 1 ELSE 0)
      /\ asked[g].button = "read_pku" =>
           \A k \in 1..Len(asked[g].meant.indices) :
             shown'[g][k] = store.durations[asked[g].meant.indices[k]]
<1> DEFINE Told == \A g \in Tabs : Tells(g, "ok") => Read(g)
<1>1. ASSUME PkuInv, ReadInv, [Next]_vars PROVE Told
  <2> SUFFICES ASSUME NEW g \in Tabs, Tells(g, "ok") PROVE Read(g)
    OBVIOUS
  <2>1. Show(g)
    BY <1>1, OnlyShowTells DEF PkuInv
  <2>2. /\ g \in Clients /\ CallInv(g) /\ AnswerInv(g) /\ Reading(asked[g])
        /\ stage[g] = "answer" /\ stage[g] # "none"
    BY <1>1, <2>1 DEF PkuInv, ReadInv, Clients, Show
  <2>3. Says(asked[g], response[g]) = "ok" /\ asked[g].button # "open"
    BY <1>1, <2>1 DEF Show, Tells, Domains, TypeOK, PkuInv
  <2>4. shown'[g] = Displayed(asked[g], response[g].text)
    BY <1>1, <2>1, <2>3 DEF Show, ReadInv
  <2>5. asked[g].button # "version" =>
          response[g].success /\ carried[g] = Wanted(asked[g]) /\ ~Failed(Wanted(asked[g]))
    BY <2>2, <2>3 DEF Says, CallInv
  <2>6. CASE asked[g].button = "read_main"
    <3>1. carried[g].rpc = "ReadMainInfo"
      BY <2>2, <2>5, <2>6 DEF Reading, Wanted, SendCommand, MainInformationReadingExecutor
    <3>2. Faithful(response[g].text, saw[g])
      BY <2>2, <2>5, <2>6, <3>1 DEF AnswerInv
    <3> QED
      BY <2>4, <2>6, <3>2, DisplayedFaithfully
  <2>7. CASE asked[g].button = "read_pku"
    <3>1. PICK s \in Selections : asked[g].meant = [rpc |-> "ReadPku", indices |-> s]
      BY <2>2, <2>7 DEF Reading
    <3>2. carried[g] = asked[g].meant
      <4>1. Meant(asked[g]) /\ asked[g].meant # None
        BY <2>2, <3>1 DEF CallInv, None
      <4> QED
        BY <2>5, <2>7, <4>1 DEF Meant, Uncut
    <3>3. /\ s \in Seq(Listed) /\ asked[g].meant.indices = s
          /\ \A k \in 1..Len(s) : s[k] \in 1..PkuCount
      <4>1. s \in Seq(Listed)
        BY SelectionsAssumption DEF SelectionsAssumption
      <4> QED
        BY <3>1, <4>1, SizesAssumption DEF Listed, SizesAssumption
    <3>4. ASSUME NEW k \in 1..Len(s)
          PROVE  shown'[g][k] = store.durations[s[k]]
      <4>1. shown'[g][k] = response[g].text[s[k]]
        BY <2>4, <2>7, <3>3 DEF Displayed
      <4>2. response[g].text[s[k]] = 1
        BY <2>2, <2>5, <2>7, <3>1, <3>2, <3>3 DEF AnswerInv
      <4>3. store.durations[s[k]] = 1
        BY <1>1, <3>3 DEF ReadInv, StoreInv
      <4> QED
        BY <4>1, <4>2, <4>3
    <3> QED
      BY <2>7, <3>3, <3>4
  <2>8. CASE asked[g].button \notin {"read_main", "read_pku"}
    BY <2>8
  <2> QED
    BY <2>6, <2>7, <2>8
<1>2. PkuInv /\ ReadInv /\ [Next]_vars => PkuInv' /\ ReadInv'
  BY NextInv, NextReadInv
<1>3. PkuInv /\ ReadInv /\ [Next]_vars => [Told]_vars
  BY <1>1
<1>4. Spec => [](PkuInv /\ ReadInv)
  BY InitInv, InitReadInv, <1>2, PTL DEF Spec
<1>5. Spec => [][Told]_vars
  BY <1>3, <1>4, PTL DEF Spec
<1> QED
  BY <1>5 DEF ReadsWhatWasWritten

-----------------------------------------------------------------------------
(* How long a button can keep the GUI: no call but the first has a         *)
(* deadline, so in every state somebody must be able to go on with the     *)
(* call, and every step of it brings its end nearer.  That who can go on   *)
(* does is what TabComesBack adds, and TLC checks.                         *)

\* The steps of a call, at most, until its client is back.
StepsLeft(c) == [none |-> 0, answer |-> 1, inside |-> 2, driver |-> 3, service |-> 4][stage[c]]

\* A call that left the service's hands waits for a service that still serves,
\* and one inside the driver is in a driver that runs and whose handler ends.
Held(c) ==
  /\ stage[c] \in {"driver", "inside"} => service = "serving"
  /\ stage[c] = "inside" => up /\ Effects(store, request[c]) # {}

AllHeld == \A c \in Clients : Held(c)

CallCountsDown ==
  [][\A c \in Clients : stage[c] # "none" /\ stage'[c] # stage[c] =>
       StepsLeft(c)' < StepsLeft(c)]_vars

\* No handler waits for anything.
LEMMA HandlersEnd ==
  ASSUME NEW s, NEW r
  PROVE  Effects(s, r) # {}
<1>1. WriteMainInfo(s, r) # {}
  <2> DEFINE t == r.fields
  <2>1. ASSUME NEW x PROVE WellFormedBytes(x) # {}
    <3>1. 2 \in 2..MaxPieces
      BY SizesAssumption DEF SizesAssumption
    <3> QED
      BY <3>1 DEF WellFormedBytes, Cut
  <2>2. Malformed # {}
    BY DEF Malformed
  <2>3. \A x : convert_description(x) # {} /\ convert_mac(x) # {} /\ convert_address(x) # {}
    BY <2>1, <2>2 DEF convert_description, convert_mac, convert_address
  <2>4. PICK x1 \in convert_description(t["description"]), x2 \in convert_mac(t["mac"]),
             x3 \in convert_address(t["ip"]), x4 \in convert_address(t["netmask"]),
             x5 \in convert_address(t["gateway"]), x6 \in convert_address(t["dns"]) : TRUE
    BY <2>3
  <2>5. [description |-> x1, mac |-> x2, ip |-> x3, netmask |-> x4, gateway |-> x5, dns |-> x6]
          \in [description : convert_description(t["description"]), mac : convert_mac(t["mac"]),
               ip : convert_address(t["ip"]), netmask : convert_address(t["netmask"]),
               gateway : convert_address(t["gateway"]), dns : convert_address(t["dns"])]
    BY <2>4
  <2> QED
    BY <2>5 DEF WriteMainInfo
<1> QED
  BY <1>1 DEF Effects

LEMMA StepHeld ==
  ASSUME Domains, AllHeld, Next, NEW c \in Clients
  PROVE  /\ Held(c)'
         /\ stage[c] # "none" /\ stage'[c] # stage[c] => StepsLeft(c)' < StepsLeft(c)
<1>1. Held(c) /\ Effects(store', request'[c]) # {}
  BY HandlersEnd DEF AllHeld
<1> USE <1>1 DEF Domains, TypeOK, Held, StepsLeft, calls
<1>2. CASE \E g \in Clients : stage[g] = "none" /\ stage' = [stage EXCEPT ![g] = "service"]
                              /\ UNCHANGED <<service, up>>
  BY <1>2
<1>3. CASE \E g \in Clients : Over(g)
  BY <1>3 DEF Over
<1>4. CASE \E g \in Clients : ServiceStep(g)
  BY <1>4 DEF ServiceStep, Dispatch, CallFails, NotServed, Answered
<1>5. CASE \E g \in Clients : DriverStep(g)
  <2>1. \E g \in Clients :
          /\ \/ stage[g] = "driver" /\ up /\ stage' = [stage EXCEPT ![g] = "inside"]
             \/ stage[g] = "inside" /\ stage' = [stage EXCEPT ![g] = "answer"]
          /\ UNCHANGED <<service, up>>
    BY <1>5 DEF DriverStep, Begins, Ends, Answered
  <2> QED
    BY <2>1
<1>6. CASE ServiceStarts \/ Restarts
  BY <1>6 DEF ServiceStarts, Restarts
<1>7. CASE ServiceStops
  BY <1>7 DEF ServiceStops
<1>8. CASE Crashes
  BY <1>8 DEF Crashes
<1>9. CASE UNCHANGED <<service, up, stage>>
  BY <1>9
<1>10. ASSUME NEW g \in Tabs, Button(g) \/ Open(g)
       PROVE  \/ UNCHANGED <<service, up, stage>>
              \/ /\ stage[g] = "none" /\ stage' = [stage EXCEPT ![g] = "service"]
                 /\ UNCHANGED <<service, up>>
  BY <1>10 DEF Button, CheckConnection, GetStatus, ReadMain, GetVersion, WriteMain,
               ReadPkuClicked, SetMode, SendRk, Press, Complain, Ask, Open
<1>11. ASSUME NEW d \in Others, OtherAsks(d)
       PROVE  /\ stage[d] = "none" /\ stage' = [stage EXCEPT ![d] = "service"]
              /\ UNCHANGED <<service, up>>
  BY <1>11 DEF OtherAsks, Ask
<1>12. ASSUME NEW r \in late, LateEnds(r) PROVE UNCHANGED <<service, up, stage>>
  BY <1>12 DEF LateEnds
<1>13. ASSUME NEW g \in Tabs, Expire(g) \/ Show(g) PROVE Over(g)
  BY <1>13 DEF Expire, Show
<1>14. ASSUME NEW d \in Others, OtherGets(d) PROVE Over(d)
  BY <1>14 DEF OtherGets
<1>15. Tabs \subseteq Clients /\ Others \subseteq Clients
  BY DEF Clients
<1> HIDE DEF Domains, TypeOK, Held, StepsLeft, calls
<1> QED
  BY <1>2, <1>3, <1>4, <1>5, <1>6, <1>7, <1>8, <1>9, <1>10, <1>11, <1>12, <1>13, <1>14, <1>15
     DEF Next

\* A button needs at most four steps of its call, whatever crashes or stops, and
\* in no state is the call with a service or a driver that is gone: each of
\* them takes its calls along to an answer.
THEOREM CallIsBounded == Spec => []AllHeld /\ CallCountsDown
<1> DEFINE Down(c) == stage[c] # "none" /\ stage'[c] # stage[c] => StepsLeft(c)' < StepsLeft(c)
<1>1. Init => AllHeld
  BY DEF Init, AllHeld, Held
<1>2. ASSUME Domains, AllHeld, [Next]_vars PROVE AllHeld'
  <2>1. CASE Next
    BY <1>2, <2>1, StepHeld DEF AllHeld
  <2>2. CASE UNCHANGED vars
    BY <1>2, <2>2 DEF AllHeld, Held, vars, calls
  <2> QED
    BY <1>2, <2>1, <2>2
<1>3. Domains /\ AllHeld /\ [Next]_vars => [\A c \in Clients : Down(c)]_vars
  BY StepHeld
<1>4. [][\A c \in Clients : Down(c)]_vars => CallCountsDown
  BY DEF CallCountsDown
<1>5. PkuInv => Domains
  BY DEF PkuInv
<1> HIDE DEF Down
<1> QED
  BY <1>1, <1>2, <1>3, <1>4, <1>5, InitInv, NextInv, PTL DEF Spec
=============================================================================
