-------------------------- MODULE DeploymentProofs --------------------------
(***************************************************************************)
(* Proofs about Deployment, for every environment the process may be       *)
(* started in, every page a parser may be given and every order in which   *)
(* the exchanges with the relay fail: a verdict rests on the page that was *)
(* read, a finished run has accounted for every source it loaded, a digest *)
(* is handed over at most once, a retry of it is begun only when its       *)
(* budget fits the reaper's window, and a stuck Camoufox fetch leaves the  *)
(* gate in time.                                                           *)
(***************************************************************************)
EXTENDS Deployment, FiniteSetTheorems, WellFoundedInduction, TLAPS

\* Where the caller of each part may be.
RunPc == {"sites", "products", "sources", "loaded", "next", "select", "fetch",
          "fetched", "store", "done", "aborted"}

SendPc == {"lookup", "sites", "products", "sources", "loaded", "attempt",
           "closing", "failed", "slept", "sent", "skipped", "raised"}

PcKnown ==
    /\ part \in Part
    /\ part = "run" => at \in RunPc
    /\ part = "send" => at \in SendPc
    /\ part = "gate" => at = "held"

\* What get_settings() makes of any environment.
SafeSettings(s) ==
    /\ s.acquire \in Nat /\ s.launch \in Nat /\ s.fetch \in Nat /\ s.sweep \in Nat
    /\ s.launch < s.acquire => s.launch + s.sweep <= s.acquire
    /\ s.timeout \in Nat \ {0} /\ s.reaper \in Nat
    /\ s.attempts \in Nat /\ s.backoff \in Nat
    /\ s.deadline = 1 \/ (s.deadline \in Nat /\ s.deadline = s.reaper - s.timeout)

Seen == [sites : SUBSET Site, products : SUBSET Product, sources : SUBSET Source]

\* The loop is over sources of the registry, one of them while it scrapes.
RunOK ==
    /\ sites \subseteq Site /\ products \subseteq Product /\ sources \subseteq Source
    /\ seen \in Seen
    /\ todo \subseteq Source
    /\ at \in {"select", "fetch", "fetched", "store"} => todo # {}

\* The message is with the relay when its reply was read and, as long as the
\* send may still go on, not before. Only an attempt that fits the deadline
\* is begun again, which a deadline of one unit never allows.
SendOK ==
    /\ clock \in Nat /\ due \in Nat /\ left \in Nat /\ op \in 0 .. 10
    /\ delivered \in {0, 1}
    /\ at \notin {"attempt", "sent", "raised"} => delivered = 0
    /\ at = "sent" => delivered = 1
    /\ at = "slept" => left > 0
    /\ at \in {"attempt", "closing", "failed", "slept"} =>
         /\ left <= settings.attempts
         /\ due - settings.deadline <= clock
         /\ left < settings.attempts => settings.deadline = settings.reaper - settings.timeout
    /\ at = "attempt" =>
         /\ op >= 1
         /\ delivered = IF op = 10 THEN 1 ELSE 0
         /\ op = 1 /\ left < settings.attempts => clock + Budget <= due

\* The i-th wait of a fetch, 0 where there is none.
Wait(w, i) == IF i \in DOMAIN w THEN w[i] ELSE 0

\* The waits of a stuck fetch are at most seven.
WaitSum(w) ==
    Wait(w, 1) + Wait(w, 2) + Wait(w, 3) + Wait(w, 4) + Wait(w, 5) + Wait(w, 6) + Wait(w, 7)

\* What was waited and what is left never exceed the waits together.
GateOK ==
    /\ stuck \in Stuck /\ held \in Nat
    /\ waits \in Seq(Nat) /\ Len(waits) <= 7
    /\ held + WaitSum(waits) <= WaitSum(Waits(stuck))

IInv ==
    /\ PcKnown /\ SafeSettings(settings) /\ RunOK /\ SendOK /\ GateOK
    /\ VerdictGrounded

-----------------------------------------------------------------------------
(* Facts about the model's operators                                        *)

\* The larger of two numbers.
LEMMA MaxPair ==
    ASSUME NEW a \in Int, NEW b \in Int
    PROVE  Max({a, b}) = IF a >= b THEN a ELSE b
  <1>1. \E x \in {a, b} : \A y \in {a, b} : x >= y
    OBVIOUS
  <1>2. Max({a, b}) \in {a, b} /\ \A y \in {a, b} : Max({a, b}) >= y
    BY <1>1 DEF Max
  <1> QED
    BY <1>2

\* The smaller of two numbers.
LEMMA MinPair ==
    ASSUME NEW a \in Int, NEW b \in Int
    PROVE  Min({a, b}) = IF a <= b THEN a ELSE b
  <1>1. \E x \in {a, b} : \A y \in {a, b} : x <= y
    OBVIOUS
  <1>2. Min({a, b}) \in {a, b} /\ \A y \in {a, b} : Min({a, b}) <= y
    BY <1>1 DEF Min
  <1> QED
    BY <1>2

\* The loop's next source is one of those it has not reached.
LEMMA MinOfSources ==
    ASSUME NEW S \in SUBSET Nat, S # {}
    PROVE  Min(S) \in S
  <1>1. PICK x \in S : \A y \in S : ~(<<y, x>> \in OpToRel(<, Nat))
    BY NatLessThanWellFounded, WFMin
  <1>2. OpToRel(<, Nat) = {p \in Nat \X Nat : p[1] < p[2]}
    BY Zenon DEF OpToRel
  <1>3. \A y \in S : <<y, x>> \notin {p \in Nat \X Nat : p[1] < p[2]}
    BY <1>1, <1>2, Zenon
  <1>4. ASSUME NEW y \in S PROVE x <= y
    <2>1. <<y, x>> \in Nat \X Nat /\ <<y, x>>[1] = y /\ <<y, x>>[2] = x
      OBVIOUS
    <2>2. ~(<<y, x>>[1] < <<y, x>>[2])
      BY <1>3, <2>1, Zenon
    <2> QED
      BY <2>1, <2>2
  <1> QED
    BY <1>4 DEF Min

-----------------------------------------------------------------------------
(* The settings                                                             *)

\* What is read of the environment is a number, and never a negative one
\* but for the smtp timeout.
LEMMA EnvNumbers ==
    ASSUME NEW env \in [Name -> Int], NEW n \in Name
    PROVE  /\ EnvNumber(env, n) \in Int
           /\ n # "smtp_timeout" => EnvNumber(env, n) \in Nat
  <1>1. env[n] \in Int /\ Default[n] \in Nat
    BY SettingsAssumption
  <1>2. Valid(n, env[n]) /\ n # "smtp_timeout" => env[n] \in Nat
    BY <1>1 DEF Valid, Name, MaxRetryAttempts, MinRetryBackoff
  <1> QED
    BY <1>1, <1>2 DEF EnvNumber

\* The sweep of a launch that timed out fits the wait for the gate, if the
\* launch does.
LEMMA SweepDelaySafe ==
    ASSUME NEW sweep \in Nat, NEW launch \in Nat, NEW acquire \in Nat
    PROVE  LET d == SafeSweepDelay(sweep, launch, acquire)
           IN  d \in Nat /\ (launch < acquire => launch + d <= acquire)
  <1>1. (acquire - launch) \div 2 \in Int /\ Tenth \in Int /\ Tenth = 1
    BY DEF Tenth
  <1>2. launch < acquire => launch + ((acquire - launch) \div 2) <= acquire
    <2>1. ASSUME NEW m \in Nat PROVE m \div 2 <= m
      OBVIOUS
    <2>2. launch < acquire => acquire - launch \in Nat
      OBVIOUS
    <2> QED
      BY <1>1, <2>1, <2>2
  <1>3. Max({Tenth, (acquire - launch) \div 2}) =
            IF Tenth >= (acquire - launch) \div 2 THEN Tenth ELSE (acquire - launch) \div 2
    BY <1>1, MaxPair
  <1> QED
    BY <1>1, <1>2, <1>3 DEF SafeSweepDelay

\* The socket timeout is positive.
LEMMA SmtpTimeoutSafe ==
    ASSUME NEW timeout \in Int, NEW reaper \in Nat
    PROVE  SafeSmtpTimeout(timeout, reaper) \in Nat \ {0}
  <1>1. reaper \div 2 \in Int /\ Tenth \in Int /\ Tenth = 1
    BY DEF Tenth
  <1>2. Max({Tenth, reaper \div 2}) = IF Tenth >= reaper \div 2 THEN Tenth ELSE reaper \div 2
    BY <1>1, MaxPair
  <1> QED
    BY <1>1, <1>2 DEF SafeSmtpTimeout

\* The deadline of send() leaves a timeout of the reaper's window, or it is
\* the smallest there is.
LEMMA DeadlineSafe ==
    ASSUME NEW timeout \in Nat \ {0}, NEW reaper \in Nat
    PROVE  LET d == SendDeadline(timeout, reaper)
           IN  d = 1 \/ (d \in Nat /\ d = reaper - timeout)
  <1>1. Tenth \in Int /\ Tenth = 1 /\ reaper - timeout \in Int
    BY DEF Tenth
  <1>2. Max({Tenth, reaper - timeout}) =
            IF Tenth >= reaper - timeout THEN Tenth ELSE reaper - timeout
    BY <1>1, MaxPair
  <1> QED
    BY <1>1, <1>2 DEF SendDeadline

\* Whatever the environment says, get_settings() makes safe settings of it.
LEMMA SettingsSafe ==
    ASSUME NEW env \in [Name -> Int]
    PROVE  SafeSettings(GetSettings(env))
  <1> DEFINE v(n) == EnvNumber(env, n)
             timeout == SafeSmtpTimeout(v("smtp_timeout"), v("reaper"))
             sweep == SafeSweepDelay(v("sweep"), v("launch"), v("acquire"))
             deadline == SendDeadline(timeout, v("reaper"))
  <1>1. /\ v("acquire") \in Nat /\ v("launch") \in Nat /\ v("fetch") \in Nat
        /\ v("sweep") \in Nat /\ v("reaper") \in Nat /\ v("smtp_timeout") \in Int
        /\ v("retry_attempts") \in Nat /\ v("retry_backoff") \in Nat
    BY EnvNumbers DEF Name
  <1>2. timeout \in Nat \ {0}
    BY <1>1, SmtpTimeoutSafe
  <1>3. sweep \in Nat /\ (v("launch") < v("acquire") => v("launch") + sweep <= v("acquire"))
    BY <1>1, SweepDelaySafe
  <1>4. deadline = 1 \/ (deadline \in Nat /\ deadline = v("reaper") - timeout)
    BY <1>1, <1>2, DeadlineSafe
  <1>5. GetSettings(env) =
          [acquire |-> v("acquire"), launch |-> v("launch"), fetch |-> v("fetch"),
           sweep |-> sweep, timeout |-> timeout, reaper |-> v("reaper"),
           attempts |-> v("retry_attempts"), backoff |-> v("retry_backoff"),
           deadline |-> deadline]
    BY DEF GetSettings
  <1> HIDE DEF v, timeout, sweep, deadline
  <1> QED
    BY <1>1, <1>2, <1>3, <1>4, <1>5 DEF SafeSettings

-----------------------------------------------------------------------------
(* The parsers                                                              *)

\* A verdict of a priced extract is definitive.
LEMMA VerdictCases ==
    ASSUME NEW priced \in BOOLEAN, NEW a
    PROVE  ComputeVerdict(Extract(priced, a)) =
             IF ~priced THEN "indeterminate"
             ELSE IF a = "out_of_stock" THEN "unavailable" ELSE "ok"
  BY DEF ComputeVerdict, Extract

\* It suffices that a priced page has a good price, and that the page says
\* what the parser takes from it about the stock.
LEMMA GroundedBy ==
    ASSUME NEW kind \in Kind, NEW p, NEW priced \in BOOLEAN, NEW a,
           ExtractOf(kind, p) = Extract(priced, a),
           priced => "good" \in Prices(kind, p),
           priced /\ a = "out_of_stock" => SaysOut(kind, p),
           priced /\ a # "out_of_stock" => SaysNotOut(kind, p)
    PROVE  ComputeVerdict(ExtractOf(kind, p)) \in Grounds(kind, p) \cup {"indeterminate"}
  <1>1. CASE ~priced
    BY <1>1, VerdictCases
  <1>2. CASE priced /\ a = "out_of_stock"
    BY <1>2, VerdictCases DEF Grounds
  <1>3. CASE priced /\ a # "out_of_stock"
    BY <1>3, VerdictCases DEF Grounds
  <1> QED
    BY <1>1, <1>2, <1>3

\* Amazon: the text about the stock is the listing's own.
LEMMA AmazonGrounded ==
    ASSUME NEW p \in AmazonPage
    PROVE  ComputeVerdict(ExtractOf("amazon", p)) \in Grounds("amazon", p) \cup {"indeterminate"}
  <1> DEFINE priced == ScopedPixPrice(p) \/ ToCents(p.card) \/ ToCents(p.member)
             a == MarkedAvailability(p.block)
  <1>1. ExtractOf("amazon", p) = Extract(priced, a)
    BY DEF ExtractOf, AmazonExtract
  <1>2. priced \in BOOLEAN /\ (priced => "good" \in Prices("amazon", p))
    BY DEF Prices, ScopedPixPrice, ToCents
  <1>3. a = "out_of_stock" <=> SaysOut("amazon", p)
    BY DEF MarkedAvailability, SaysOut
  <1>4. SaysNotOut("amazon", p) <=> ~SaysOut("amazon", p)
    BY DEF SaysNotOut
  <1> HIDE DEF priced, a
  <1> QED
    BY <1>1, <1>2, <1>3, <1>4, GroundedBy DEF Kind

\* Magalu and statejson: only the boolean false is an unavailability.
LEMMA JsonGrounded ==
    ASSUME NEW kind \in {"magalu", "statejson"}, NEW p \in JsonPage
    PROVE  ComputeVerdict(ExtractOf(kind, p)) \in Grounds(kind, p) \cup {"indeterminate"}
  <1> DEFINE priced == LocatedPrice(p)
             a == BoolAvailability(p.available)
  <1>1. ExtractOf(kind, p) = Extract(priced, a)
    BY DEF ExtractOf, JsonExtract
  <1>2. priced \in BOOLEAN /\ (priced => "good" \in Prices(kind, p))
    BY DEF Prices, LocatedPrice, ToCents
  <1>3. a = "out_of_stock" <=> SaysOut(kind, p)
    BY DEF BoolAvailability, SaysOut
  <1>4. SaysNotOut(kind, p) <=> ~SaysOut(kind, p)
    BY DEF SaysNotOut
  <1> HIDE DEF priced, a
  <1> QED
    BY <1>1, <1>2, <1>3, <1>4, GroundedBy DEF Kind

\* Pichau: without an anchor there is no price.
LEMMA PichauGrounded ==
    ASSUME NEW p \in PichauPage
    PROVE  ComputeVerdict(ExtractOf("pichau", p)) \in Grounds("pichau", p) \cup {"indeterminate"}
  <1> DEFINE priced == p.anchor /\ (ToCents(p.pix) \/ ToCents(p.card))
             a == IF p.anchor THEN p.status ELSE "unknown"
  <1>1. ExtractOf("pichau", p) = Extract(priced, a)
    BY DEF ExtractOf, PichauExtract
  <1>2. priced \in BOOLEAN
    BY DEF PichauPage, ToCents
  <1>3. priced => "good" \in Prices("pichau", p)
    BY DEF Prices, ToCents
  <1>4. priced => (a = "out_of_stock" <=> SaysOut("pichau", p))
    BY DEF SaysOut
  <1>5. SaysNotOut("pichau", p) <=> ~SaysOut("pichau", p)
    BY DEF SaysNotOut
  <1> HIDE DEF priced, a
  <1> QED
    BY <1>1, <1>2, <1>3, <1>4, <1>5, GroundedBy DEF Kind

\* Terabyte: a page with a price is read next to it only.
LEMMA TerabyteGrounded ==
    ASSUME NEW p \in TerabytePage
    PROVE  ComputeVerdict(ExtractOf("terabyte", p)) \in Grounds("terabyte", p) \cup {"indeterminate"}
  <1> DEFINE priced == FirstValidIdPrice(p.vista) \/ FirstValidIdPrice(p.parc)
             a == MarkedAvailability(TerabyteRegion(p))
  <1>1. ExtractOf("terabyte", p) = Extract(priced, a)
    BY DEF ExtractOf, TerabyteExtract
  <1>2. priced \in BOOLEAN /\ (priced => "good" \in Prices("terabyte", p))
    BY DEF Prices, FirstValidIdPrice, ToCents
  <1>3. priced => TerabyteRegion(p) = p.near
    BY DEF TerabyteRegion, FirstValidIdPrice
  <1>4. priced => (a = "out_of_stock" <=> SaysOut("terabyte", p))
    BY <1>3 DEF MarkedAvailability, SaysOut
  <1>5. SaysNotOut("terabyte", p) <=> ~SaysOut("terabyte", p)
    BY DEF SaysNotOut
  <1> HIDE DEF priced, a
  <1> QED
    BY <1>1, <1>2, <1>4, <1>5, GroundedBy DEF Kind

\* MercadoLivre: the node that is selected is one of the listing's own.
LEMMA MercadoLivreGrounded ==
    ASSUME NEW p \in MercadoLivrePage
    PROVE  ComputeVerdict(ExtractOf("mercadolivre", p))
               \in Grounds("mercadolivre", p) \cup {"indeterminate"}
  <1>1. ExtractOf("mercadolivre", p) = MercadoLivreExtract(p) /\ "mercadolivre" \in Kind
    BY DEF ExtractOf, Kind
  <1>2. CASE p.nodes = <<>>
    <2> DEFINE priced == ToCents(p.meta)
               a == BuyboxAvailability(p)
    <2>1. ExtractOf("mercadolivre", p) = Extract(priced, a)
      BY <1>1, <1>2 DEF MercadoLivreExtract
    <2>2. priced \in BOOLEAN /\ (priced => "good" \in Prices("mercadolivre", p))
      BY <1>2 DEF Prices, ToCents
    <2>3. a = "out_of_stock" <=> SaysOut("mercadolivre", p)
      BY <1>2 DEF BuyboxAvailability, SaysOut
    <2>4. SaysNotOut("mercadolivre", p) <=> ~SaysOut("mercadolivre", p)
      BY <1>2 DEF SaysNotOut
    <2> HIDE DEF priced, a
    <2> QED
      BY <1>1, <2>1, <2>2, <2>3, <2>4, GroundedBy
  <1>3. CASE p.nodes # <<>> /\ Cardinality(Selected(p)) # 1
    <2>1. ExtractOf("mercadolivre", p) = Extract(FALSE, "unknown")
      BY <1>1, <1>3 DEF MercadoLivreExtract, JsonLdExtract
    <2> QED
      BY <2>1, VerdictCases
  <1>4. CASE p.nodes # <<>> /\ Cardinality(Selected(p)) = 1
    <2>1. PICK i : i = CHOOSE j \in Selected(p) : TRUE
      OBVIOUS
    <2>2. i \in Selected(p)
      <3>1. Selected(p) # {}
        BY <1>4, FS_EmptySet
      <3> QED
        BY <2>1, <3>1
    <2>3. i \in DOMAIN p.nodes /\ ~(p.canonical /\ p.nodes[i].sku = "foreign")
      BY <2>2 DEF Selected
    <2>4. p.nodes[i] \in OwnNodes(p)
      BY <2>3 DEF OwnNodes
    <2> DEFINE priced == ToCents(p.nodes[i].price) /\ p.nodes[i].brl
               a == p.nodes[i].stock
    <2>5. ExtractOf("mercadolivre", p) = Extract(priced, a)
      BY <1>1, <1>4, <2>1 DEF MercadoLivreExtract, JsonLdExtract
    <2>6. priced => "good" \in Prices("mercadolivre", p)
      BY <1>4, <2>4 DEF Prices, ToCents
    <2>7. priced \in BOOLEAN
      BY <2>3 DEF MercadoLivrePage, Node, ToCents
    <2>8. a = "out_of_stock" => SaysOut("mercadolivre", p)
      BY <1>4, <2>4 DEF SaysOut
    <2>9. a # "out_of_stock" => SaysNotOut("mercadolivre", p)
      BY <1>4, <2>4 DEF SaysNotOut
    <2> HIDE DEF priced, a
    <2> QED
      BY <1>1, <2>5, <2>6, <2>7, <2>8, <2>9, GroundedBy
  <1> QED
    BY <1>2, <1>3, <1>4

\* Whatever page a parser is given, the verdict is one the page supports.
LEMMA ReadingsGrounded ==
    ASSUME NEW kind \in Kind, NEW got \in Readings[kind]
    PROVE  got.verdict \in got.grounds \cup {"indeterminate"}
  <1>1. PICK p \in PagesOf[kind] :
          got = [verdict |-> ComputeVerdict(ExtractOf(kind, p)), grounds |-> Grounds(kind, p)]
    BY DEF Readings
  <1>2. /\ kind = "amazon" => p \in AmazonPage
        /\ kind \in {"magalu", "statejson"} => p \in JsonPage
        /\ kind = "pichau" => p \in PichauPage
        /\ kind = "terabyte" => p \in TerabytePage
        /\ kind = "mercadolivre" => p \in MercadoLivrePage
    BY DEF PagesOf
  <1>3. ComputeVerdict(ExtractOf(kind, p)) \in Grounds(kind, p) \cup {"indeterminate"}
    BY <1>2, AmazonGrounded, JsonGrounded, PichauGrounded, TerabyteGrounded,
       MercadoLivreGrounded DEF Kind
  <1> QED
    BY <1>1, <1>3

-----------------------------------------------------------------------------
(* The waits of a stuck fetch                                               *)

\* A wait is a number.
LEMMA WaitNat ==
    ASSUME NEW w \in Seq(Nat), NEW i \in Nat
    PROVE  Wait(w, i) \in Nat
  BY DEF Wait

\* When the first wait is over, the others are left.
LEMMA WaitSumTail ==
    ASSUME NEW w \in Seq(Nat), w # <<>>, Len(w) <= 7
    PROVE  /\ Head(w) \in Nat /\ Tail(w) \in Seq(Nat) /\ Len(Tail(w)) <= 7
           /\ WaitSum(w) \in Nat /\ WaitSum(Tail(w)) \in Nat
           /\ WaitSum(w) = Head(w) + WaitSum(Tail(w))
  <1>1. /\ Head(w) \in Nat /\ Tail(w) \in Seq(Nat) /\ Len(Tail(w)) = Len(w) - 1
        /\ Head(w) = w[1] /\ Len(w) \in Nat /\ Len(w) >= 1
    OBVIOUS
  <1>2. ASSUME NEW i \in Nat, i >= 1
        PROVE  Wait(Tail(w), i) = Wait(w, i + 1)
    <2>1. DOMAIN w = 1 .. Len(w) /\ DOMAIN Tail(w) = 1 .. Len(w) - 1
      BY <1>1
    <2>2. CASE i <= Len(w) - 1
      <3>1. i \in DOMAIN Tail(w) /\ i + 1 \in DOMAIN w /\ Tail(w)[i] = w[i + 1]
        BY <1>1, <1>2, <2>1, <2>2
      <3> QED
        BY <3>1 DEF Wait
    <2>3. CASE i > Len(w) - 1
      <3>1. i \notin DOMAIN Tail(w) /\ i + 1 \notin DOMAIN w
        BY <1>1, <1>2, <2>1, <2>3
      <3> QED
        BY <3>1 DEF Wait
    <2> QED
      BY <1>1, <1>2, <2>2, <2>3
  <1>3. Wait(w, 1) = Head(w) /\ Wait(w, 8) = 0
    BY <1>1 DEF Wait
  <1>4. /\ Wait(Tail(w), 1) = Wait(w, 2) /\ Wait(Tail(w), 2) = Wait(w, 3)
        /\ Wait(Tail(w), 3) = Wait(w, 4) /\ Wait(Tail(w), 4) = Wait(w, 5)
        /\ Wait(Tail(w), 5) = Wait(w, 6) /\ Wait(Tail(w), 6) = Wait(w, 7)
        /\ Wait(Tail(w), 7) = Wait(w, 8)
    BY <1>2
  <1>5. /\ Wait(w, 1) \in Nat /\ Wait(w, 2) \in Nat /\ Wait(w, 3) \in Nat
        /\ Wait(w, 4) \in Nat /\ Wait(w, 5) \in Nat /\ Wait(w, 6) \in Nat
        /\ Wait(w, 7) \in Nat
    BY WaitNat
  <1>6. PICK a \in Nat, b \in Nat, c \in Nat, d \in Nat, e \in Nat, f \in Nat, g \in Nat :
          /\ a = Wait(w, 1) /\ b = Wait(w, 2) /\ c = Wait(w, 3) /\ d = Wait(w, 4)
          /\ e = Wait(w, 5) /\ f = Wait(w, 6) /\ g = Wait(w, 7)
    BY <1>5
  <1>7. WaitSum(w) = a + b + c + d + e + f + g
    BY <1>6 DEF WaitSum
  <1>8. WaitSum(Tail(w)) = b + c + d + e + f + g + 0
    BY <1>3, <1>4, <1>6 DEF WaitSum
  <1>9. a = Head(w)
    BY <1>3, <1>6
  <1>10. /\ a + b + c + d + e + f + g \in Nat /\ b + c + d + e + f + g + 0 \in Nat
         /\ a + b + c + d + e + f + g = a + (b + c + d + e + f + g + 0)
    OBVIOUS
  <1>11. WaitSum(w) \in Nat /\ WaitSum(Tail(w)) \in Nat
    BY <1>7, <1>8, <1>10
  <1>12. WaitSum(w) = Head(w) + WaitSum(Tail(w))
    BY <1>7, <1>8, <1>9, <1>10
  <1>13. Len(Tail(w)) <= 7
    BY <1>1
  <1> QED
    BY <1>1, <1>11, <1>12, <1>13

\* Nothing is left when all waits are over.
LEMMA WaitSumEmpty == WaitSum(<<>>) = 0
  <1>1. \A i \in Nat : Wait(<<>>, i) = 0
    BY DEF Wait
  <1> QED
    BY <1>1 DEF WaitSum

\* The waits of each stuck fetch, together.
LEMMA WaitsTotal ==
    ASSUME SafeSettings(settings), NEW s \in Stuck
    PROVE  /\ Waits(s) \in Seq(Nat) /\ Len(Waits(s)) <= 7
           /\ WaitSum(Waits(s)) \in Nat
           /\ s = "browser" => WaitSum(Waits(s)) = settings.fetch + 3 * KillWait
           /\ s = "camoufox" =>
                WaitSum(Waits(s)) = settings.fetch + 2 * KillWait + LateSweep
           /\ s = "uc_launch" =>
                WaitSum(Waits(s)) = settings.launch + settings.sweep + 2 * KillWait
           /\ s = "uc_fetch" =>
                WaitSum(Waits(s)) =
                    settings.launch + settings.fetch + settings.sweep + 4 * KillWait
  <1>1. /\ settings.fetch \in Nat /\ settings.launch \in Nat /\ settings.sweep \in Nat
        /\ KillWait \in Nat /\ LateSweep \in Nat
    BY SettingsAssumption DEF SafeSettings
  <1>2. PICK fetch \in Nat, launch \in Nat, sweep \in Nat, kill \in Nat, late \in Nat :
          /\ fetch = settings.fetch /\ launch = settings.launch /\ sweep = settings.sweep
          /\ kill = KillWait /\ late = LateSweep
    BY <1>1
  <1>3. ASSUME NEW a \in Nat, NEW b \in Nat, NEW c \in Nat, NEW d \in Nat
        PROVE  /\ <<a, b, c, d>> \in Seq(Nat) /\ Len(<<a, b, c, d>>) = 4
               /\ WaitSum(<<a, b, c, d>>) = a + b + c + d
    <2> DEFINE w == <<a, b, c, d>>
    <2>1. w \in Seq(Nat) /\ Len(w) = 4 /\ DOMAIN w = 1 .. 4
      OBVIOUS
    <2>2. /\ Wait(w, 1) = a /\ Wait(w, 2) = b /\ Wait(w, 3) = c /\ Wait(w, 4) = d
          /\ Wait(w, 5) = 0 /\ Wait(w, 6) = 0 /\ Wait(w, 7) = 0
      BY <2>1 DEF Wait
    <2>3. WaitSum(w) = a + b + c + d
      <3> HIDE DEF w
      <3> QED
        BY <2>2 DEF WaitSum
    <2> QED
      BY <2>1, <2>3
  <1>4. CASE s = "browser"
    <2>1. Waits(s) = <<fetch, kill, kill, kill>>
      BY <1>2, <1>4 DEF Waits, BrowserWaits
    <2>2. /\ Waits(s) \in Seq(Nat) /\ Len(Waits(s)) = 4
          /\ WaitSum(Waits(s)) = fetch + kill + kill + kill
      BY <1>3, <2>1
    <2>3. /\ WaitSum(Waits(s)) \in Nat
          /\ WaitSum(Waits(s)) = fetch + 3 * kill
      BY <2>2
    <2>4. WaitSum(Waits(s)) = settings.fetch + 3 * KillWait
      BY <1>2, <2>3, Zenon
    <2>5. Len(Waits(s)) <= 7
      BY <2>2
    <2> QED
      BY <1>4, <2>2, <2>3, <2>4, <2>5, Zenon
  <1>5. CASE s = "camoufox"
    <2>1. Waits(s) = <<fetch, kill, late, kill>>
      BY <1>2, <1>5 DEF Waits, CamoufoxWaits
    <2>2. /\ Waits(s) \in Seq(Nat) /\ Len(Waits(s)) = 4
          /\ WaitSum(Waits(s)) = fetch + kill + late + kill
      BY <1>3, <2>1
    <2>3. /\ WaitSum(Waits(s)) \in Nat
          /\ WaitSum(Waits(s)) = fetch + 2 * kill + late
      BY <2>2
    <2>4. WaitSum(Waits(s)) = settings.fetch + 2 * KillWait + LateSweep
      BY <1>2, <2>3, Zenon
    <2>5. Len(Waits(s)) <= 7
      BY <2>2
    <2> QED
      BY <1>5, <2>2, <2>3, <2>4, <2>5, Zenon
  <1>6. CASE s = "uc_launch"
    <2>1. Waits(s) = <<launch, kill, sweep, kill>>
      BY <1>2, <1>6 DEF Waits, UcLaunchWaits
    <2>2. /\ Waits(s) \in Seq(Nat) /\ Len(Waits(s)) = 4
          /\ WaitSum(Waits(s)) = launch + kill + sweep + kill
      BY <1>3, <2>1
    <2>3. /\ WaitSum(Waits(s)) \in Nat
          /\ WaitSum(Waits(s)) = launch + sweep + 2 * kill
      BY <2>2
    <2>4. WaitSum(Waits(s)) = settings.launch + settings.sweep + 2 * KillWait
      BY <1>2, <2>3, Zenon
    <2>5. Len(Waits(s)) <= 7
      BY <2>2
    <2> QED
      BY <1>6, <2>2, <2>3, <2>4, <2>5, Zenon
  <1>7. CASE s = "uc_fetch"
    <2>1. PICK w : w = Waits(s)
      OBVIOUS
    <2>2. w = <<launch, fetch, kill, kill, kill, sweep, kill>>
      BY <1>2, <1>7, <2>1 DEF Waits, UcFetchWaits
    <2>3. w \in Seq(Nat) /\ Len(w) = 7 /\ DOMAIN w = 1 .. 7
      BY <2>2
    <2>4. /\ Wait(w, 1) = launch /\ Wait(w, 2) = fetch /\ Wait(w, 3) = kill
          /\ Wait(w, 4) = kill /\ Wait(w, 5) = kill /\ Wait(w, 6) = sweep
          /\ Wait(w, 7) = kill
      BY <2>2 DEF Wait
    <2>5. WaitSum(w) = launch + fetch + kill + kill + kill + sweep + kill
      BY <2>4 DEF WaitSum
    <2>6. WaitSum(w) \in Nat /\ WaitSum(w) = launch + fetch + sweep + 4 * kill
      BY <2>5
    <2>7. WaitSum(w) = settings.launch + settings.fetch + settings.sweep + 4 * KillWait
      BY <1>2, <2>6, Zenon
    <2>8. Len(w) <= 7
      BY <2>3
    <2> QED
      BY <1>7, <2>1, <2>3, <2>6, <2>7, <2>8, Zenon
  <1> QED
    BY <1>4, <1>5, <1>6, <1>7 DEF Stuck

\* A wait of a stuck fetch ends: what is left shrinks by its whole bound.
LEMMA HoldStep ==
    ASSUME IInv, Hold
    PROVE  IInv'
  <1>1. /\ part = "gate" /\ WaitEnds
        /\ UNCHANGED <<sites, products, sources, seen, at, todo, grounds, verdict,
                       clock, due, left, op, delivered, settings, part, stuck>>
    BY DEF Hold, WaitEnds, rows, runVars, smtp
  <1>2. waits \in Seq(Nat) /\ waits # <<>> /\ Len(waits) <= 7 /\ held \in Nat
    BY <1>1 DEF IInv, GateOK, WaitEnds
  <1>3. PICK d \in 0 .. Head(waits) : held' = held + d
    BY <1>1 DEF WaitEnds
  <1>4. waits' = Tail(waits)
    BY <1>1 DEF WaitEnds
  <1>5. Waits(stuck)' = Waits(stuck)
    BY <1>1 DEF Waits, BrowserWaits, CamoufoxWaits, UcLaunchWaits, UcFetchWaits
  <1>6. WaitSum(Waits(stuck)) \in Nat
    BY WaitsTotal DEF IInv, GateOK
  <1>7. GateOK'
    <2>1. /\ Head(waits) \in Nat /\ Tail(waits) \in Seq(Nat) /\ Len(Tail(waits)) <= 7
          /\ WaitSum(Tail(waits)) \in Nat
          /\ WaitSum(waits) = Head(waits) + WaitSum(Tail(waits))
      BY <1>2, WaitSumTail
    <2>2. held' \in Nat /\ held' + WaitSum(Tail(waits)) <= held + WaitSum(waits)
      BY <1>2, <1>3, <2>1
    <2>3. held + WaitSum(waits) <= WaitSum(Waits(stuck))
      BY DEF IInv, GateOK
    <2>4. held' + WaitSum(Tail(waits)) <= WaitSum(Waits(stuck))
      BY <1>2, <1>6, <2>1, <2>2, <2>3
    <2>5. (held + WaitSum(waits) <= WaitSum(Waits(stuck)))'
      BY <1>4, <1>5, <2>4 DEF WaitSum, Wait
    <2> QED
      BY <1>1, <1>4, <2>1, <2>2, <2>5 DEF GateOK, IInv
  <1>8. PcKnown' /\ SafeSettings(settings)' /\ RunOK' /\ SendOK' /\ VerdictGrounded'
    BY <1>1 DEF IInv, PcKnown, SafeSettings, RunOK, SendOK, VerdictGrounded
  <1> QED
    BY <1>7, <1>8 DEF IInv

\* A step that leaves the gate alone.
LEMMA GateKept ==
    ASSUME GateOK, UNCHANGED <<stuck, waits, held, settings>>
    PROVE  GateOK'
  <1>1. Waits(stuck)' = Waits(stuck)
    BY DEF Waits, BrowserWaits, CamoufoxWaits, UcLaunchWaits, UcFetchWaits
  <1>2. WaitSum(waits)' = WaitSum(waits) /\ WaitSum(Waits(stuck))' = WaitSum(Waits(stuck))
    BY <1>1 DEF WaitSum, Wait
  <1> QED
    BY <1>2 DEF GateOK

-----------------------------------------------------------------------------
(* The registry                                                             *)

\* Edits by others keep to the registry, and the reader stays where it is.
LEMMA EditStep ==
    ASSUME IInv, OthersEdit
    PROVE  IInv'
  <1>1. /\ EditRegistry
        /\ UNCHANGED <<todo, grounds, verdict, clock, due, left, op, delivered,
                       stuck, waits, held, settings, part>>
    BY DEF OthersEdit, runVars, smtp, gateVars
  <1>2. /\ sites' \subseteq Site /\ products' \subseteq Product /\ sources' \subseteq Source
        /\ UNCHANGED <<at, seen>>
    BY <1>1 DEF IInv, RunOK, EditRegistry, AddSite, AddProduct, RemoveProduct, AddSource,
                RemoveSource
  <1>3. RunOK'
    BY <1>1, <1>2 DEF IInv, RunOK, Seen
  <1>4. PcKnown' /\ SafeSettings(settings)' /\ SendOK' /\ VerdictGrounded'
    BY <1>1, <1>2 DEF IInv, PcKnown, SafeSettings, SendOK, Budget, VerdictGrounded
  <1>5. GateOK'
    BY <1>1, GateKept DEF IInv
  <1> QED
    BY <1>3, <1>4, <1>5 DEF IInv

\* load() moves to the next of its three reads.
LEMMA ReadStep ==
    ASSUME IInv, ReadRegistry
    PROVE  IInv'
  <1>1. /\ Load
        /\ UNCHANGED <<todo, grounds, verdict, clock, due, left, op, delivered,
                       stuck, waits, held, settings, part>>
    BY DEF ReadRegistry, runVars, smtp, gateVars
  <1>2. /\ at \in {"sites", "products", "sources"}
        /\ at' \in {"products", "sources", "loaded"}
        /\ UNCHANGED <<sites, products, sources>>
    BY <1>1 DEF Load, LoadSites, LoadProducts, LoadSources, rows
  <1>3. seen' \in Seen
    BY <1>1 DEF Load, LoadSites, LoadProducts, LoadSources, IInv, RunOK, Seen
  <1>4. RunOK'
    BY <1>1, <1>2, <1>3 DEF IInv, RunOK
  <1>5. PcKnown' /\ VerdictGrounded'
    BY <1>1, <1>2 DEF IInv, PcKnown, RunPc, SendPc, VerdictGrounded
  <1>6. SafeSettings(settings)' /\ SendOK'
    BY <1>1, <1>2 DEF IInv, SafeSettings, SendOK
  <1>7. GateOK'
    BY <1>1, GateKept DEF IInv
  <1> QED
    BY <1>4, <1>5, <1>6, <1>7 DEF IInv

-----------------------------------------------------------------------------
(* The run over the sources                                                 *)

\* The source under way is one of the registry, and so is its site.
LEMMA CurrentKnown ==
    ASSUME RunOK, todo # {}
    PROVE  Cur \in todo /\ Cur \in Source /\ SiteOf[Cur] \in Site
  <1>1. todo \in SUBSET Nat
    BY RegistryAssumption DEF RunOK
  <1>2. Cur \in todo
    BY <1>1, MinOfSources DEF Cur
  <1> QED
    BY <1>2, RegistryAssumption DEF RunOK

\* What a parser makes of a page that was read is grounded in that page.
LEMMA ParsedGrounded ==
    ASSUME RunOK, Parsed
    PROVE  verdict' \in grounds' \cup {"indeterminate"}
  <1>1. at = "fetched" /\ todo # {}
    BY DEF Parsed, RunOK
  <1>2. PICK kind \in ParsersOf[SiteOf[Cur]] : \E got \in Readings[kind] :
          verdict' = got.verdict /\ grounds' = got.grounds
    BY DEF Parsed, Decide, Challenged
  <1>3. kind \in Kind
    BY <1>1, CurrentKnown, ScrapeAssumption
  <1> QED
    BY <1>2, <1>3, ReadingsGrounded

\* What a step of the run does to the loop.
LEMMA RunEffect ==
    ASSUME RunOK, RunStep
    PROVE  /\ UNCHANGED <<sites, products, sources, seen>>
           /\ at' \in RunPc
           /\ todo' \subseteq todo \/ todo' = seen.sources
           /\ at' \in {"select", "fetch", "fetched", "store"} => todo' = todo /\ todo # {}
           /\ at' = "store" => verdict' \in grounds' \cup {"indeterminate"}
  <1>1. CASE StartLoop \/ Finish \/ Abort \/ TakeSource
    BY <1>1 DEF StartLoop, Finish, Abort, TakeSource, reading, rows, RunPc
  <1>2. CASE SkipSource \/ GuardCatches \/ ParserUnknown \/ StoreRecord \/ StoreFails
    BY <1>2 DEF SkipSource, GuardCatches, ParserUnknown, StoreRecord, StoreFails,
                Report, reading, rows, RunPc
  <1>3. CASE SelectFetcher \/ Redirected \/ Fetched \/ TryAgain
    BY <1>3 DEF SelectFetcher, Redirected, Fetched, TryAgain, Select, FollowRedirect,
                GotPage, Retry, reading, rows, RunPc, RunOK
  <1>4. CASE FetchFails \/ StillChallenged \/ ParserRaises
    BY <1>4 DEF FetchFails, FetchRaises, StillChallenged, ParserRaises, Decide,
                reading, rows, RunPc, RunOK
  <1>5. CASE Parsed
    <2>1. verdict' \in grounds' \cup {"indeterminate"}
      BY <1>5, ParsedGrounded
    <2> QED
      BY <1>5, <2>1 DEF Parsed, Decide, reading, rows, RunPc, RunOK
  <1> QED
    BY <1>1, <1>2, <1>3, <1>4, <1>5 DEF RunStep

\* The steps of the run keep the invariant.
LEMMA RunKeeps ==
    ASSUME IInv, Run
    PROVE  IInv'
  <1>1. /\ part = "run" /\ RunStep
        /\ UNCHANGED <<clock, due, left, op, delivered, stuck, waits, held, settings, part>>
    BY DEF Run, smtp, gateVars
  <1>2. RunOK /\ at \in RunPc
    BY <1>1 DEF IInv, PcKnown
  <1>3. /\ UNCHANGED <<sites, products, sources, seen>>
        /\ at' \in RunPc
        /\ todo' \subseteq todo \/ todo' = seen.sources
        /\ at' \in {"select", "fetch", "fetched", "store"} => todo' = todo /\ todo # {}
        /\ at' = "store" => verdict' \in grounds' \cup {"indeterminate"}
    BY <1>1, <1>2, RunEffect
  <1>4. seen.sources \subseteq Source
    BY <1>2 DEF RunOK, Seen
  <1>5. RunOK'
    BY <1>2, <1>3, <1>4 DEF RunOK
  <1>6. PcKnown' /\ VerdictGrounded'
    BY <1>1, <1>3 DEF PcKnown, Part, VerdictGrounded
  <1>7. SafeSettings(settings)' /\ SendOK'
    BY <1>1, <1>2, <1>3 DEF IInv, SafeSettings, SendOK, RunPc
  <1>8. GateOK'
    BY <1>1, GateKept DEF IInv
  <1> QED
    BY <1>5, <1>6, <1>7, <1>8 DEF IInv

-----------------------------------------------------------------------------
(* Sending the digest                                                       *)

\* A budget of eight timeouts is eight at least.
LEMMA BudgetPositive ==
    ASSUME NEW t \in Nat \ {0}
    PROVE  MaxOps * t \in Nat /\ MaxOps * t >= 8
  BY DEF MaxOps

\* Up to the first attempt nothing is delivered.
LEMMA PrepareKeeps ==
    ASSUME SafeSettings(settings), SendOK, UNCHANGED settings,
           NoRecipient \/ UnsafeRecipient \/ Recipient \/ RenderFails \/ Render
    PROVE  SendOK' /\ at' \in SendPc /\ UNCHANGED <<sites, products, sources, seen>>
  <1>1. CASE NoRecipient \/ UnsafeRecipient \/ Recipient \/ RenderFails
    BY <1>1 DEF NoRecipient, UnsafeRecipient, Recipient, RenderFails, SendOK, SendPc,
                smtp, rows
  <1>2. CASE Render
    <2>1. PICK d \in 0 .. MaxPrep : clock' = clock + d /\ due' = clock + d + settings.deadline
      BY <1>2 DEF Render
    <2>2. /\ at = "loaded" /\ at' = "attempt" /\ left' = settings.attempts /\ op' = 1
          /\ UNCHANGED <<delivered, sites, products, sources, seen>>
      BY <1>2 DEF Render, rows
    <2>3. settings.deadline \in Nat /\ settings.attempts \in Nat
      BY DEF SafeSettings
    <2>4. clock' \in Nat /\ due' \in Nat /\ due' - settings.deadline <= clock'
      BY <2>1, <2>3, SmtpAssumption DEF SendOK
    <2> QED
      BY <2>2, <2>3, <2>4 DEF SendOK, SendPc
  <1> QED
    BY <1>1, <1>2

\* One exchange with the relay. Only the reply to the message delivers it.
LEMMA ExchangeKeeps ==
    ASSUME SafeSettings(settings), SendOK, UNCHANGED settings, Exchange
    PROVE  SendOK' /\ at' \in SendPc /\ UNCHANGED <<sites, products, sources, seen>>
  <1>1. PICK t \in Nat \ {0} : t = settings.timeout
    BY DEF SafeSettings
  <1>2. /\ at = "attempt" /\ at' = "attempt" /\ op \in 1 .. 9 /\ op' = op + 1
        /\ delivered' = IF op = 9 THEN delivered + 1 ELSE delivered
        /\ UNCHANGED <<due, left, sites, products, sources, seen>>
    BY DEF Exchange, SendOK, rows
  <1>3. \E d \in Nat : clock' = clock + d
    BY <1>1 DEF Exchange, Took, Rounds
  <1>4. clock \in Nat /\ clock' \in Nat /\ due \in Nat
    BY <1>3 DEF SendOK
  <1>5. delivered = 0 /\ delivered' = IF op' = 10 THEN 1 ELSE 0
    BY <1>2 DEF SendOK
  <1>6. settings.deadline \in Nat /\ due - settings.deadline <= clock'
    BY <1>2, <1>3, <1>4 DEF SendOK, SafeSettings
  <1>7. op' # 1
    BY <1>2
  <1>8. op' \in 0 .. 10 /\ op' >= 1
    BY <1>2
  <1> QED
    BY <1>2, <1>4, <1>5, <1>6, <1>7, <1>8 DEF SendOK, SendPc

\* A failed attempt is only gone on from when the message was not taken.
LEMMA FailureKeeps ==
    ASSUME SafeSettings(settings), SendOK, UNCHANGED settings,
           ExchangeFails \/ CloseAfterRefusal \/ Quit
    PROVE  SendOK' /\ at' \in SendPc /\ UNCHANGED <<sites, products, sources, seen>>
  <1>1. PICK t \in Nat \ {0} : t = settings.timeout
    BY DEF SafeSettings
  <1>2. \E d \in Nat : clock' = clock + d
    BY <1>1 DEF ExchangeFails, CloseAfterRefusal, Quit, Took, Rounds
  <1>3. clock \in Nat /\ clock' \in Nat /\ clock <= clock' /\ due \in Nat
    BY <1>2 DEF SendOK
  <1>4. /\ at \in {"attempt", "closing"} /\ at' \in {"raised", "closing", "failed", "sent"}
        /\ UNCHANGED <<due, left, op, sites, products, sources, seen>>
    BY DEF ExchangeFails, CloseAfterRefusal, Quit, rows
  <1>5. /\ delivered' \in {0, 1}
        /\ at' \in {"closing", "failed"} => delivered' = 0
        /\ at' = "sent" => delivered' = 1
    <2>1. CASE ExchangeFails
      <3>1. PICK fault \in Fault :
              /\ at' = IF ~Retryable(op, fault) THEN "raised"
                       ELSE IF fault # "dropped" /\ op > 1 THEN "closing" ELSE "failed"
              /\ delivered' \in IF op = 9 /\ fault = "dropped"
                                THEN {delivered, delivered + 1} ELSE {delivered}
        BY <2>1 DEF ExchangeFails
      <3>2. at = "attempt" /\ op \in 1 .. 9 /\ delivered = 0
        BY <2>1 DEF ExchangeFails, SendOK
      <3>3. op = 9 /\ fault = "dropped" => ~Retryable(op, fault)
        BY DEF Retryable, RetryableSend
      <3> QED
        BY <3>1, <3>2, <3>3
    <2>2. CASE CloseAfterRefusal
      BY <2>2 DEF CloseAfterRefusal, SendOK
    <2>3. CASE Quit
      BY <2>3 DEF Quit, SendOK
    <2> QED
      BY <2>1, <2>2, <2>3
  <1>6. settings.deadline \in Nat /\ due - settings.deadline <= clock'
    BY <1>3, <1>4 DEF SendOK, SafeSettings
  <1> QED
    BY <1>3, <1>4, <1>5, <1>6 DEF SendOK, SendPc

\* Another attempt is begun only when the whole of it fits the deadline.
LEMMA LoopKeeps ==
    ASSUME SafeSettings(settings), SendOK, UNCHANGED settings,
           GiveUp \/ BackOff \/ AfterSleep
    PROVE  SendOK' /\ at' \in SendPc /\ UNCHANGED <<sites, products, sources, seen>>
  <1>1. PICK t \in Nat \ {0} : t = settings.timeout
    BY DEF SafeSettings
  <1>2. PICK b \in Nat : b = Budget /\ b >= 8
    BY <1>1, BudgetPositive DEF Budget
  <1>3. CASE GiveUp
    BY <1>3 DEF GiveUp, SendOK, SendPc, smtp, rows
  <1>4. CASE BackOff
    <2>1. /\ at = "failed" /\ at' = "slept" /\ left > 0 /\ due - clock >= b
          /\ UNCHANGED <<due, left, op, delivered, sites, products, sources, seen>>
      BY <1>2, <1>4 DEF BackOff, rows
    <2>2. clock \in Nat /\ due \in Nat /\ settings.backoff \in Nat /\ settings.deadline \in Nat
      BY DEF SendOK, SafeSettings
    <2>3. PICK backoff \in Int : backoff = Min({settings.backoff, due - clock - Budget})
      BY <1>2, <2>2, MinPair
    <2>4. PICK late \in 0 .. MaxOversleep :
            clock' = IF backoff > 0 THEN clock + backoff + late ELSE clock
      BY <1>4, <2>3 DEF BackOff
    <2>5. clock' \in Nat /\ clock <= clock'
      BY <2>2, <2>4, SmtpAssumption
    <2>6. due - settings.deadline <= clock'
      BY <2>1, <2>2, <2>5 DEF SendOK
    <2> QED
      BY <2>1, <2>5, <2>6 DEF SendOK, SendPc
  <1>5. CASE AfterSleep
    <2>1. /\ at = "slept" /\ at' = IF due - clock < b THEN "raised" ELSE "attempt"
          /\ IF at' = "attempt" THEN left' = left - 1 /\ op' = 1 ELSE UNCHANGED <<left, op>>
          /\ UNCHANGED <<clock, due, delivered, sites, products, sources, seen>>
      BY <1>2, <1>5 DEF AfterSleep, Recheck, rows
    <2>2. CASE due - clock < b
      BY <2>1, <2>2 DEF SendOK, SendPc
    <2>3. CASE ~(due - clock < b)
      <3>1. at' = "attempt" /\ left' = left - 1 /\ op' = 1
        BY <2>1, <2>3
      <3>2. clock \in Nat /\ due \in Nat /\ left \in Nat
        BY DEF SendOK
      <3>3. clock + b <= due
        BY <2>3, <3>2
      <3>4. settings.deadline \in Nat /\ due - settings.deadline <= clock
        BY <2>1 DEF SendOK, SafeSettings
      <3>5. settings.deadline # 1
        BY <1>2, <3>2, <3>3, <3>4
      <3>6. settings.deadline = settings.reaper - settings.timeout
        BY <3>5 DEF SafeSettings
      <3>7. clock' + Budget' <= due'
        BY <1>2, <2>1, <3>3 DEF Budget
      <3>8. left' \in Nat /\ left' <= settings.attempts
        BY <2>1, <3>1, <3>2 DEF SendOK, SafeSettings
      <3> QED
        BY <2>1, <3>1, <3>2, <3>4, <3>6, <3>7, <3>8 DEF SendOK, SendPc
    <2> QED
      BY <2>2, <2>3
  <1> QED
    BY <1>3, <1>4, <1>5

\* The steps of send() keep the invariant.
LEMMA SendKeeps ==
    ASSUME IInv, Send
    PROVE  IInv'
  <1>1. /\ part = "send" /\ SendStep
        /\ UNCHANGED <<todo, grounds, verdict, stuck, waits, held, settings, part>>
    BY DEF Send, runVars, gateVars
  <1>2. SendOK' /\ at' \in SendPc /\ UNCHANGED <<sites, products, sources, seen>>
    BY <1>1, PrepareKeeps, ExchangeKeeps, FailureKeeps, LoopKeeps DEF IInv, SendStep
  <1>3. RunOK'
    BY <1>1, <1>2 DEF IInv, RunOK, SendPc
  <1>4. PcKnown' /\ VerdictGrounded' /\ SafeSettings(settings)'
    BY <1>1, <1>2 DEF IInv, PcKnown, Part, VerdictGrounded, SafeSettings, SendPc
  <1>5. GateOK'
    BY <1>1, GateKept DEF IInv
  <1> QED
    BY <1>2, <1>3, <1>4, <1>5 DEF IInv

-----------------------------------------------------------------------------
(* The invariant and what it shows                                          *)

\* Every call starts in a state of the invariant, whatever the environment.
LEMMA InitInv == Init => IInv
  <1> SUFFICES ASSUME Init PROVE IInv
    OBVIOUS
  <1>1. part \in Part
    BY DEF Init
  <1>2. SafeSettings(settings)
    <2>1. PICK env \in EnvironmentsOf[part] : settings = GetSettings(env)
      BY DEF Init
    <2>2. env \in [Name -> Int]
      BY <1>1, <2>1, DeploymentAssumption
    <2> QED
      BY <2>1, <2>2, SettingsSafe
  <1>3. PcKnown
    BY <1>1 DEF Init, PcKnown, Part, RunPc, SendPc
  <1>4. RunOK
    BY <1>1 DEF Init, InitRegistry, NothingSeen, RunOK, Seen, Part
  <1>5. SendOK /\ VerdictGrounded
    BY <1>1 DEF Init, SendOK, VerdictGrounded, Part
  <1>6. GateOK
    <2>1. stuck \in Stuck /\ held = 0
      BY DEF Init, Stuck
    <2>2. PICK total \in Nat : total = WaitSum(Waits(stuck))
      BY <1>2, <2>1, WaitsTotal
    <2>3. Waits(stuck) \in Seq(Nat) /\ Len(Waits(stuck)) <= 7
      BY <1>2, <2>1, WaitsTotal
    <2>4. CASE part = "gate"
      <3>1. waits = Waits(stuck)
        BY <2>4 DEF Init
      <3>2. held + WaitSum(waits) <= WaitSum(Waits(stuck))
        BY <2>1, <2>2, <3>1
      <3> QED
        BY <2>1, <2>3, <3>1, <3>2 DEF GateOK
    <2>5. CASE part # "gate"
      <3>1. waits = <<>>
        BY <2>5 DEF Init
      <3>2. held + WaitSum(waits) <= WaitSum(Waits(stuck))
        BY <2>1, <2>2, <3>1, WaitSumEmpty
      <3>3. waits \in Seq(Nat) /\ Len(waits) <= 7
        BY <3>1
      <3> QED
        BY <2>1, <3>2, <3>3 DEF GateOK
    <2> QED
      BY <2>4, <2>5
  <1> QED
    BY <1>2, <1>3, <1>4, <1>5, <1>6 DEF IInv

\* IInv is inductive: every step of every call keeps it.
THEOREM DeploymentInvariant == Spec => []IInv
  <1>1. IInv /\ [Next]_vars => IInv'
    <2> SUFFICES ASSUME IInv, [Next]_vars PROVE IInv'
      OBVIOUS
    <2>1. CASE UNCHANGED vars
      <3>1. UNCHANGED <<sites, products, sources, at, seen, todo, grounds, verdict, clock,
                        due, left, op, delivered, stuck, waits, held, settings, part>>
        BY <2>1 DEF vars, rows, runVars, smtp, gateVars
      <3>2. PcKnown' /\ SafeSettings(settings)' /\ RunOK' /\ SendOK' /\ VerdictGrounded'
        BY <3>1 DEF IInv, PcKnown, SafeSettings, RunOK, SendOK, Budget, VerdictGrounded
      <3> QED
        BY <3>1, <3>2, GateKept DEF IInv
    <2> QED
      BY <2>1, EditStep, ReadStep, RunKeeps, SendKeeps, HoldStep DEF Next, Rest
  <1> QED
    BY <1>1, InitInv, PTL DEF Spec

\* Whatever page each of the six parsers is given, and whatever the registry
\* was edited to, scrape_one builds no definitive verdict that the page it
\* read does not support.
THEOREM VerdictGroundedHolds == Spec => []VerdictGrounded
  BY DeploymentInvariant, PTL DEF IInv

\* However the exchanges of send() fail and however often it tries again, the
\* relay takes the digest at most once, once if send() says so.
THEOREM DeliveryExactHolds == Spec => []DeliveryExact
  <1>1. IInv => DeliveryExact
    BY DEF IInv, SendOK, DeliveryExact
  <1> QED
    BY <1>1, DeploymentInvariant, PTL

\* For every timeout and every reaper's window that the environment may ask
\* for, an attempt of send() is begun anew only when the budget of an attempt
\* fits that window.
THEOREM RetryStartsInTimeHolds == Spec => []RetryStartsInTime
  <1>1. IInv => RetryStartsInTime
    <2> SUFFICES ASSUME IInv, at = "attempt", op = 1, left < settings.attempts,
                        due - settings.deadline <= settings.timeout
                 PROVE  clock + Budget <= settings.reaper
      BY DEF RetryStartsInTime
    <2>1. settings.deadline = settings.reaper - settings.timeout /\ clock + Budget <= due
      BY DEF IInv, SendOK
    <2>2. PICK t \in Nat \ {0}, r \in Nat : t = settings.timeout /\ r = settings.reaper
      BY DEF IInv, SafeSettings
    <2>3. PICK b \in Nat : b = Budget
      BY <2>2, BudgetPositive DEF Budget
    <2>4. clock \in Nat /\ due \in Nat
      BY DEF IInv, SendOK
    <2> QED
      BY <2>1, <2>2, <2>3, <2>4
  <1> QED
    BY <1>1, DeploymentInvariant, PTL

\* For every budget the environment may ask for: where the process did not
\* warn about Camoufox when it started, a stuck Camoufox fetch holds the gate
\* for less than others wait for it, its cleanup included.
THEOREM CamoufoxLeavesInTimeHolds == Spec => []CamoufoxLeavesInTime
  <1>1. IInv => CamoufoxLeavesInTime
    <2> SUFFICES ASSUME IInv, stuck = "camoufox", ~GateWarns("camoufox")
                 PROVE  held < settings.acquire
      BY DEF CamoufoxLeavesInTime
    <2>1. PICK a \in Nat, f \in Nat, k \in Nat, z \in Nat :
            a = settings.acquire /\ f = settings.fetch /\ k = KillWait /\ z = LateSweep
      BY SettingsAssumption DEF IInv, SafeSettings
    <2>2. PICK rest \in Nat : rest = WaitSum(waits)
      <3>1. CASE waits = <<>>
        BY <3>1, WaitSumEmpty
      <3>2. CASE waits # <<>>
        BY <3>2, WaitSumTail DEF IInv, GateOK
      <3> QED
        BY <3>1, <3>2
    <2>3. WaitSum(Waits(stuck)) = f + 2 * k + z
      BY <2>1, WaitsTotal DEF IInv, GateOK
    <2>4. held \in Nat /\ held <= f + 2 * k + z
      BY <2>1, <2>2, <2>3 DEF IInv, GateOK
    <2>5. f + (2 * k + z) < a
      BY <2>1 DEF GateWarns, Cleanup
    <2> QED
      BY <2>1, <2>4, <2>5
  <1> QED
    BY <1>1, DeploymentInvariant, PTL

-----------------------------------------------------------------------------
(* What a run has done when it is over                                      *)

\* Why a run may fail as a whole: a source was added, and its site, after
\* the sites were read.
SiteCameLate == \E r \in seen.sources : SiteOf[r] \in sites \ seen.sites

Early == {"sites", "products", "sources", "loaded"}
Scraping == {"select", "fetch", "fetched", "store"}

\* The foreign key of the sources table, and what it says of the sources that
\* were read: a site is never removed.
SitesKnown ==
    /\ \A r \in sources : SiteOf[r] \in sites
    /\ at \notin Early \ {"loaded"} => \A r \in seen.sources : SiteOf[r] \in sites

\* What a source that the loop has passed may show.
Settled(r) ==
    /\ TierAvailable(TierOf[SiteOf[r]]) => records[r] # "none"
    /\ ~TierAvailable(TierOf[SiteOf[r]]) =>
         stored[r] = "none" /\ records[r] \in {"none", "indeterminate"}
    /\ records[r] # stored[r] => records[r] = "indeterminate" /\ stored[r] = "none"

\* A source that the loop has not passed shows nothing, the others are
\* settled, and the one under way has a tier and, at its end, a verdict.
BooksKept ==
    /\ records \in [Source -> Status \cup {"none"}]
    /\ stored \in [Source -> Status \cup {"none"}]
    /\ at \in Early => \A r \in Source : records[r] = "none" /\ stored[r] = "none"
    /\ at \notin Early =>
         /\ todo \subseteq seen.sources
         /\ \A r \in Source :
              IF r \in seen.sources \ todo THEN Settled(r)
              ELSE records[r] = "none" /\ stored[r] = "none"
    /\ at \in Scraping => TierAvailable(CurTier)
    /\ at = "store" => verdict \in Status
    /\ at = "done" => todo = {}
    /\ at = "aborted" => SiteCameLate

RunBooks == part = "run" => SitesKnown /\ BooksKept

\* A run over an owner's sources that has ended: with every source accounted
\* for, or, through the KeyError of iter_sources, because a site was
\* catalogued between the three reads of load().
RunAccounted ==
    part = "run" => /\ at = "done" => Reported
                    /\ at = "aborted" => SiteCameLate

\* Whatever page a parser is given, there is one of the three statuses for it.
LEMMA ReadingsDecide ==
    ASSUME NEW kind, NEW got \in Readings[kind], kind \in Kind
    PROVE  got.verdict \in Status
  <1>1. PICK p \in PagesOf[kind] :
          got = [verdict |-> ComputeVerdict(ExtractOf(kind, p)), grounds |-> Grounds(kind, p)]
    BY DEF Readings
  <1> QED
    BY <1>1 DEF ComputeVerdict, Status

\* A run starts with nothing reported and a registry as its foreign keys keep it.
LEMMA InitBooks == Init => RunBooks
  BY DEF Init, InitRegistry, ParentsExist, NothingSeen, RunBooks, SitesKnown, BooksKept,
         Early, Scraping

\* Edits by others do not touch the books, and no site goes while it is
\* referred to.
LEMMA EditBooks ==
    ASSUME IInv, RunBooks, OthersEdit
    PROVE  RunBooks'
  <1> SUFFICES ASSUME part = "run" PROVE SitesKnown' /\ BooksKept'
    BY DEF RunBooks, OthersEdit
  <1>1. /\ at \in Early \ {"loaded"} /\ EditRegistry
        /\ UNCHANGED <<todo, verdict, records, stored, part>>
    BY DEF OthersEdit, runVars, IInv, PcKnown, RunPc, Early
  <1>2. /\ UNCHANGED <<at, seen>>
        /\ sites \subseteq sites'
        /\ \A r \in sources' : r \in sources \/ SiteOf[r] \in sites'
    BY <1>1 DEF EditRegistry, AddSite, AddProduct, RemoveProduct, AddSource, RemoveSource,
                ParentsExist
  <1>3. SitesKnown'
    BY <1>1, <1>2 DEF RunBooks, SitesKnown
  <1>4. BooksKept'
    BY <1>1, <1>2 DEF RunBooks, BooksKept, Early, Scraping
  <1> QED
    BY <1>3, <1>4

\* The sources are read last: the sites of those read are in the catalogue,
\* though not always among the sites that were read.
LEMMA ReadBooks ==
    ASSUME IInv, RunBooks, ReadRegistry
    PROVE  RunBooks'
  <1> SUFFICES ASSUME part = "run" PROVE SitesKnown' /\ BooksKept'
    BY DEF RunBooks, ReadRegistry
  <1>1. /\ Load /\ UNCHANGED <<todo, verdict, records, stored, sites, sources>>
    BY DEF ReadRegistry, runVars, Load, LoadSites, LoadProducts, LoadSources, rows
  <1>2. at \in Early \ {"loaded"} /\ at' \in Early
    BY <1>1 DEF Load, LoadSites, LoadProducts, LoadSources, Early
  <1>3. at' = "loaded" => seen'.sources \subseteq sources
    BY <1>1 DEF Load, LoadSites, LoadProducts, LoadSources, IInv, RunOK, Seen
  <1>4. SitesKnown'
    BY <1>1, <1>2, <1>3 DEF RunBooks, SitesKnown, Early
  <1>5. BooksKept'
    BY <1>1, <1>2 DEF RunBooks, BooksKept, Early, Scraping
  <1> QED
    BY <1>4, <1>5

\* The loop goes on once the source under way is settled.
LEMMA ReportBooks ==
    ASSUME RunOK, BooksKept, at \notin Early, todo # {}, NEW r \in Status \cup {"none"},
           Report(r), UNCHANGED seen,
           stored' \in [Source -> Status \cup {"none"}],
           \A s \in Source : s # Cur => stored'[s] = stored[s],
           TierAvailable(CurTier) => r # "none",
           ~TierAvailable(CurTier) => stored'[Cur] = "none" /\ r \in {"none", "indeterminate"},
           r # stored'[Cur] => r = "indeterminate" /\ stored'[Cur] = "none"
    PROVE  BooksKept'
  <1>1. PICK c : c = Cur /\ c \in todo /\ c \in Source
    BY CurrentKnown
  <1>2. /\ records' \in [Source -> Status \cup {"none"}]
        /\ records'[c] = r /\ \A s \in Source : s # c => records'[s] = records[s]
        /\ todo' = todo \ {c} /\ at' = "next"
    BY <1>1 DEF Report, BooksKept
  <1>3. Settled(c)'
    BY <1>1, <1>2 DEF Settled, CurTier
  <1>4. ASSUME NEW s \in Source, s # c
        PROVE  (IF s \in seen.sources \ todo THEN Settled(s)
                ELSE records[s] = "none" /\ stored[s] = "none")'
    BY <1>1, <1>2, <1>4 DEF BooksKept, Settled
  <1>5. c \in seen.sources
    BY <1>1 DEF BooksKept
  <1>6. \A s \in Source :
            (IF s \in seen.sources \ todo THEN Settled(s)
             ELSE records[s] = "none" /\ stored[s] = "none")'
    BY <1>1, <1>2, <1>3, <1>4, <1>5
  <1>7. (todo \subseteq seen.sources)'
    BY <1>2 DEF BooksKept
  <1> QED
    BY <1>2, <1>6, <1>7 DEF BooksKept, Early, Scraping

\* A step that reports nothing and goes on with the same sources.
LEMMA LoopBooks ==
    ASSUME BooksKept, at \notin Early, at' \notin Early, UNCHANGED <<seen, todo, records, stored>>,
           at' \in Scraping => TierAvailable(CurTier),
           at' = "store" => verdict' \in Status,
           at' = "done" => todo = {},
           at' = "aborted" => SiteCameLate'
    PROVE  BooksKept'
  <1>1. CurTier' = CurTier
    BY DEF CurTier, Cur
  <1> QED
    BY <1>1 DEF BooksKept, Settled

\* The verdict of the source under way is one of the three statuses.
LEMMA DecideBooks ==
    ASSUME RunOK, BooksKept,
           FetchFails \/ StillChallenged \/ Parsed \/ ParserRaises
    PROVE  BooksKept'
  <1>1. /\ at \in {"fetch", "fetched"} /\ at' = "store" /\ UNCHANGED <<seen, todo, records, stored>>
    BY DEF FetchFails, FetchRaises, StillChallenged, Parsed, ParserRaises, Decide, reading
  <1>2. verdict' \in Status
    <2>1. CASE FetchFails \/ StillChallenged \/ ParserRaises
      BY <2>1 DEF FetchFails, StillChallenged, ParserRaises, Decide, Status
    <2>2. CASE Parsed
      <3>1. PICK kind \in ParsersOf[SiteOf[Cur]] : \E got \in Readings[kind] :
              verdict' = got.verdict
        BY <2>2 DEF Parsed, Decide
      <3>2. kind \in Kind
        BY <1>1, <3>1, CurrentKnown, ScrapeAssumption DEF RunOK
      <3> QED
        BY <3>1, <3>2, ReadingsDecide
    <2> QED
      BY <2>1, <2>2
  <1>3. TierAvailable(CurTier)
    BY <1>1 DEF BooksKept, Scraping
  <1>4. at \notin Early /\ at' \notin Early
    BY <1>1 DEF Early
  <1> QED
    BY <1>1, <1>2, <1>3, <1>4, LoopBooks

\* Every step of the run keeps the books.
LEMMA RunKeepsBooks ==
    ASSUME IInv, RunBooks, Run
    PROVE  RunBooks'
  <1>1. /\ part = "run" /\ RunStep /\ UNCHANGED part
    BY DEF Run
  <1>2. RunOK /\ SitesKnown /\ BooksKept
    BY <1>1 DEF IInv, RunBooks
  <1>3. UNCHANGED <<sites, sources, seen>> /\ at' \in RunPc
    BY <1>1, <1>2, RunEffect
  <1>4. at \in {"loaded", "next", "select", "fetch", "fetched", "store"} /\ at' \notin Early
    BY <1>1 DEF RunStep, StartLoop, Finish, Abort, SkipSource, TakeSource, SelectFetcher, Select,
           GuardCatches, FactoryRaises, ParserUnknown, Redirected, FollowRedirect, FetchFails,
           FetchRaises, Fetched, GotPage, TryAgain, Retry, StillChallenged, Parsed, ParserRaises,
           StoreRecord, StoreFails, Report, Decide, Early
  <1>5. SitesKnown'
    BY <1>2, <1>3, <1>4 DEF SitesKnown, Early
  <1>6. BooksKept'
    <2>1. CASE StartLoop
      <3>1. /\ at = "loaded" /\ at' = "next" /\ todo' = seen.sources
            /\ UNCHANGED <<seen, records, stored>>
        BY <2>1 DEF StartLoop, reading
      <3> QED
        BY <1>2, <3>1 DEF BooksKept, Early, Scraping
    <2>2. CASE Finish
      BY <1>2, <1>4, <2>2, LoopBooks DEF Finish, reading, Early, Scraping
    <2>3. CASE Abort
      <3>1. /\ at = "next" /\ todo # {} /\ Dangling(Cur) /\ at' = "aborted"
            /\ UNCHANGED <<seen, todo, records, stored>>
        BY <2>3 DEF Abort, reading
      <3>2. Cur \in seen.sources
        BY <1>2, <3>1, CurrentKnown DEF BooksKept, Early
      <3>3. SiteOf[Cur] \in sites \ seen.sites
        BY <1>2, <3>1, <3>2 DEF SitesKnown, Dangling, Early
      <3>4. SiteCameLate'
        BY <1>3, <3>2, <3>3 DEF SiteCameLate
      <3> QED
        BY <1>2, <1>4, <3>1, <3>4, LoopBooks DEF Early, Scraping
    <2>4. CASE TakeSource
      BY <1>2, <1>4, <2>4, LoopBooks DEF TakeSource, reading, Early
    <2>5. CASE SelectFetcher \/ Redirected \/ Fetched \/ TryAgain
      <3>1. /\ at \in Scraping /\ at' \in {"fetch", "fetched"}
            /\ UNCHANGED <<seen, todo, records, stored>>
        BY <2>5 DEF SelectFetcher, Select, Redirected, FollowRedirect, Fetched, GotPage,
                    TryAgain, Retry, reading, Scraping
      <3> QED
        BY <1>2, <1>4, <3>1, LoopBooks DEF BooksKept, Early, Scraping
    <2>6. CASE FetchFails \/ StillChallenged \/ Parsed \/ ParserRaises
      BY <1>2, <2>6, DecideBooks
    <2>7. CASE SkipSource \/ GuardCatches \/ ParserUnknown \/ StoreFails
      <3>1. /\ at \in {"next"} \cup Scraping /\ todo # {} /\ UNCHANGED <<seen, stored>>
        BY <1>2, <2>7 DEF SkipSource, GuardCatches, FactoryRaises, ParserUnknown, StoreFails,
                    reading, Scraping, RunOK
      <3>2. Report("indeterminate") \/ (Report("none") /\ ~TierAvailable(CurTier))
        BY <2>7 DEF SkipSource, GuardCatches, ParserUnknown, StoreFails
      <3>3. Cur \in Source /\ Cur \in todo /\ at \notin Early
        BY <1>2, <3>1, CurrentKnown DEF Early, Scraping
      <3>4. stored[Cur] = "none" /\ stored \in [Source -> Status \cup {"none"}]
        BY <1>2, <3>3 DEF BooksKept
      <3> QED
        BY <1>2, <3>1, <3>2, <3>3, <3>4, ReportBooks DEF Status
    <2>8. CASE StoreRecord
      <3>1. /\ at = "store" /\ stored' = [stored EXCEPT ![Cur] = verdict]
            /\ Report(verdict) /\ UNCHANGED seen
        BY <2>8 DEF StoreRecord, reading
      <3>2. todo # {} /\ Cur \in Source /\ at \notin Early
        BY <1>2, <3>1, CurrentKnown DEF RunOK, Early
      <3>3. verdict \in Status /\ verdict # "none" /\ TierAvailable(CurTier)
        BY <1>2, <3>1 DEF BooksKept, Scraping, Status
      <3>4. /\ stored' \in [Source -> Status \cup {"none"}] /\ stored'[Cur] = verdict
            /\ \A s \in Source : s # Cur => stored'[s] = stored[s]
        BY <1>2, <3>1, <3>2, <3>3 DEF BooksKept
      <3> QED
        BY <1>2, <3>1, <3>2, <3>3, <3>4, ReportBooks
    <2> QED
      BY <1>1, <2>1, <2>2, <2>3, <2>4, <2>5, <2>6, <2>7, <2>8 DEF RunStep
  <1> QED
    BY <1>5, <1>6 DEF RunBooks

\* Whatever the tiers, the parsers, the store and the editors of the registry
\* do: a run that has finished has accounted for every source it loaded, and
\* one that was aborted was so because a site came after the sites were read.
THEOREM RunAccountedHolds == Spec => []RunAccounted
  <1>1. IInv /\ RunBooks /\ [Next]_vars => RunBooks'
    <2> SUFFICES ASSUME IInv, RunBooks, [Next]_vars PROVE RunBooks'
      OBVIOUS
    <2>1. CASE UNCHANGED vars
      <3>1. UNCHANGED <<sites, sources, at, seen, todo, verdict, records, stored, part>>
        BY <2>1 DEF vars, rows, runVars
      <3> QED
        BY <3>1 DEF RunBooks, SitesKnown, BooksKept, Settled, SiteCameLate, CurTier, Cur
    <2>2. CASE Send \/ Hold
      BY <2>2 DEF Send, Hold, RunBooks
    <2> QED
      BY <2>1, <2>2, EditBooks, ReadBooks, RunKeepsBooks DEF Next, Rest
  <1>2. IInv /\ RunBooks => RunAccounted
    <2> SUFFICES ASSUME IInv, RunBooks, part = "run"
                 PROVE  (at = "done" => Reported) /\ (at = "aborted" => SiteCameLate)
      BY DEF RunAccounted
    <2>1. BooksKept
      BY DEF RunBooks
    <2>2. ASSUME at = "done" PROVE Reported
      BY <2>1, <2>2 DEF BooksKept, Settled, Reported, Early
    <2> QED
      BY <2>1, <2>2 DEF BooksKept
  <1> QED
    BY <1>1, <1>2, InitBooks, DeploymentInvariant, PTL DEF Spec

=============================================================================
