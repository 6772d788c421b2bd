------------------------------ MODULE Parsers ------------------------------
(***************************************************************************)
(* From a whole page to a verdict: the six shop parsers (kerdoos/parsers)  *)
(* and the three-valued verdict (core/verdict.py). A page is what the      *)
(* parser's anchors find on it, not its text: an amount is missing, or     *)
(* located and rejected by to_cents (zero, out of range, not a number), or *)
(* good; a piece of text holds markers for "in stock" and "out of stock",  *)
(* and may hold both, as "sem estoque" holds "em estoque".                 *)
(***************************************************************************)
EXTENDS Naturals, FiniteSets, Sequences

Amount == {"none", "rejected", "good"}
Marks == SUBSET {"in", "out"}
Availability == {"in_stock", "out_of_stock", "unknown"}

\* The parsers that are wired; others are whitelisted and raise when built.
Kind == {"amazon", "magalu", "statejson", "pichau", "terabyte", "mercadolivre"}

ToCents(amount) == amount = "good"

\* Faulty variant: the marker for stock is looked for first.
MarkedAvailabilityInFirst(marks) ==
    IF "in" \in marks THEN "in_stock"
    ELSE IF "out" \in marks THEN "out_of_stock" ELSE "unknown"

\* Out of stock is looked for first.
MarkedAvailability(marks) ==
    IF "out" \in marks THEN "out_of_stock"
    ELSE IF "in" \in marks THEN "in_stock" ELSE "unknown"

\* What a parser returns; it raises a ParseError when no price is usable.
Extract(priced, availability) == [priced |-> priced, availability |-> availability]

-----------------------------------------------------------------------------
(* Amazon: a pix price that is printed in split spans or in full, a card    *)
(* price, the member tier's prices taken together as one; block is the text *)
(* of #availability                                                         *)

AmazonPage ==
    [split : Amount, full : Amount, card : Amount, member : Amount, block : Marks]

\* The full string is only read where there are no split spans.
ScopedPixPrice(p) == ToCents(IF p.split # "none" THEN p.split ELSE p.full)

AmazonExtract(p) ==
    Extract(ScopedPixPrice(p) \/ ToCents(p.card) \/ ToCents(p.member),
            MarkedAvailability(p.block))

-----------------------------------------------------------------------------
(* Magalu and the generic statejson: paths into the page's __NEXT_DATA__;   *)
(* a path that leads nowhere, or that a site does not name, finds nothing   *)

JsonPage ==
    [data : {"none", "broken", "json"}, pix : Amount, card : Amount,
     available : {"true", "false", "other"}]

BoolAvailability(v) ==
    CASE v = "true" -> "in_stock"
      [] v = "false" -> "out_of_stock"
      [] OTHER -> "unknown"

LocatedPrice(p) == p.data = "json" /\ (ToCents(p.pix) \/ ToCents(p.card))

JsonExtract(p) == Extract(LocatedPrice(p), BoolAvailability(p.available))

-----------------------------------------------------------------------------
(* Pichau: numbers in a window after an anchor, the status in a wider one   *)

PichauPage ==
    [anchor : BOOLEAN, pix : Amount, card : Amount,
     status : Availability]

PichauExtract(p) ==
    Extract(p.anchor /\ (ToCents(p.pix) \/ ToCents(p.card)),
            IF p.anchor THEN p.status ELSE "unknown")

-----------------------------------------------------------------------------
(* Terabyte: ids that occur several times, the first good amount counts;    *)
(* near is the text around the first, elsewhere that of related products    *)

TerabytePage ==
    [vista : SUBSET Amount, parc : SUBSET Amount, near : Marks, elsewhere : Marks]

FirstValidIdPrice(amounts) == \E a \in amounts : ToCents(a)

TerabyteRegion(p) ==
    IF p.vista \cup p.parc = {} THEN p.near \cup p.elsewhere ELSE p.near

TerabyteExtract(p) ==
    Extract(FirstValidIdPrice(p.vista) \/ FirstValidIdPrice(p.parc),
            MarkedAvailability(TerabyteRegion(p)))

-----------------------------------------------------------------------------
(* MercadoLivre: Product nodes in JSON-LD, selected by the canonical id of  *)
(* the page, or, where there is no such node, the older <meta> price        *)

Node ==
    [sku : {"none", "own", "foreign"}, price : {"rejected", "good"},
     brl : BOOLEAN, stock : Availability]

MercadoLivrePage ==
    [nodes : UNION {[1 .. n -> Node] : n \in 0 .. 2}, canonical : BOOLEAN,
     meta : Amount, buybox : BOOLEAN, block : Marks]

\* The nodes that may speak for the listing: the only one unless its sku
\* contradicts the canonical id, otherwise those that carry that id.
Selected(p) ==
    {i \in DOMAIN p.nodes :
        IF Len(p.nodes) = 1 THEN ~(p.canonical /\ p.nodes[i].sku = "foreign")
        ELSE p.canonical /\ p.nodes[i].sku = "own"}

\* The stock element without a marker is a live buy box.
BuyboxAvailability(p) ==
    IF ~p.buybox THEN "unknown"
    ELSE IF "out" \in p.block THEN "out_of_stock" ELSE "in_stock"

\* A node is authoritative: when it has no usable price nothing else is read.
JsonLdExtract(p) ==
    IF Cardinality(Selected(p)) # 1 THEN Extract(FALSE, "unknown")
    ELSE LET node == p.nodes[CHOOSE i \in Selected(p) : TRUE]
         IN  Extract(ToCents(node.price) /\ node.brl, node.stock)

MercadoLivreExtract(p) ==
    IF p.nodes # <<>> THEN JsonLdExtract(p)
    ELSE Extract(ToCents(p.meta), BuyboxAvailability(p))

-----------------------------------------------------------------------------
(* compute_verdict                                                          *)

\* Only an explicit "out of stock" is an unavailability. No price is a
\* ParseError, which comes before the availability.
ComputeVerdict(e) ==
    IF ~e.priced THEN "indeterminate"
    ELSE IF e.availability = "out_of_stock" THEN "unavailable" ELSE "ok"

PagesOf ==
    [amazon |-> AmazonPage, magalu |-> JsonPage, statejson |-> JsonPage,
     pichau |-> PichauPage, terabyte |-> TerabytePage, mercadolivre |-> MercadoLivrePage]

ExtractOf(kind, p) ==
    CASE kind = "amazon" -> AmazonExtract(p)
      [] kind \in {"magalu", "statejson"} -> JsonExtract(p)
      [] kind = "pichau" -> PichauExtract(p)
      [] kind = "terabyte" -> TerabyteExtract(p)
      [] kind = "mercadolivre" -> MercadoLivreExtract(p)

-----------------------------------------------------------------------------
(* What a page says about the listing, whatever reads it                    *)

\* The nodes of a MercadoLivre page that do not belong to another listing.
OwnNodes(p) ==
    {p.nodes[i] : i \in {j \in DOMAIN p.nodes : ~(p.canonical /\ p.nodes[j].sku = "foreign")}}

Prices(kind, p) ==
    CASE kind = "amazon" -> {p.split, p.full, p.card, p.member}
      [] kind \in {"magalu", "statejson", "pichau"} -> {p.pix, p.card}
      [] kind = "terabyte" -> p.vista \cup p.parc
      [] kind = "mercadolivre" ->
           IF p.nodes = <<>> THEN {p.meta} ELSE {n.price : n \in OwnNodes(p)}

SaysOut(kind, p) ==
    CASE kind = "amazon" -> "out" \in p.block
      [] kind \in {"magalu", "statejson"} -> p.available = "false"
      [] kind = "pichau" -> p.status = "out_of_stock"
      [] kind = "terabyte" -> "out" \in p.near
      [] kind = "mercadolivre" ->
           IF p.nodes = <<>> THEN p.buybox /\ "out" \in p.block
           ELSE \E n \in OwnNodes(p) : n.stock = "out_of_stock"

SaysNotOut(kind, p) ==
    IF kind = "mercadolivre" /\ p.nodes # <<>>
    THEN \E n \in OwnNodes(p) : n.stock # "out_of_stock"
    ELSE ~SaysOut(kind, p)

\* The definitive verdicts that a page supports.
Grounds(kind, p) ==
    IF "good" \notin Prices(kind, p) THEN {}
    ELSE {v \in {"ok", "unavailable"} :
            IF v = "unavailable" THEN SaysOut(kind, p) ELSE SaysNotOut(kind, p)}

\* What reading a page of a kind may come to, with what the page supports.
Readings ==
    [kind \in Kind |->
        {[verdict |-> ComputeVerdict(ExtractOf(kind, p)), grounds |-> Grounds(kind, p)] :
            p \in PagesOf[kind]}]
=============================================================================
