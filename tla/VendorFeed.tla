----------------------------- MODULE VendorFeed -----------------------------
(***************************************************************************)
(* What the SourceArena client makes of an HTTP answer: doGet and          *)
(* checkAPIEnvelope (internal/sourcearena/client.go) and the decoders of   *)
(* internal/sourcearena/models.go, one attempt after the other.            *)
(*                                                                         *)
(* A body is reduced to its shape. An element of a list is a JSON object   *)
(* that may name itself by a member "name", "symbol" or "ticker" (which    *)
(* stands for namad, symbol_name and ticker; 0 for no such member, Blank   *)
(* for one without text) and has one field: a JSON number, a numeric       *)
(* string, a string that is no number, or missing. A token is configured;  *)
(* status 500 stands for no answer at all, too.                            *)
(***************************************************************************)
EXTENDS Integers, Sequences, FiniteSets

CONSTANTS Names,      \* the names of elements, numbered in sorting order
          MaxList     \* bound of the length of a list

ASSUME NamesAssumption == Names \subseteq Nat \ {0}

Typed == {"options", "symbols", "candles"}
ObjectLists == {"closed_symbols", "inspect"}
Endpoints == Typed \cup ObjectLists \cup {"symbol", "indicators"}

Blank == -1
Element == {x \in [name : Names \cup {0, Blank}, symbol : Names \cup {0}, ticker : Names \cup {0},
                   field : {"number", "numeric", "word", "none"}] : x.symbol = 0 \/ x.ticker = 0}
Lists(n) == UNION {[1 .. k -> Element] : k \in 0 .. n}

\* A body is JSON or "broken". JSON is one of the shapes, possibly under a key:
\* "data" stands for data, results and items, which every decoder tries alike.
\* A "named" object has an object under every key, a "bare" one has none of
\* what the decoders look for, "text" is a string under a key.
Keys == {"", "data", "list", "candles"}
Shape(under, shape, lists) == [under : {under}, shape : {shape}, list : lists]
Bodies(n) == UNION
    {UNION {Shape(k, "list", Lists(n)) \cup Shape(k, "null", {<<>>}) : k \in Keys},
     UNION {Shape(k, "item", Lists(1) \ {<<>>}) \cup Shape(k, "named", Lists(n) \ {<<>>})
            \cup Shape(k, "bare", {<<>>}) : k \in {"", "data", "list"}},
     Shape("data", "text", {<<>>}), Shape("", "broken", {<<>>})}

\* The other members of an object: success, Error, and whether success, message
\* or error_code has another JSON type than the struct of the envelope.
Flags == [status : {200, 500}, success : {"", "true", "false"}, mistyped : BOOLEAN, Error : BOOLEAN]
NoFlags == [status |-> 200, success |-> "", mistyped |-> FALSE, Error |-> FALSE]

NoMembers(r) == r.success = "" /\ ~ r.mistyped /\ ~ r.Error
IsObject(r) == r.under # "" \/ r.shape \in {"item", "named", "bare"}
WithFlags(b, f) == [under |-> b.under, shape |-> b.shape, list |-> b.list,
                    status |-> f.status, success |-> f.success, mistyped |-> f.mistyped,
                    Error |-> f.Error]
Replies == {WithFlags(b, NoFlags) : b \in Bodies(MaxList)}
           \cup {r \in {WithFlags(b, f) : b \in Bodies(1), f \in Flags} :
                    IsObject(r) \/ NoMembers(r)}

VARIABLES asked,      \* the endpoint of the request, or ""
          reply,      \* the answer of the vendor, or <<>>
          decoded     \* what the caller gets, or <<>>

feedVars == <<asked, reply, decoded>>

FeedInit == asked = "" /\ reply = <<>> /\ decoded = <<>>

-----------------------------------------------------------------------------
Accept(items) == [error |-> FALSE, items |-> items]
Refuse == [error |-> TRUE, items |-> <<>>]

\* stringField: the first of three members that has a text, or 0.
Text(member) == IF member = Blank THEN 0 ELSE member
stringField(a, b, c) == IF Text(a) # 0 THEN a ELSE IF Text(b) # 0 THEN b ELSE Text(c)

\* What an element is called: the structs know "name" only, the decoders of
\* objects take the first member with a text, each in an order of its own.
NameOf(e, x) == CASE e = "closed_symbols" -> stringField(x.name, x.symbol, x.ticker)
                  [] e = "inspect"        -> stringField(x.symbol, x.name, x.ticker)
                  [] OTHER                -> Text(x.name)
NamesOf(e, list) == [i \in DOMAIN list |-> NameOf(e, list[i])]

\* The k-th of a set of positions, and the names at such positions in order.
Place(I, k) == CHOOSE i \in I : Cardinality({j \in I : j < i}) = k - 1
NamesAt(names, I) == [k \in 1 .. Cardinality(I) |-> names[Place(I, k)]]

Named(e, list) == LET names == NamesOf(e, list)
                  IN  NamesAt(names, {i \in DOMAIN list : names[i] # 0})

\* encoding/json takes a missing number for 0, and a string for no number.
Plain(list) == \A i \in DOMAIN list : list[i].field \in {"number", "none"}

\* flexFloat reads numeric strings too.
Flexible(list) == \A i \in DOMAIN list : list[i].field # "word"

\* json.Unmarshal into a slice: null is an empty one.
IsList(r, Readable) == r.shape = "null" \/ (r.shape = "list" /\ Readable)

\* mutant: success is not looked at.
EnvelopeOfStatus(r) == r.status < 400

\* doGet and checkAPIEnvelope: an envelope that does not unmarshal passes,
\* whatever its success is.
Envelope(r) == r.status < 400 /\ ~ (IsObject(r) /\ r.success = "false" /\ ~ r.mistyped)

decodeOptions(r) ==
    IF r.under \in {"", "data"} /\ IsList(r, Flexible(r.list))
    THEN {Accept(Named("options", r.list))} ELSE {Refuse}

\* An object with a name is a list of one; under a key only plain numbers.
decodeSymbols(r) ==
    IF \/ r.under = "" /\ IsList(r, Flexible(r.list))
       \/ r.under = "" /\ r.shape = "item" /\ Flexible(r.list) /\ Named("symbols", r.list) # <<>>
       \/ r.under = "data" /\ IsList(r, Plain(r.list))
    THEN {Accept(Named("symbols", r.list))} ELSE {Refuse}

\* FetchSymbol: the first of them.
First(d) == IF d.error \/ d.items = <<>> THEN Refuse ELSE Accept(<<d.items[1]>>)
decodeSymbol(r) == {First(d) : d \in decodeSymbols(r)}

decodeCandles(r) ==
    IF r.under \in {"", "data", "candles"} /\ IsList(r, Plain(r.list))
    THEN {Accept(NamesOf("candles", r.list))} ELSE {Refuse}

\* mutant: the key replaces a name.
KeyReplaces(e, key) == [e EXCEPT !.name = key]

\* The key of an object becomes its name when it has no member "name", even if
\* it names itself by another.
KeyedName(e, key) == IF e.name = 0 THEN [e EXCEPT !.name = key] ELSE e

\* The values of a map in any order; keys are distinct names.
Orders(S) == {f \in [1 .. Cardinality(S) -> S] : \A i, j \in DOMAIN f : f[i] = f[j] => i = j}
flattenObjectValues(list) ==
    {[i \in DOMAIN list |-> KeyedName(list[order[i]], order[i])] : order \in Orders(DOMAIN list)}

Nameless == [name |-> 0, symbol |-> 0, ticker |-> 0, field |-> "none"]

\* The lists of objects a body can be read as. An object that is none of the
\* known shapes is a list of itself.
decodeObjectList(r) ==
    IF r.under \in {"", "data", "list"} /\ r.shape \in {"null", "list"} THEN {r.list}
    ELSE IF r.shape = "named" /\ (r.under # "" \/ NoMembers(r)) THEN flattenObjectValues(r.list)
    ELSE IF r.shape = "item" THEN {r.list}
    ELSE {<<Nameless>>}

ObjectError(r) == r.shape = "broken" \/ (IsObject(r) /\ r.Error)

\* A halt needs a name, a message its symbol and a text.
Sortings(names) ==
    {[k \in DOMAIN names |-> names[order[k]]] : order \in
        {f \in Orders(DOMAIN names) : \A i, j \in DOMAIN names : i < j => names[f[i]] <= names[f[j]]}}
decodeClosedSymbols(r) ==
    IF ObjectError(r) THEN {Refuse}
    ELSE {Accept(names) : names \in UNION {Sortings(Named("closed_symbols", l)) : l \in decodeObjectList(r)}}

Worded(list) == LET names == NamesOf("inspect", list)
                IN  NamesAt(names, {i \in DOMAIN list : names[i] # 0 /\ list[i].field # "none"})
decodeSupervisorMessages(r) ==
    IF ObjectError(r) THEN {Refuse}
    ELSE {Accept(Worded(l)) : l \in decodeObjectList(r)}

\* Every object fits the struct, whatever its members are called.
decodeTechnicalIndicators(r) ==
    IF r.under = "" /\ r.shape = "item" THEN IF Plain(r.list) THEN {Accept(<<1>>)} ELSE {Refuse}
    ELSE IF r.shape = "null" \/ IsObject(r) THEN {Accept(<<>>)} ELSE {Refuse}

Decode(e, r) ==
    CASE e = "options"        -> decodeOptions(r)
      [] e = "symbols"        -> decodeSymbols(r)
      [] e = "symbol"         -> decodeSymbol(r)
      [] e = "candles"        -> decodeCandles(r)
      [] e = "closed_symbols" -> decodeClosedSymbols(r)
      [] e = "inspect"        -> decodeSupervisorMessages(r)
      [] e = "indicators"     -> decodeTechnicalIndicators(r)

-----------------------------------------------------------------------------
Fetch(e) == asked = "" /\ asked' = e /\ UNCHANGED <<reply, decoded>>

Respond == /\ asked # "" /\ reply = <<>>
           /\ reply' \in Replies
           /\ UNCHANGED <<asked, decoded>>

Return == /\ reply # <<>> /\ decoded = <<>>
          /\ decoded' \in (IF Envelope(reply) THEN Decode(asked, reply) ELSE {Refuse})
          /\ UNCHANGED <<asked, reply>>

Forget == decoded # <<>> /\ asked' = "" /\ reply' = <<>> /\ decoded' = <<>>

FeedNext == (\E e \in Endpoints : Fetch(e)) \/ Respond \/ Return \/ Forget

FeedSpec == FeedInit /\ [][FeedNext]_feedVars

-----------------------------------------------------------------------------
Returned(endpoints) == decoded # <<>> /\ asked \in endpoints

\* The vendor says no by a status, by success: false or by an Error member
\* and nothing else.
Refused(r) == \/ r.status >= 400
              \/ IsObject(r) /\ r.success = "false"
              \/ r.Error /\ r.shape = "bare" /\ r.under = ""

\* A success: false that nobody reads: the envelope does not unmarshal, and the
\* decoder, too, makes something of the answer: a list beside it, or, of objects,
\* none at all.
Unread(e, r) == /\ r.status < 400 /\ r.success = "false" /\ r.mistyped
                /\ e \in ObjectLists => ~ r.Error
                /\ r.shape = "bare" => e \in ObjectLists

\* A refusal never reaches a caller as data, except unread: an empty market
\* would be stored as if the vendor had said so. What is unread is never taken
\* for quotes, options or candles unless there is a list of them beside it.
RefusalIsAnError ==
    Returned(Endpoints \ {"indicators"}) /\ Refused(reply) /\ ~ Unread(asked, reply) => decoded.error

\* symbol_halts.go:158, "retries transient failures from the closed_symbols
\* endpoint, which has been observed to intermittently return an error payload":
\* an error payload would have to be an error, also one with error_code: "401".
HaltsRefusalIsAnError ==
    Returned({"closed_symbols"}) /\ Refused(reply) => decoded.error

\* What each element the vendor sent is called: by itself, and one of a map
\* that is not called anything by its key.
Sent(e, r) == [i \in DOMAIN r.list |->
                 IF r.shape = "named" /\ r.list[i].name = 0 /\ NameOf(e, r.list[i]) = 0
                 THEN i ELSE NameOf(e, r.list[i])]

\* What each list is of: candles need nothing, messages a symbol and a text.
Wanted(e, r) == {i \in DOMAIN r.list : \/ e = "candles"
                                       \/ /\ Sent(e, r)[i] # 0
                                          /\ e = "inspect" => r.list[i].field # "none"}

\* Elements beside other members, and those under a key of another endpoint,
\* are not recognised by decodeObjectList.
Recognised(r) == /\ r.under # "candles"
                 /\ r.shape = "named" /\ r.under = "" => NoMembers(r)

\* An object of a map names itself, but by a member that comes after "name":
\* flattenObjectValues has given it its key under that name.
Renamed(e, r) == /\ r.shape = "named"
                 /\ \E i \in DOMAIN r.list : /\ r.list[i].name = 0 /\ NameOf(e, r.list[i]) # 0
                                             /\ e = "inspect" => r.list[i].symbol = 0

\* A list is decoded whole or refused: whatever the wrapping and the number
\* format, of what was sent with a name nothing is missing or added, and, unless
\* objects of a map go by another member than "name", nothing is renamed.
NothingIsDropped ==
    Returned(Typed \cup ObjectLists) /\ ~ decoded.error
        /\ (asked \in ObjectLists => Recognised(reply)) =>
    LET wanted == Wanted(asked, reply)
    IN  /\ Len(decoded.items) = Cardinality(wanted)
        /\ Renamed(asked, reply) \/ \A n \in Names \cup DOMAIN reply.list :
              Cardinality({i \in DOMAIN decoded.items : decoded.items[i] = n})
                = Cardinality({i \in wanted : Sent(asked, reply)[i] = n})

\* A map of halts that name themselves by "symbol" or "ticker" keeps their names;
\* models.go:207 lists these members as names in their own right.
MapsKeepNames ==
    Returned({"closed_symbols"}) /\ ~ decoded.error /\ Recognised(reply) =>
        \A i \in Wanted(asked, reply) : \E k \in DOMAIN decoded.items :
            decoded.items[k] = Sent(asked, reply)[i]

\* symbol_halts.go:158, as above: an answer of closed_symbols without a list
\* would have to be an error.
HaltsAnswerIsAList ==
    Returned({"closed_symbols"}) /\ reply.shape = "bare" /\ reply.under = "" => decoded.error

\* docs/adr/0005: indicator errors are logged as errors.
IndicatorRefusalIsAnError ==
    Returned({"indicators"}) /\ Refused(reply) => decoded.error
=============================================================================
