------------------------ MODULE BookingJourneyProofs ------------------------
(***************************************************************************)
(* Proofs about BookingJourney, for every set of parties and names and any *)
(* number of searches, bookings and requests: the passenger form is never  *)
(* refused for its number of passengers, saving it untouched stores the    *)
(* names it was rendered with, and, while the requests of a browser are    *)
(* served one at a time, what was selected can be opened.                  *)
(*                                                                         *)
(* The invariant follows the party of a search to the booking, the form,   *)
(* the history and the request that stores it, and the names from the rows *)
(* to the form and the request.  The tables only grow and keep their       *)
(* parties (Extended), so what was good stays good.                        *)
(***************************************************************************)
EXTENDS BookingJourney, FiniteSetTheorems, SequenceTheorems, TLAPS

Party == [adult : Nat \ {0}, child : Nat, infant : Nat]

\* The draft has the passengers of the party, in the order of the form.
Fits(draft, party) ==
    /\ Len(draft) = Size(party)
    /\ \A i \in 1 .. Len(draft) : draft[i].type = TypeAt(party, i)

\* What nobody has typed into shows the names it was rendered with.
NamesFollow(draft, edited, base) ==
    ~edited => IF base = <<>> THEN \A i \in 1 .. Len(draft) : draft[i].name = ""
               ELSE NamesIn(draft) = base

PartyIn(b, ss, bs) == ss[bs[b].search].party

BookingKinds == {"edit", "store", "checkout", "lookup", "show"}

\* What a request refers to is stored; a draft on its way fits its booking.
GoodRequest(q, ss, bs) ==
    /\ q.kind \in BookingKinds => q.id \in 1 .. Len(bs)
    /\ q.kind = "select" => q.id \in 1 .. Len(ss)
    /\ q.kind = "store" => /\ Fits(q.draft, PartyIn(q.id, ss, bs))
                           /\ NamesFollow(q.draft, q.edited, q.base)

GoodPage(p, ss, bs) ==
    /\ p.at = "results" => p.id \in 1 .. Len(ss)
    /\ p.at = "passengers" => /\ p.id \in 1 .. Len(bs)
                              /\ Fits(p.draft, PartyIn(p.id, ss, bs))
                              /\ NamesFollow(p.draft, p.edited, p.base)
    /\ p.error # "passengers"

TablesOK(ss, bs) ==
    /\ ss \in Seq(SearchRows) /\ Len(ss) <= MaxSearches
    /\ bs \in Seq(BookingRows) /\ Len(bs) <= MaxBookings
    /\ \A b \in 1 .. Len(bs) : /\ bs[b].search \in 1 .. Len(ss)
                               /\ bs[b].passengers # <<>> =>
                                    Len(bs[b].passengers) = Size(PartyIn(b, ss, bs))

GoodPages(ps, ss, bs) == ps \subseteq Pages /\ \A p \in ps : GoodPage(p, ss, bs)

JourneyInv ==
    /\ form \in Parties
    /\ page \in Pages /\ GoodPage(page, searches, bookings)
    /\ waiting \in Requests \union {"none"}
    /\ GoodPages(past, searches, bookings)
    /\ requests \in [Requests -> RequestStates]
    /\ \A r \in Requests : GoodRequest(requests[r], searches, bookings)
    /\ TablesOK(searches, bookings)
    /\ session \in Sessions
    /\ mine \subseteq 1 .. Len(bookings)
    /\ \A r \in Requests : waiting = r => requests[r].kind # "none"

\* Rows are added and keep their party and their search.
Extended ==
    /\ Len(searches) <= Len(searches') /\ Len(bookings) <= Len(bookings')
    /\ \A s \in 1 .. Len(searches) : searches'[s].party = searches[s].party
    /\ \A b \in 1 .. Len(bookings) : bookings'[b].search = bookings[b].search

-----------------------------------------------------------------------------
(* Parties and drafts. *)

LEMMA Bounds == MaxSearches \in Nat /\ MaxBookings \in Nat
BY JourneyAssumption

LEMMA PartyTypes ==
    /\ DefaultParty \in Parties
    /\ \A party \in Parties : /\ party \in Party /\ Size(party) \in Nat
                              /\ party.adult \in Nat /\ party.child \in Nat
                              /\ party.infant \in Nat
<1>1. ASSUME NEW party \in Parties
      PROVE  /\ party \in Party /\ Size(party) \in Nat
             /\ party.adult \in Nat /\ party.child \in Nat /\ party.infant \in Nat
  <2>1. party \in Party
    BY JourneyAssumption DEF Party
  <2>2. party.adult \in Nat /\ party.child \in Nat /\ party.infant \in Nat
    BY <2>1 DEF Party
  <2> QED BY <2>1, <2>2 DEF Size
<1> QED BY <1>1, JourneyAssumption

\* The draft the form builds fits the party, whatever was stored before.
LEMMA BuiltFits ==
    ASSUME NEW party \in Parties, NEW existing \in Seq(Passenger)
    PROVE  /\ BuildPassengers(party, existing) \in Seq(Passenger)
           /\ Fits(BuildPassengers(party, existing), party)
<1>1. Size(party) \in Nat
  BY PartyTypes
<1>2. \A i \in 1 .. Size(party) : BuildPassengers(party, existing)[i] \in Passenger
  <2> SUFFICES ASSUME NEW i \in 1 .. Size(party)
               PROVE  BuildPassengers(party, existing)[i] \in Passenger
    OBVIOUS
  <2>1. TypeAt(party, i) \in Types
    BY DEF TypeAt, Types
  <2>2. (IF i \in DOMAIN existing THEN existing[i].name ELSE "") \in Names \union {""}
    <3>1. ASSUME i \in DOMAIN existing PROVE existing[i] \in Passenger
      BY <3>1, ElementOfSeq
    <3> QED BY <3>1 DEF Passenger
  <2> QED BY <2>1, <2>2 DEF BuildPassengers, Passenger
<1>3. BuildPassengers(party, existing) \in [1 .. Size(party) -> Passenger]
  BY <1>2 DEF BuildPassengers
<1>4. BuildPassengers(party, existing) \in Seq(Passenger)
      /\ Len(BuildPassengers(party, existing)) = Size(party)
  BY <1>1, <1>3
<1> QED BY <1>4 DEF Fits, BuildPassengers

\* What fits has the counts that StorePassengerDetailsRequest asks for.
LEMMA FitsCounts ==
    ASSUME NEW b, PartyOf(b) \in Parties, NEW draft \in Seq(Passenger),
           Fits(draft, PartyOf(b))
    PROVE  CountsMatch(b, draft)
<1> DEFINE party == PartyOf(b)
           Of(type) == {i \in DOMAIN draft : draft[i].type = type}
<1>1. /\ party.adult \in Nat /\ party.child \in Nat /\ party.infant \in Nat
      /\ Len(draft) = party.adult + party.child + party.infant
      /\ DOMAIN draft = 1 .. Len(draft)
  BY PartyTypes DEF Fits, Size
<1>2. \A i \in DOMAIN draft : draft[i].type = TypeAt(party, i)
  BY <1>1 DEF Fits
<1>3. \A n, m \in Nat : Cardinality(n + 1 .. n + m) = m
  <2> SUFFICES ASSUME NEW n \in Nat, NEW m \in Nat PROVE Cardinality(n + 1 .. n + m) = m
    OBVIOUS
  <2>1. Cardinality(n + 1 .. n + m)
          = IF n + 1 > n + m THEN 0 ELSE (n + m) - (n + 1) + 1
    BY FS_Interval
  <2> QED BY <2>1
<1> HIDE DEF party
<1>4. \A i \in 1 .. party.adult + party.child + party.infant :
        draft[i].type = IF i <= party.adult THEN "adult"
                        ELSE IF i <= party.adult + party.child THEN "child"
                        ELSE "infant_without_seat"
  BY <1>1, <1>2 DEF TypeAt
<1>5. DOMAIN draft = 1 .. party.adult + party.child + party.infant
  BY <1>1
<1>6. Of("adult") = 0 + 1 .. 0 + party.adult
  BY <1>1, <1>4, <1>5
<1>7. Of("child") = party.adult + 1 .. party.adult + party.child
  BY <1>1, <1>4, <1>5
<1>8. Of("infant_without_seat") =
        (party.adult + party.child) + 1 .. (party.adult + party.child) + party.infant
  BY <1>1, <1>4, <1>5
<1> HIDE DEF Of
<1>9. /\ Cardinality(Of("adult")) = party.adult
      /\ Cardinality(Of("child")) = party.child
      /\ Cardinality(Of("infant_without_seat")) = party.infant
  <2>1. party.adult + party.child \in Nat /\ 0 \in Nat
    BY <1>1
  <2>2. Cardinality(Of("adult")) = party.adult
    BY <1>1, <1>3, <1>6, <2>1
  <2>3. Cardinality(Of("child")) = party.child
    BY <1>1, <1>3, <1>7
  <2>4. Cardinality(Of("infant_without_seat")) = party.infant
    BY <1>1, <1>3, <1>8, <2>1
  <2> QED BY <2>2, <2>3, <2>4
<1> QED BY <1>1, <1>9 DEF CountsMatch, RequiredParty, party, Of, Size

-----------------------------------------------------------------------------
(* What stays good. *)

LEMMA RowTypes ==
    ASSUME NEW ss, NEW bs, TablesOK(ss, bs)
    PROVE  /\ Len(ss) \in Nat /\ Len(bs) \in Nat
           /\ \A s \in 1 .. Len(ss) : ss[s] \in SearchRows /\ ss[s].party \in Parties
           /\ \A b \in 1 .. Len(bs) : /\ bs[b] \in BookingRows
                                      /\ bs[b].passengers \in Seq(Passenger)
                                      /\ PartyIn(b, ss, bs) \in Parties
<1>1. /\ Len(ss) \in Nat /\ Len(bs) \in Nat
      /\ \A s \in 1 .. Len(ss) : ss[s] \in SearchRows
      /\ \A b \in 1 .. Len(bs) : bs[b] \in BookingRows
  BY ElementOfSeq, LenProperties DEF TablesOK
<1>2. \A s \in 1 .. Len(ss) : ss[s].party \in Parties
  BY <1>1 DEF SearchRows
<1>3. \A b \in 1 .. Len(bs) : bs[b].passengers \in Seq(Passenger)
  BY <1>1 DEF BookingRows
<1> QED BY <1>1, <1>2, <1>3 DEF TablesOK, PartyIn

LEMMA StaysGood ==
    ASSUME TablesOK(searches, bookings), TablesOK(searches', bookings'), Extended
    PROVE  /\ \A q : GoodRequest(q, searches, bookings) => GoodRequest(q, searches', bookings')
           /\ \A p : GoodPage(p, searches, bookings) => GoodPage(p, searches', bookings')
           /\ \A ps : GoodPages(ps, searches, bookings) => GoodPages(ps, searches', bookings')
<1>1. /\ \A s : s \in 1 .. Len(searches) => s \in 1 .. Len(searches')
      /\ \A b : b \in 1 .. Len(bookings) => b \in 1 .. Len(bookings')
  BY RowTypes DEF Extended
<1>2. \A b \in 1 .. Len(bookings) :
        PartyIn(b, searches', bookings') = PartyIn(b, searches, bookings)
  BY DEF Extended, TablesOK, PartyIn
<1>3. /\ \A q : GoodRequest(q, searches, bookings) => GoodRequest(q, searches', bookings')
      /\ \A p : GoodPage(p, searches, bookings) => GoodPage(p, searches', bookings')
  BY <1>1, <1>2 DEF GoodRequest, GoodPage, BookingKinds
<1> QED BY <1>3 DEF GoodPages

LEMMA SameTables ==
    ASSUME JourneyInv, UNCHANGED stored
    PROVE  TablesOK(searches', bookings') /\ Extended
<1>1. Len(searches) \in Nat /\ Len(bookings) \in Nat
  BY RowTypes DEF JourneyInv
<1> QED BY <1>1 DEF JourneyInv, stored, Extended

\* Requests that have not been read by the server and refer to something stored.
LEMMA NoRequestIsGood ==
    ASSUME NEW ss, NEW bs
    PROVE  NoRequest \in RequestStates /\ GoodRequest(NoRequest, ss, bs) /\ Guest \in Sessions
<1>1. Guest \in Sessions
  BY DEF Guest, Sessions
<1>2. <<>> \in Seq(Passenger) /\ <<>> \in NameLists
  BY DEF NameLists
<1>3. NoRequest \in RequestStates
  BY <1>1, <1>2, PartyTypes DEF NoRequest, RequestStates
<1> QED BY <1>1, <1>3 DEF NoRequest, GoodRequest, BookingKinds

LEMMA VisitIsGood ==
    ASSUME NEW ss, NEW bs, NEW kind \in {"edit", "checkout", "show", "lookup"}, NEW b \in Nat,
           b \in 1 .. Len(bs)
    PROVE  LET q == [NoRequest EXCEPT !.kind = kind, !.id = b]
           IN  q \in RequestStates /\ GoodRequest(q, ss, bs) /\ q.kind # "none" /\ ~q.loaded
<1>1. NoRequest \in RequestStates
  BY NoRequestIsGood
<1> QED BY <1>1 DEF RequestStates, GoodRequest, BookingKinds, NoRequest

LEMMA ShownIsGood ==
    ASSUME NEW ss, NEW bs
    PROVE  /\ \A at \in {"search", "lookup", "elsewhere"} :
                Shown(at, 0) \in Pages /\ GoodPage(Shown(at, 0), ss, bs)
           /\ \A s \in Nat : s \in 1 .. Len(ss) =>
                Shown("results", s) \in Pages /\ GoodPage(Shown("results", s), ss, bs)
           /\ Refused \in Pages /\ GoodPage(Refused, ss, bs)
<1>1. <<>> \in Seq(Passenger) /\ <<>> \in NameLists
  BY DEF NameLists
<1>2. \A at \in {"search", "lookup", "elsewhere", "results"}, id \in Nat : Shown(at, id) \in Pages
  BY <1>1 DEF Shown, Pages
<1>3. Refused \in Pages
  BY <1>2 DEF Refused, Elsewhere, Pages
<1> QED BY <1>2, <1>3 DEF GoodPage, Shown, Refused, Elsewhere

LEMMA AgainIsGood ==
    ASSUME NEW error \in {"none", "search", "offer", "booking", "fields", "lookup"},
           NEW ss, NEW bs, page \in Pages, GoodPage(page, ss, bs)
    PROVE  Again(error) \in Pages /\ GoodPage(Again(error), ss, bs)
BY DEF Again, Pages, GoodPage

\* The passenger page as it is served, and the history with it.
LEMMA ServedFormIsGood ==
    ASSUME TablesOK(searches, bookings), NEW b \in Nat, b \in 1 .. Len(bookings)
    PROVE  ServedForm(b) \in Pages /\ GoodPage(ServedForm(b), searches, bookings)
<1> DEFINE rows == bookings[b].passengers
           party == PartyOf(b)
           built == BuildPassengers(party, rows)
           names == NamesIn(rows)
<1>1. /\ party \in Parties /\ PartyIn(b, searches, bookings) = party
      /\ rows \in Seq(Passenger) /\ (rows # <<>> => Len(rows) = Size(party))
  BY RowTypes DEF PartyOf, PartyIn, TablesOK
<1> HIDE DEF rows, party
<1>2. built \in Seq(Passenger) /\ Fits(built, party) /\ Len(built) = Size(party)
  BY <1>1, BuiltFits DEF Fits
<1>3. Size(party) \in Nat \ {0}
  BY <1>1, PartyTypes DEF Party, Size
<1>4. /\ rows \in [1 .. Len(rows) -> Passenger] /\ Len(rows) \in Nat
      /\ \A i \in 1 .. Len(rows) : rows[i] \in Passenger
  BY <1>1, LenProperties, ElementOfSeq
<1>5. names \in NameLists /\ (names = <<>> => rows = <<>>)
  <2>1. \A i \in 1 .. Len(rows) : rows[i].name \in Names \union {""}
    BY <1>4 DEF Passenger
  <2>2. names \in [1 .. Len(rows) -> Names \union {""}]
    BY <1>4, <2>1 DEF NamesIn
  <2> DEFINE n == Len(rows)
             S == Names \union {""}
  <2> HIDE DEF names, n, S
  <2>3. n \in Nat /\ names \in [1 .. n -> S]
    BY <1>4, <2>2 DEF n, S
  <2>4. names \in Seq(S) /\ Len(names) = n
    BY <2>3
  <2>5. names \in NameLists
    BY <2>4 DEF NameLists, S
  <2>6. names = <<>> => n = 0
    BY <2>4
  <2> QED BY <1>1, <2>5, <2>6, EmptySeq DEF n
<1>6. NamesFollow(built, FALSE, names)
  <2>1. CASE rows = <<>>
    <3>1. DOMAIN rows = {} /\ names = <<>>
      BY <2>1 DEF NamesIn
    <3>2. \A i \in 1 .. Size(party) : built[i].name = ""
      BY <3>1 DEF BuildPassengers
    <3> QED BY <1>2, <3>1, <3>2 DEF NamesFollow
  <2>2. CASE rows # <<>>
    <3>1. DOMAIN rows = 1 .. Size(party) /\ DOMAIN built = 1 .. Size(party)
      BY <1>1, <1>4, <2>2 DEF BuildPassengers
    <3>2. \A i \in 1 .. Size(party) : built[i].name = rows[i].name
      BY <3>1 DEF BuildPassengers
    <3>3. NamesIn(built) = names
      BY <3>1, <3>2 DEF NamesIn
    <3> QED BY <1>5, <2>2, <3>3 DEF NamesFollow
  <2> QED BY <2>1, <2>2
<1>7. ServedForm(b) = [at |-> "passengers", id |-> b, draft |-> built, edited |-> FALSE,
                       base |-> names, error |-> "none"]
  <2> DEFINE draft == BuildPassengers(PartyOf(b), bookings[b].passengers)
             base == NamesIn(bookings[b].passengers)
  <2>1. ServedForm(b) = [Shown("passengers", b) EXCEPT !.draft = draft, !.base = base]
    BY DEF ServedForm
  <2>2. built = draft /\ names = base
    BY DEF rows, party
  <2> HIDE DEF draft, base, built, names
  <2>3. ServedForm(b) = [at |-> "passengers", id |-> b, draft |-> draft, edited |-> FALSE,
                         base |-> base, error |-> "none"]
    BY <2>1 DEF Shown
  <2> QED BY <2>2, <2>3
<1> HIDE DEF built, names
<1>8. ServedForm(b) \in Pages
  BY <1>2, <1>5, <1>7 DEF Pages
<1>9. GoodPage(ServedForm(b), searches, bookings)
  <2> DEFINE p == ServedForm(b)
  <2>1. /\ p.at = "passengers" /\ p.id = b /\ p.draft = built /\ p.edited = FALSE
        /\ p.base = names /\ p.error = "none"
    BY <1>7
  <2> HIDE DEF p
  <2>2. GoodPage(p, searches, bookings)
    BY <1>1, <1>2, <1>6, <2>1 DEF GoodPage
  <2> QED BY <2>2 DEF p
<1> QED BY <1>8, <1>9

LEMMA HistoryIsGood ==
    ASSUME JourneyInv, NEW shown,
           shown.at = "passengers" => shown.id \in Nat /\ shown.id \in 1 .. Len(bookings)
    PROVE  /\ GoodPages(Kept, searches, bookings)
           /\ GoodPages(Remembered(shown), searches, bookings)
<1>1. GoodPages(past, searches, bookings) /\ TablesOK(searches, bookings)
  BY DEF JourneyInv
<1>2. GoodPages(Kept, searches, bookings)
  BY <1>1 DEF Kept, GoodPages
<1>3. CASE shown.at = "passengers"
  <2>1. ServedForm(shown.id) \in Pages /\ GoodPage(ServedForm(shown.id), searches, bookings)
    BY <1>1, <1>3, ServedFormIsGood
  <2> QED BY <1>1, <1>2, <1>3, <2>1 DEF Remembered, GoodPages
<1>4. CASE shown.at # "passengers"
  BY <1>2, <1>4 DEF Remembered
<1> QED BY <1>2, <1>3, <1>4

LEMMA RequestTypes ==
    ASSUME JourneyInv, NEW r \in Requests
    PROVE  /\ requests[r].id \in Nat /\ requests[r].party \in Parties
           /\ requests[r].draft \in Seq(Passenger) /\ requests[r].edited \in BOOLEAN
           /\ requests[r].session \in Sessions
           /\ GoodRequest(requests[r], searches, bookings)
BY DEF JourneyInv, RequestStates

LEMMA SessionTypes ==
    ASSUME NEW s \in Sessions
    PROVE  /\ s.user \in BOOLEAN
           /\ \A b \in 1 .. MaxBookings : [s EXCEPT !.access = @ \union {b}] \in Sessions
           /\ [s EXCEPT !.user = TRUE] \in Sessions
BY DEF Sessions

-----------------------------------------------------------------------------
(* What the shared parts of the actions keep. *)

\* The part of the invariant that no answer depends on, in the next state.
KeptTables ==
    /\ TablesOK(searches', bookings') /\ Extended
    /\ mine' \subseteq 1 .. Len(bookings')

LEMMA AnswerKeeps ==
    ASSUME JourneyInv, KeptTables, NEW r \in Requests, NEW s \in Sessions,
           NEW shown \in Pages, GoodPage(shown, searches', bookings'), bookings' = bookings,
           Answer(r, s, shown)
    PROVE  JourneyInv'
<1>1. /\ \A q : GoodRequest(q, searches, bookings) => GoodRequest(q, searches', bookings')
      /\ \A p : GoodPage(p, searches, bookings) => GoodPage(p, searches', bookings')
      /\ \A ps : GoodPages(ps, searches, bookings) => GoodPages(ps, searches', bookings')
  BY StaysGood DEF JourneyInv, KeptTables
<1>2. NoRequest \in RequestStates /\ GoodRequest(NoRequest, searches', bookings')
  BY NoRequestIsGood
<1>3. requests' = [requests EXCEPT ![r] = NoRequest] /\ requests \in [Requests -> RequestStates]
  BY DEF Answer, JourneyInv
<1>4. /\ requests' \in [Requests -> RequestStates]
      /\ \A q \in Requests : GoodRequest(requests'[q], searches', bookings')
      /\ \A q \in Requests : q # r => requests'[q] = requests[q]
  BY <1>1, <1>2, <1>3 DEF JourneyInv
<1>5. page' \in Pages /\ GoodPage(page', searches', bookings') /\ form' \in Parties
      /\ session' \in Sessions
  BY <1>1, PartyTypes DEF Answer, JourneyInv, FormOn
<1>6. /\ waiting' \in Requests \union {"none"}
      /\ \A q \in Requests : waiting' = q => requests'[q].kind # "none"
  BY <1>4, JourneyAssumption DEF Answer, JourneyInv
<1>7. GoodPages(past', searches', bookings')
  <2>1. shown.at = "passengers" => shown.id \in Nat /\ shown.id \in 1 .. Len(bookings)
    BY DEF Pages, GoodPage
  <2>2. GoodPages(Remembered(shown), searches, bookings) /\ GoodPages(past, searches, bookings)
    BY <2>1, HistoryIsGood DEF JourneyInv
  <2> QED BY <1>1, <2>2 DEF Answer
<1> QED BY <1>4, <1>5, <1>6, <1>7 DEF JourneyInv, KeptTables

LEMMA RedirectKeeps ==
    ASSUME JourneyInv, KeptTables, NEW r \in Requests, NEW s \in Sessions,
           NEW kind \in {"edit", "checkout", "show"}, NEW b \in Nat, b \in 1 .. Len(bookings'),
           Redirect(r, s, kind, b)
    PROVE  JourneyInv'
<1> DEFINE next == [NoRequest EXCEPT !.kind = kind, !.id = b]
<1>1. /\ \A q : GoodRequest(q, searches, bookings) => GoodRequest(q, searches', bookings')
      /\ \A p : GoodPage(p, searches, bookings) => GoodPage(p, searches', bookings')
      /\ \A ps : GoodPages(ps, searches, bookings) => GoodPages(ps, searches', bookings')
  BY StaysGood DEF JourneyInv, KeptTables
<1>2. NoRequest \in RequestStates /\ GoodRequest(NoRequest, searches', bookings')
  BY NoRequestIsGood
<1>3. next \in RequestStates /\ GoodRequest(next, searches', bookings') /\ next.kind # "none"
  BY VisitIsGood
<1> HIDE DEF next
<1>4. /\ requests' = [requests EXCEPT ![r] = IF waiting = r THEN next ELSE NoRequest]
      /\ requests \in [Requests -> RequestStates]
  BY DEF Redirect, JourneyInv, next
<1>5. /\ requests' \in [Requests -> RequestStates]
      /\ \A q \in Requests : GoodRequest(requests'[q], searches', bookings')
      /\ \A q \in Requests : q # r => requests'[q] = requests[q]
      /\ waiting = r => requests'[r] = next
  BY <1>1, <1>2, <1>3, <1>4 DEF JourneyInv
<1>6. page' = page /\ form' = form /\ waiting' = waiting /\ past' = past /\ session' \in Sessions
  BY DEF Redirect, browser
<1>7. \A q \in Requests : waiting' = q => requests'[q].kind # "none"
  BY <1>3, <1>5, <1>6 DEF JourneyInv
<1> QED BY <1>1, <1>5, <1>6, <1>7 DEF JourneyInv, KeptTables

LEMMA VisitKeeps ==
    ASSUME JourneyInv, NEW r \in Requests, NEW q \in RequestStates,
           GoodRequest(q, searches, bookings), q.kind # "none", Visit(r, q)
    PROVE  JourneyInv'
<1>1. /\ requests' = [requests EXCEPT ![r] = q] /\ waiting' = r
      /\ requests \in [Requests -> RequestStates]
      /\ past' = Kept
      /\ UNCHANGED <<form, page, searches, bookings, session, mine>>
  BY DEF Visit, JourneyInv, stored
<1>2. /\ requests' \in [Requests -> RequestStates]
      /\ \A p \in Requests : GoodRequest(requests'[p], searches, bookings)
      /\ requests'[r] = q
  BY <1>1 DEF JourneyInv
<1>3. GoodPages(past', searches, bookings)
  <2>1. GoodPages(past, searches, bookings)
    BY DEF JourneyInv
  <2> QED BY <1>1, <2>1 DEF Kept, GoodPages
<1> QED BY <1>1, <1>2, <1>3 DEF JourneyInv

\* An action that leaves the tables and the history alone.
LEMMA TablesKept ==
    ASSUME JourneyInv, UNCHANGED <<stored, mine>>
    PROVE  KeptTables
BY SameTables DEF JourneyInv, KeptTables, stored

-----------------------------------------------------------------------------
(* The customer. *)

LEMMA InitGood == Init => JourneyInv
<1> SUFFICES ASSUME Init PROVE JourneyInv
  OBVIOUS
<1>1. form \in Parties /\ session \in Sessions
  BY PartyTypes, NoRequestIsGood DEF Init
<1>2. page \in Pages /\ GoodPage(page, searches, bookings)
  BY ShownIsGood DEF Init
<1>3. /\ requests \in [Requests -> RequestStates]
      /\ \A r \in Requests : GoodRequest(requests[r], searches, bookings)
  BY NoRequestIsGood DEF Init
<1>4. TablesOK(searches, bookings)
  <2>1. \A S : <<>> \in Seq(S) /\ Len(<<>>) = 0
    BY EmptySeq
  <2>2. searches = <<>> /\ bookings = <<>>
    BY DEF Init
  <2>3. searches \in Seq(SearchRows) /\ bookings \in Seq(BookingRows)
    BY <2>1, <2>2
  <2>4. Len(searches) = 0 /\ Len(bookings) = 0
    BY <2>1, <2>2
  <2>5. 1 .. Len(bookings) = {}
    BY <2>4
  <2>6. Len(searches) <= MaxSearches /\ Len(bookings) <= MaxBookings
    BY <2>4, Bounds
  <2> QED BY <2>3, <2>5, <2>6 DEF TablesOK
<1>5. waiting = "none" /\ mine = {} /\ GoodPages(past, searches, bookings)
  BY DEF Init, GoodPages
<1> QED BY <1>1, <1>2, <1>3, <1>4, <1>5, JourneyAssumption DEF JourneyInv

LEMMA EditSearchKeeps ==
    ASSUME JourneyInv, NEW party \in Parties, EditSearch(party)
    PROVE  JourneyInv'
BY DEF EditSearch, JourneyInv, stored

LEMMA OpenKeeps ==
    ASSUME JourneyInv, OpenPage
    PROVE  JourneyInv'
<1>1. PICK at \in {"search", "lookup", "elsewhere", "results"}, id \in Nat :
        /\ Open(at, id)
        /\ at = "results" => id \in 1 .. Len(searches)
        /\ at # "results" => id = 0
  BY RowTypes DEF OpenPage, JourneyInv
<1>2. Shown(at, id) \in Pages /\ GoodPage(Shown(at, id), searches, bookings)
  BY <1>1, ShownIsGood
<1>3. page' = Shown(at, id) /\ past' = Remembered(page') /\ page'.at # "passengers"
  BY <1>1 DEF Open, Shown
<1>4. GoodPages(past', searches, bookings)
  BY <1>3, HistoryIsGood
<1> QED BY <1>1, <1>2, <1>3, <1>4, PartyTypes DEF Open, JourneyInv, stored

LEMMA BackKeeps ==
    ASSUME JourneyInv, Back
    PROVE  JourneyInv'
<1>1. page' \in Pages /\ GoodPage(page', searches, bookings)
  BY DEF Back, JourneyInv, GoodPages
<1> QED BY <1>1, PartyTypes DEF Back, JourneyInv, stored

LEMMA EditPassengerKeeps ==
    ASSUME JourneyInv, NEW i \in DOMAIN page.draft, NEW name \in Names, EditPassenger(i, name)
    PROVE  JourneyInv'
<1> DEFINE old == page.draft
           row == [old[i] EXCEPT !.name = name]
           new == [old EXCEPT ![i] = row]
<1>1. old \in Seq(Passenger) /\ i \in 1 .. Len(old) /\ page.at = "passengers"
  BY DEF JourneyInv, Pages, EditPassenger
<1>2. old[i] \in Passenger
  BY <1>1, ElementOfSeq
<1>3. row \in Passenger /\ row.type = old[i].type
  BY <1>2 DEF Passenger
<1>4. new \in Seq(Passenger) /\ Len(new) = Len(old)
      /\ \A j \in 1 .. Len(old) : new[j] = IF j = i THEN row ELSE old[j]
  BY <1>1, <1>3, ExceptSeq
<1>5. page' = [page EXCEPT !.draft = new, !.edited = TRUE, !.base = <<>>]
  BY DEF EditPassenger
<1> HIDE DEF new, row, old
<1>6. page' \in Pages /\ page'.at = page.at /\ page'.id = page.id /\ page'.error = page.error
      /\ page'.draft = new /\ page'.edited
  <2>1. <<>> \in NameLists
    BY EmptySeq DEF NameLists
  <2>2. page \in Pages
    BY DEF JourneyInv
  <2> QED BY <1>4, <1>5, <2>1, <2>2 DEF Pages
<1>7. \A party : Fits(old, party) => Fits(new, party)
  BY <1>1, <1>3, <1>4 DEF Fits
<1>8. GoodPage(page', searches, bookings)
  BY <1>6, <1>7 DEF JourneyInv, GoodPage, NamesFollow, old
<1> QED BY <1>6, <1>8 DEF EditPassenger, JourneyInv, stored

LEMMA CustomerKeeps ==
    ASSUME JourneyInv, NEW r \in Requests, Customer(r)
    PROVE  JourneyInv'
<1>0. NoRequest \in RequestStates
  BY NoRequestIsGood
<1>1. ASSUME SubmitSearch(r) PROVE JourneyInv'
  <2> DEFINE q == [NoRequest EXCEPT !.kind = "search", !.party = form]
  <2>1. q \in RequestStates /\ GoodRequest(q, searches, bookings) /\ q.kind # "none"
    BY <1>0 DEF RequestStates, GoodRequest, BookingKinds, NoRequest, JourneyInv
  <2> QED BY <1>1, <2>1, VisitKeeps DEF SubmitSearch
<1>2. ASSUME SelectFare(r) PROVE JourneyInv'
  <2> DEFINE q == [NoRequest EXCEPT !.kind = "select", !.id = page.id]
  <2>1. page.id \in Nat /\ page.id \in 1 .. Len(searches)
    BY <1>2 DEF SelectFare, JourneyInv, Pages, GoodPage
  <2>2. q \in RequestStates /\ GoodRequest(q, searches, bookings) /\ q.kind # "none"
    BY <1>0, <2>1 DEF RequestStates, GoodRequest, BookingKinds, NoRequest
  <2> QED BY <1>2, <2>2, VisitKeeps DEF SelectFare
<1>3. ASSUME SubmitPassengers(r) PROVE JourneyInv'
  <2> DEFINE q == [NoRequest EXCEPT !.kind = "store", !.id = page.id,
                                    !.draft = page.draft, !.edited = page.edited,
                                    !.base = page.base]
  <2>1. page.at = "passengers" /\ page \in Pages /\ GoodPage(page, searches, bookings)
    BY <1>3 DEF SubmitPassengers, JourneyInv
  <2>2. /\ page.id \in Nat /\ page.draft \in Seq(Passenger) /\ page.edited \in BOOLEAN
        /\ page.id \in 1 .. Len(bookings) /\ Fits(page.draft, PartyIn(page.id, searches, bookings))
        /\ page.base \in NameLists /\ NamesFollow(page.draft, page.edited, page.base)
    BY <2>1 DEF Pages, GoodPage
  <2>3. q \in RequestStates /\ GoodRequest(q, searches, bookings) /\ q.kind # "none"
    BY <1>0, <2>2 DEF RequestStates, GoodRequest, BookingKinds, NoRequest
  <2> QED BY <1>3, <2>3, VisitKeeps DEF SubmitPassengers
<1>4. ASSUME NEW b \in DOMAIN bookings, NEW kind \in {"edit", "checkout", "show", "lookup"},
             Visit(r, [NoRequest EXCEPT !.kind = kind, !.id = b])
      PROVE  JourneyInv'
  <2>1. b \in Nat /\ b \in 1 .. Len(bookings)
    BY RowTypes DEF JourneyInv, TablesOK
  <2> QED BY <1>4, <2>1, VisitIsGood, VisitKeeps
<1>5. ASSUME NEW kind \in {"login", "logout"}, Visit(r, [NoRequest EXCEPT !.kind = kind])
      PROVE  JourneyInv'
  <2> DEFINE q == [NoRequest EXCEPT !.kind = kind]
  <2>1. q \in RequestStates /\ GoodRequest(q, searches, bookings) /\ q.kind # "none"
    BY <1>0 DEF RequestStates, GoodRequest, BookingKinds, NoRequest
  <2> QED BY <1>5, <2>1, VisitKeeps
<1> QED BY <1>1, <1>2, <1>3, <1>4, <1>5 DEF Customer, Follow, OpenAddress, Login, Logout,
     SubmitLookup

-----------------------------------------------------------------------------
(* The server. *)

LEMMA ServeSearchKeeps ==
    ASSUME JourneyInv, NEW r \in Requests, ServeSearch(r)
    PROVE  JourneyInv'
<1>1. CASE UNCHANGED searches /\ Answer(r, requests[r].session, Again("search"))
  <2>1. KeptTables /\ bookings' = bookings
    BY <1>1, TablesKept DEF ServeSearch, stored
  <2>2. Again("search") \in Pages /\ GoodPage(Again("search"), searches', bookings')
    BY <1>1, AgainIsGood DEF JourneyInv, ServeSearch
  <2> QED BY <1>1, <2>1, <2>2, RequestTypes, AnswerKeeps
<1>2. CASE /\ Len(searches) < MaxSearches
           /\ searches' = Append(searches, [party |-> requests[r].party, expired |-> FALSE])
           /\ Answer(r, requests[r].session, Shown("results", Len(searches) + 1))
  <2> DEFINE row == [party |-> requests[r].party, expired |-> FALSE]
  <2>1. row \in SearchRows
    BY RequestTypes DEF SearchRows
  <2>2. /\ searches \in Seq(SearchRows) /\ Len(searches) \in Nat /\ Len(bookings) \in Nat
        /\ bookings' = bookings /\ mine' = mine
    BY RowTypes DEF JourneyInv, TablesOK, ServeSearch
  <2>3. /\ searches' \in Seq(SearchRows) /\ Len(searches') = Len(searches) + 1
        /\ \A s \in 1 .. Len(searches) : searches'[s] = searches[s]
    BY <1>2, <2>1, <2>2, AppendProperties
  <2>4. TablesOK(searches', bookings')
    <3>1. Len(searches') <= MaxSearches
      BY <1>2, <2>2, <2>3, Bounds
    <3>2. \A b \in 1 .. Len(bookings) :
            /\ bookings[b].search \in 1 .. Len(searches')
            /\ PartyIn(b, searches', bookings) = PartyIn(b, searches, bookings)
      BY <2>2, <2>3 DEF JourneyInv, TablesOK, PartyIn
    <3> QED BY <2>2, <2>3, <3>1, <3>2 DEF JourneyInv, TablesOK
  <2>5. Extended
    BY <2>2, <2>3 DEF Extended
  <2>6. KeptTables
    BY <2>2, <2>4, <2>5 DEF JourneyInv, KeptTables
  <2>7. Len(searches) + 1 \in Nat /\ Len(searches) + 1 \in 1 .. Len(searches')
    BY <2>2, <2>3
  <2>8. /\ Shown("results", Len(searches) + 1) \in Pages
        /\ GoodPage(Shown("results", Len(searches) + 1), searches', bookings')
    BY <2>7, ShownIsGood
  <2> QED BY <1>2, <2>2, <2>6, <2>8, RequestTypes, AnswerKeeps
<1> QED BY <1>1, <1>2 DEF ServeSearch

LEMMA ServeSelectKeeps ==
    ASSUME JourneyInv, NEW r \in Requests, ServeSelect(r)
    PROVE  JourneyInv'
<1> DEFINE s == requests[r].id
           mySession == requests[r].session
           b == Len(bookings) + 1
           row == [status |-> "offer_selected", search |-> s,
                   user |-> mySession.user, passengers |-> <<>>]
<1>1. CASE searches[s].expired
  <2>1. UNCHANGED <<stored, mine>> /\ Answer(r, mySession, Again("offer"))
    BY <1>1 DEF ServeSelect, stored
  <2>2. KeptTables
    BY <2>1, TablesKept
  <2>3. Again("offer") \in Pages /\ GoodPage(Again("offer"), searches', bookings')
    BY <2>1, AgainIsGood DEF JourneyInv, stored
  <2>4. bookings' = bookings
    BY <2>1 DEF stored
  <2> QED BY <2>1, <2>2, <2>3, <2>4, RequestTypes, AnswerKeeps
<1>2. CASE ~searches[s].expired
  <2>1. /\ b <= MaxBookings /\ bookings' = Append(bookings, row) /\ searches' = searches
        /\ mine' = mine \union {b}
        /\ Redirect(r, [mySession EXCEPT !.access = @ \union {b}], "edit", b)
    BY <1>2 DEF ServeSelect
  <2>2. s \in Nat /\ s \in 1 .. Len(searches) /\ mySession \in Sessions
    BY RequestTypes DEF ServeSelect, Loaded, GoodRequest
  <2>3. bookings \in Seq(BookingRows) /\ Len(searches) \in Nat /\ Len(bookings) \in Nat
    BY RowTypes DEF JourneyInv, TablesOK
  <2>4. row \in BookingRows
    <3>1. <<>> \in Seq(Passenger)
      BY EmptySeq
    <3> QED BY <2>2, <3>1, SessionTypes DEF BookingRows
  <2>5. /\ bookings' \in Seq(BookingRows) /\ Len(bookings') = Len(bookings) + 1
        /\ \A c \in 1 .. Len(bookings) : bookings'[c] = bookings[c]
        /\ bookings'[b].search = s /\ bookings'[b].passengers = <<>>
    <3> HIDE DEF row
    <3>1. /\ bookings' \in Seq(BookingRows) /\ Len(bookings') = Len(bookings) + 1
          /\ \A c \in 1 .. Len(bookings) : bookings'[c] = bookings[c]
          /\ bookings'[b] = row
      BY <2>1, <2>3, <2>4, AppendProperties
    <3> QED BY <3>1 DEF row
  <2>6. TablesOK(searches', bookings')
    <3>1. \A c \in 1 .. Len(bookings') : c \in 1 .. Len(bookings) \/ c = b
      BY <2>3, <2>5
    <3> HIDE DEF b
    <3>2. \A c \in 1 .. Len(bookings') :
            /\ bookings'[c].search \in 1 .. Len(searches)
            /\ bookings'[c].passengers # <<>> =>
                 Len(bookings'[c].passengers) = Size(PartyIn(c, searches, bookings'))
      BY <2>2, <2>5, <3>1 DEF JourneyInv, TablesOK, PartyIn
    <3>3. Len(bookings') <= MaxBookings
      BY <2>1, <2>5 DEF b
    <3> QED BY <2>1, <2>5, <3>2, <3>3 DEF JourneyInv, TablesOK
  <2>7. Extended
    BY <2>1, <2>3, <2>5 DEF Extended
  <2>8. KeptTables
    BY <2>1, <2>3, <2>5, <2>6, <2>7 DEF JourneyInv, KeptTables
  <2>9. b \in Nat /\ b \in 1 .. Len(bookings') /\ b \in 1 .. MaxBookings
    BY <2>1, <2>3, <2>5, Bounds
  <2>10. [mySession EXCEPT !.access = @ \union {b}] \in Sessions
    BY <2>2, <2>9, SessionTypes
  <2> HIDE DEF b, mySession
  <2> QED BY <2>1, <2>8, <2>9, <2>10, RedirectKeeps
<1> QED BY <1>1, <1>2

\* The pages that only a stored booking is needed for.
LEMMA ServePagesKeep ==
    ASSUME JourneyInv, NEW r \in Requests, ServeCheckout(r) \/ ServeShow(r) \/ ServeLogin(r)
    PROVE  JourneyInv'
<1>1. UNCHANGED <<stored, mine>> /\ bookings' = bookings
  BY DEF ServeCheckout, ServeShow, ServeLogin, stored
<1>2. KeptTables
  BY <1>1, TablesKept
<1>3. /\ Elsewhere \in Pages /\ GoodPage(Elsewhere, searches', bookings')
      /\ Refused \in Pages /\ GoodPage(Refused, searches', bookings')
  BY ShownIsGood DEF Elsewhere
<1>4. PICK s \in Sessions, shown \in {Elsewhere, Refused} : Answer(r, s, shown)
  BY RequestTypes, SessionTypes
  DEF ServeCheckout, ServeShow, ServeLogin, SessionAfterLogin
<1> QED BY <1>1, <1>2, <1>3, <1>4, AnswerKeeps

LEMMA ServeLogoutKeeps ==
    ASSUME JourneyInv, NEW r \in Requests, ServeLogout(r)
    PROVE  JourneyInv'
<1>1. /\ UNCHANGED stored /\ bookings' = bookings /\ mine' = {}
      /\ Answer(r, Guest, Shown("search", 0))
  BY DEF ServeLogout, stored
<1>2. KeptTables
  BY <1>1, SameTables DEF KeptTables
<1>3. Shown("search", 0) \in Pages /\ GoodPage(Shown("search", 0), searches', bookings')
  BY ShownIsGood
<1> QED BY <1>1, <1>2, <1>3, NoRequestIsGood, AnswerKeeps

LEMMA ServeLookupKeeps ==
    ASSUME JourneyInv, NEW r \in Requests, ServeLookup(r)
    PROVE  JourneyInv'
<1> DEFINE b == requests[r].id
           mySession == requests[r].session
<1>1. KeptTables /\ UNCHANGED stored /\ bookings' = bookings
  BY TablesKept DEF ServeLookup, stored
<1>2. b \in Nat /\ b \in 1 .. Len(bookings) /\ mySession \in Sessions
  BY RequestTypes DEF ServeLookup, Loaded, GoodRequest, BookingKinds
<1>3. CASE Answer(r, mySession, Again("lookup"))
  <2>1. Again("lookup") \in Pages /\ GoodPage(Again("lookup"), searches', bookings')
    BY <1>1, AgainIsGood DEF JourneyInv, stored
  <2> QED BY <1>1, <1>2, <1>3, <2>1, AnswerKeeps
<1>4. CASE Redirect(r, [mySession EXCEPT !.access = @ \union {b}], "show", b)
  <2>1. b \in 1 .. Len(bookings') /\ b \in 1 .. MaxBookings
    <3>1. Len(bookings) \in Nat /\ Len(bookings) <= MaxBookings /\ bookings' = bookings
      BY <1>1, RowTypes DEF JourneyInv, TablesOK, stored
    <3> QED BY <1>2, <3>1, Bounds
  <2>2. [mySession EXCEPT !.access = @ \union {b}] \in Sessions
    BY <1>2, <2>1, SessionTypes
  <2> HIDE DEF b, mySession
  <2> QED BY <1>1, <1>2, <1>4, <2>1, <2>2, RedirectKeeps
<1> QED BY <1>3, <1>4 DEF ServeLookup

LEMMA ServeEditKeeps ==
    ASSUME JourneyInv, NEW r \in Requests, ServeEdit(r)
    PROVE  JourneyInv'
<1> DEFINE b == requests[r].id
<1>1. KeptTables /\ UNCHANGED stored /\ bookings' = bookings
  BY TablesKept DEF ServeEdit, stored
<1>2. b \in Nat /\ b \in 1 .. Len(bookings) /\ requests[r].session \in Sessions
  BY RequestTypes DEF ServeEdit, Loaded, GoodRequest, BookingKinds
<1> HIDE DEF b
<1>3. ServedForm(b) \in Pages /\ GoodPage(ServedForm(b), searches, bookings)
  BY <1>2, ServedFormIsGood DEF JourneyInv
<1>4. /\ ServedForm(b) \in Pages /\ GoodPage(ServedForm(b), searches', bookings')
      /\ Refused \in Pages /\ GoodPage(Refused, searches', bookings')
  BY <1>1, <1>3, ShownIsGood DEF stored
<1>5. PICK shown \in {ServedForm(b), Refused} : Answer(r, requests[r].session, shown)
  BY DEF ServeEdit, b
<1> QED BY <1>1, <1>2, <1>4, <1>5, AnswerKeeps

LEMMA ServeStoreKeeps ==
    ASSUME JourneyInv, NEW r \in Requests, ServeStore(r)
    PROVE  JourneyInv'
<1> DEFINE b == requests[r].id
           draft == requests[r].draft
           mySession == requests[r].session
<1>1. /\ b \in Nat /\ b \in 1 .. Len(bookings) /\ mySession \in Sessions
      /\ draft \in Seq(Passenger) /\ Fits(draft, PartyIn(b, searches, bookings))
  BY RequestTypes DEF ServeStore, Loaded, GoodRequest, BookingKinds
<1>2. PartyOf(b) \in Parties /\ PartyIn(b, searches, bookings) = PartyOf(b)
  BY <1>1, RowTypes DEF JourneyInv, PartyOf, PartyIn
\* The form is not refused for its counts.
<1>3. CountsMatch(b, draft)
  BY <1>1, <1>2, FitsCounts
<1>4. ASSUME NEW shown \in {Again("fields"), Again("booking"), Refused},
             Answer(r, mySession, shown), UNCHANGED bookings
      PROVE  JourneyInv'
  <2>1. UNCHANGED <<stored, mine>> /\ bookings' = bookings
    BY <1>4 DEF ServeStore, stored
  <2>2. shown \in Pages /\ GoodPage(shown, searches', bookings')
    BY <2>1, AgainIsGood, ShownIsGood DEF JourneyInv, stored
  <2> QED BY <1>1, <1>4, <2>1, <2>2, TablesKept, AnswerKeeps
<1>5. ASSUME bookings' = [bookings EXCEPT ![b].passengers = draft,
                                          ![b].status = "passenger_details_added"],
             Redirect(r, mySession, "checkout", b)
      PROVE  JourneyInv'
  <2> DEFINE row == [bookings[b] EXCEPT !.passengers = draft,
                                        !.status = "passenger_details_added"]
  <2>1. /\ bookings \in Seq(BookingRows) /\ Len(bookings) \in Nat /\ Len(searches) \in Nat
        /\ bookings[b] \in BookingRows /\ searches' = searches /\ mine' = mine
    BY <1>1, RowTypes DEF JourneyInv, TablesOK, ServeStore
  <2>2. /\ row \in BookingRows /\ row.search = bookings[b].search
        /\ row.passengers = draft /\ Len(draft) = Size(PartyIn(b, searches, bookings))
    BY <1>1, <2>1 DEF BookingRows, Fits
  <2>3. bookings' = [bookings EXCEPT ![b] = row]
    BY <1>5, <1>1, <2>1
  <2> HIDE DEF row
  <2>4. /\ bookings' \in Seq(BookingRows) /\ Len(bookings') = Len(bookings)
        /\ \A c \in 1 .. Len(bookings) : bookings'[c] = IF c = b THEN row ELSE bookings[c]
    BY <1>1, <2>1, <2>2, <2>3, ExceptSeq
  <2>5. \A c \in 1 .. Len(bookings) :
          /\ bookings'[c].search = bookings[c].search
          /\ PartyIn(c, searches, bookings') = PartyIn(c, searches, bookings)
          /\ bookings'[c].passengers # <<>> =>
               Len(bookings'[c].passengers) = Size(PartyIn(c, searches, bookings))
    BY <2>2, <2>4 DEF PartyIn, JourneyInv, TablesOK
  <2>6. TablesOK(searches', bookings') /\ Extended
    BY <2>1, <2>4, <2>5 DEF JourneyInv, TablesOK, Extended
  <2>7. KeptTables /\ b \in 1 .. Len(bookings')
    BY <1>1, <2>1, <2>4, <2>6 DEF JourneyInv, KeptTables
  <2> HIDE DEF b, mySession
  <2> QED BY <1>1, <1>5, <2>7, RedirectKeeps
<1> QED BY <1>3, <1>4, <1>5 DEF ServeStore

LEMMA LoadSessionKeeps ==
    ASSUME JourneyInv, NEW r \in Requests, LoadSession(r)
    PROVE  JourneyInv'
<1> DEFINE q == [requests[r] EXCEPT !.loaded = TRUE, !.session = session]
<1>1. /\ requests' = [requests EXCEPT ![r] = q] /\ requests \in [Requests -> RequestStates]
      /\ UNCHANGED <<form, page, waiting, past, searches, bookings, session, mine>>
  BY DEF LoadSession, JourneyInv, browser, stored
<1>2. q \in RequestStates /\ q.kind = requests[r].kind /\ q.id = requests[r].id
      /\ q.draft = requests[r].draft /\ q.edited = requests[r].edited
      /\ q.base = requests[r].base
  BY <1>1 DEF RequestStates, JourneyInv
<1>3. GoodRequest(q, searches, bookings)
  BY <1>2, RequestTypes DEF GoodRequest
<1> HIDE DEF q
<1>4. /\ requests' \in [Requests -> RequestStates]
      /\ \A p \in Requests : GoodRequest(requests'[p], searches, bookings)
      /\ \A p \in Requests : requests'[p].kind = requests[p].kind
  BY <1>1, <1>2, <1>3 DEF JourneyInv
<1> QED BY <1>1, <1>4 DEF JourneyInv

LEMMA ExpireKeeps ==
    ASSUME JourneyInv, NEW s \in DOMAIN searches, Expire(s)
    PROVE  JourneyInv'
<1> DEFINE row == [searches[s] EXCEPT !.expired = TRUE]
<1>1. /\ searches \in Seq(SearchRows) /\ Len(searches) \in Nat /\ Len(bookings) \in Nat
      /\ s \in 1 .. Len(searches) /\ searches[s] \in SearchRows
      /\ UNCHANGED <<form, page, waiting, past, requests, bookings, session, mine>>
      /\ searches' = [searches EXCEPT ![s] = row]
  BY RowTypes DEF JourneyInv, TablesOK, Expire, browser
<1>2. row \in SearchRows /\ row.party = searches[s].party
  BY <1>1 DEF SearchRows
<1> HIDE DEF row
<1>3. /\ searches' \in Seq(SearchRows) /\ Len(searches') = Len(searches)
      /\ \A t \in 1 .. Len(searches) : searches'[t] = IF t = s THEN row ELSE searches[t]
  BY <1>1, <1>2, ExceptSeq
<1>4. /\ \A t \in 1 .. Len(searches) : searches'[t].party = searches[t].party
      /\ \A b \in 1 .. Len(bookings) :
           PartyIn(b, searches', bookings) = PartyIn(b, searches, bookings)
  BY <1>2, <1>3 DEF PartyIn, JourneyInv, TablesOK
<1>5. TablesOK(searches', bookings') /\ Extended
  <2>1. \A b \in 1 .. Len(bookings) :
          /\ bookings[b].search \in 1 .. Len(searches')
          /\ bookings[b].passengers # <<>> =>
               Len(bookings[b].passengers) = Size(PartyIn(b, searches', bookings'))
    BY <1>1, <1>3, <1>4 DEF JourneyInv, TablesOK
  <2>2. TablesOK(searches', bookings')
    BY <1>1, <1>3, <2>1 DEF JourneyInv, TablesOK
  <2>3. Extended
    BY <1>1, <1>3, <1>4 DEF Extended
  <2> QED BY <2>2, <2>3
<1>6. /\ \A q : GoodRequest(q, searches, bookings) => GoodRequest(q, searches', bookings')
      /\ \A p : GoodPage(p, searches, bookings) => GoodPage(p, searches', bookings')
      /\ \A ps : GoodPages(ps, searches, bookings) => GoodPages(ps, searches', bookings')
  BY <1>5, StaysGood DEF JourneyInv
<1> QED BY <1>1, <1>5, <1>6 DEF JourneyInv

LEMMA JourneyStep == JourneyInv /\ [Next]_vars => JourneyInv'
<1> SUFFICES ASSUME JourneyInv, [Next]_vars PROVE JourneyInv'
  OBVIOUS
<1>1. CASE UNCHANGED vars
  BY <1>1 DEF vars, browser, stored, JourneyInv
<1>2. ASSUME NEW r \in Requests, Serve(r) PROVE JourneyInv'
  BY <1>2, LoadSessionKeeps, ServeSearchKeeps, ServeSelectKeeps, ServeEditKeeps,
     ServeStoreKeeps, ServePagesKeep, ServeLookupKeeps, ServeLogoutKeeps DEF Serve
<1>3. ASSUME NEW r \in Requests, Customer(r) PROVE JourneyInv'
  BY <1>3, CustomerKeeps
<1>4. CASE OpenPage \/ Back
  BY <1>4, OpenKeeps, BackKeeps
<1>5. ASSUME NEW party \in Parties, EditSearch(party) PROVE JourneyInv'
  BY <1>5, EditSearchKeeps
<1>6. ASSUME NEW i \in DOMAIN page.draft, NEW name \in Names, EditPassenger(i, name)
      PROVE  JourneyInv'
  BY <1>6, EditPassengerKeeps
<1>7. ASSUME NEW s \in DOMAIN searches, Expire(s) PROVE JourneyInv'
  BY <1>7, ExpireKeeps
<1> QED BY <1>1, <1>2, <1>3, <1>4, <1>5, <1>6, <1>7 DEF Next

\* Every page, request and row stays within its type and refers to rows that exist.
THEOREM JourneyInvariant == Spec => []JourneyInv
BY InitGood, JourneyStep, PTL DEF Spec

\* Every variable of the journey keeps its type.
THEOREM JourneyTypes == Spec => []JourneyTypeOK
<1>1. JourneyInv => JourneyTypeOK
  BY LenProperties DEF JourneyInv, JourneyTypeOK, TablesOK, GoodPages
<1> QED BY <1>1, JourneyInvariant, PTL

\* StorePassengerDetailsRequest never refuses the passenger form for its number of
\* passengers, for any party the search form can send.
THEOREM NeverRefused == Spec => []NeverRefusedForCounts
<1>1. JourneyInv => NeverRefusedForCounts
  BY DEF JourneyInv, GoodPage, NeverRefusedForCounts
<1> QED BY <1>1, JourneyInvariant, PTL

-----------------------------------------------------------------------------
(* Access, when the requests of a browser are served one at a time. *)

\* At most one request has read the session, and nothing was written since; the session
\* knows every booking that was selected.
AccessInv ==
    /\ \A r, q \in Requests : requests[r].loaded /\ requests[q].loaded => r = q
    /\ \A r \in Requests : requests[r].loaded => requests[r].session = session
    /\ mine \subseteq session.access

\* A step that ends request r and writes a session that knows what was selected.
LEMMA EndKeepsAccess ==
    ASSUME JourneyInv, AccessInv, NEW r \in Requests, requests[r].loaded, NEW q,
           ~q.loaded, requests' = [requests EXCEPT ![r] = q], mine' \subseteq session'.access
    PROVE  AccessInv'
<1>1. requests'[r] = q /\ \A p \in Requests : p # r => requests'[p] = requests[p]
  BY DEF JourneyInv
<1>2. \A p \in Requests : ~requests'[p].loaded
  BY <1>1 DEF AccessInv
<1> QED BY <1>2 DEF AccessInv

\* A visit of the customer.
LEMMA VisitKeepsAccess ==
    ASSUME JourneyInv, AccessInv, NEW r \in Requests, NEW q, ~q.loaded, Visit(r, q)
    PROVE  AccessInv'
<1>1. requests'[r] = q /\ \A p \in Requests : p # r => requests'[p] = requests[p]
  BY DEF JourneyInv, Visit
<1>2. UNCHANGED <<session, mine>>
  BY DEF Visit
<1> QED BY <1>1, <1>2 DEF AccessInv

LEMMA AccessStep ==
    ASSUME ~Overlap, JourneyInv, AccessInv, [Next]_vars
    PROVE  AccessInv'
<1>0. ~NoRequest.loaded /\ \A kind, id : ~[NoRequest EXCEPT !.kind = kind, !.id = id].loaded
  BY DEF NoRequest
<1>1. CASE UNCHANGED <<requests, session, mine>>
  BY <1>1 DEF AccessInv
<1>2. ASSUME NEW r \in Requests, Customer(r) PROVE AccessInv'
  <2>1. PICK q : ~q.loaded /\ Visit(r, q)
    BY <1>2 DEF Customer, SubmitSearch, SelectFare, SubmitPassengers, Follow, OpenAddress,
                Login, Logout, SubmitLookup, NoRequest
  <2> QED BY <2>1, VisitKeepsAccess
<1>3. ASSUME NEW r \in Requests, LoadSession(r) PROVE AccessInv'
  <2>1. /\ UNCHANGED <<session, mine>>
        /\ requests'[r].session = session
        /\ \A p \in Requests : p # r => requests'[p] = requests[p]
        /\ \A p \in Requests : ~requests[p].loaded
    BY <1>3 DEF LoadSession, JourneyInv, RequestStates
  <2> QED BY <2>1 DEF AccessInv
<1>4. ASSUME NEW r \in Requests, NEW s, NEW shown, requests[r].loaded, Answer(r, s, shown),
             mine' \subseteq s.access
      PROVE  AccessInv'
  BY <1>0, <1>4, EndKeepsAccess DEF Answer
<1>5. ASSUME NEW r \in Requests, NEW s, NEW kind, NEW b, requests[r].loaded,
             Redirect(r, s, kind, b), mine' \subseteq s.access
      PROVE  AccessInv'
  <2>1. PICK q : ~q.loaded /\ requests' = [requests EXCEPT ![r] = q]
    BY <1>0, <1>5 DEF Redirect
  <2>2. session' = s
    BY <1>5 DEF Redirect
  <2> QED BY <1>5, <2>1, <2>2, EndKeepsAccess
<1>6. ASSUME NEW r \in Requests, Serve(r), ~LoadSession(r) PROVE AccessInv'
  <2>1. requests[r].loaded
    BY <1>6 DEF Serve, Loaded, ServeSearch, ServeSelect, ServeEdit, ServeStore, ServeCheckout,
                ServeLookup, ServeShow, ServeLogin, ServeLogout
  <2>2. requests[r].session = session /\ session \in Sessions /\ mine \subseteq session.access
    BY <2>1 DEF AccessInv, JourneyInv
  <2>3. CASE ServeSelect(r)
    <3> DEFINE b == Len(bookings) + 1
    <3>1. CASE searches[requests[r].id].expired
      BY <2>1, <2>2, <2>3, <3>1, <1>4 DEF ServeSelect
    <3>2. CASE ~searches[requests[r].id].expired
      <4>1. /\ mine' = mine \union {b}
            /\ Redirect(r, [session EXCEPT !.access = @ \union {b}], "edit", b)
        BY <2>2, <2>3, <3>2 DEF ServeSelect
      <4>2. mine' \subseteq [session EXCEPT !.access = @ \union {b}].access
        BY <2>2, <4>1 DEF Sessions
      <4> QED BY <2>1, <4>1, <4>2, <1>5
    <3> QED BY <3>1, <3>2
  <2>4. CASE ServeLookup(r)
    <3> DEFINE b == requests[r].id
    <3>1. CASE Answer(r, session, Again("lookup"))
      BY <2>1, <2>2, <2>4, <3>1, <1>4 DEF ServeLookup
    <3>2. CASE Redirect(r, [session EXCEPT !.access = @ \union {b}], "show", b)
      <4>1. mine' \subseteq [session EXCEPT !.access = @ \union {b}].access
        BY <2>2, <2>4 DEF ServeLookup, Sessions
      <4> QED BY <2>1, <3>2, <4>1, <1>5
    <3> QED BY <2>2, <2>4, <3>1, <3>2 DEF ServeLookup
  <2>5. CASE ServeStore(r)
    BY <2>1, <2>2, <2>5, <1>4, <1>5 DEF ServeStore
  <2>6. CASE ServeLogin(r)
    <3>1. mine' \subseteq SessionAfterLogin(session).access
      BY <2>2, <2>6 DEF ServeLogin, SessionAfterLogin, Sessions
    <3> QED BY <2>1, <2>2, <2>6, <3>1, <1>4 DEF ServeLogin
  <2>7. CASE ServeLogout(r)
    BY <2>1, <2>7, <1>4 DEF ServeLogout
  <2>8. CASE ServeSearch(r) \/ ServeEdit(r) \/ ServeCheckout(r) \/ ServeShow(r)
    BY <2>1, <2>2, <2>8, <1>4 DEF ServeSearch, ServeEdit, ServeCheckout, ServeShow
  <2> QED BY <1>6, <2>3, <2>4, <2>5, <2>6, <2>7, <2>8 DEF Serve
<1>7. CASE \/ OpenPage \/ Back
           \/ \E party \in Parties : EditSearch(party)
           \/ \E i \in DOMAIN page.draft, name \in Names : EditPassenger(i, name)
           \/ \E s \in DOMAIN searches : Expire(s)
           \/ UNCHANGED vars
  BY <1>1, <1>7 DEF OpenPage, Open, Back, EditSearch, EditPassenger, Expire, vars
<1> QED BY <1>2, <1>3, <1>6, <1>7 DEF Next

\* While no two requests of a browser overlap, what the customer has selected can be opened
\* until he logs out: every writer of the session has read the latest one.
THEOREM SelectedReachable ==
    ASSUME ~Overlap
    PROVE  Spec => []SelectedIsReachable
<1>1. Init => AccessInv
  BY DEF Init, AccessInv, NoRequest, Guest
<1>2. JourneyInv /\ AccessInv /\ [Next]_vars => AccessInv'
  BY AccessStep
<1>3. AccessInv => SelectedIsReachable
  BY DEF AccessInv, SelectedIsReachable, Allows
<1> QED BY <1>1, <1>2, <1>3, JourneyInvariant, PTL DEF Spec

-----------------------------------------------------------------------------
(***************************************************************************)
(* The names on the form.  A form nobody has typed into shows the names it *)
(* was rendered with, wherever it is: on the screen, in the history, on    *)
(* its way.  If there were none, a field is empty and the form is refused. *)
(***************************************************************************)

\* Only the handler of the form stores passengers, and it ends its own request.
LEMMA OnlyStoreSaves ==
    ASSUME JourneyInv, [Next]_vars, NEW r \in Requests, NEW b \in DOMAIN bookings,
           Loaded(r, "store"), requests[r].id = b,
           requests'[r] # requests[r], bookings'[b] # bookings[b]
    PROVE  /\ bookings' = [bookings EXCEPT ![b].passengers = requests[r].draft,
                                           ![b].status = "passenger_details_added"]
           /\ \A i \in DOMAIN requests[r].draft : requests[r].draft[i].name # ""
<1>1. ASSUME NEW q \in Requests, Customer(q) PROVE FALSE
  BY <1>1 DEF Customer, SubmitSearch, SelectFare, SubmitPassengers, Follow, OpenAddress,
              Login, Logout, SubmitLookup, Visit, stored
<1>2. PICK q \in Requests : Serve(q)
  BY <1>1 DEF Next, OpenPage, Open, Back, EditSearch, EditPassenger, Expire, vars, stored
<1>3. q = r
  <2>1. requests \in [Requests -> RequestStates]
    BY DEF JourneyInv
  <2>2. PICK other : requests' = [requests EXCEPT ![q] = other]
    BY <1>2, <2>1
    DEF Serve, LoadSession, ServeSearch, ServeSelect, ServeEdit, ServeStore, ServeCheckout,
        ServeLookup, ServeShow, ServeLogin, ServeLogout, Answer, Redirect
  <2> QED BY <2>1, <2>2
<1>4. ServeStore(r)
  BY <1>2, <1>3
  DEF Serve, Loaded, LoadSession, ServeSearch, ServeSelect, ServeEdit, ServeCheckout,
      ServeLookup, ServeShow, ServeLogin, ServeLogout
<1> QED BY <1>4 DEF ServeStore

\* Saving a passenger form nobody has typed into stores the names that were stored when the
\* form was rendered (PassengerForm, StorePassengerDetailsAction), for any parties, searches
\* and bookings: after refusals, expired offers and however far back the customer goes.
THEOREM UntouchedSavesItsNames == Spec => UntouchedFormSavesItsNames
<1>1. ASSUME JourneyInv, [Next]_vars, NEW r \in Requests, NEW b \in DOMAIN bookings,
             Loaded(r, "store"), requests[r].id = b, ~requests[r].edited,
             requests'[r] # requests[r], bookings'[b] # bookings[b]
      PROVE  NamesOf(b)' = requests[r].base
  <2> DEFINE draft == requests[r].draft
             base == requests[r].base
  <2>1. /\ draft \in Seq(Passenger) /\ b \in 1 .. Len(bookings)
        /\ Fits(draft, PartyIn(b, searches, bookings)) /\ NamesFollow(draft, FALSE, base)
    BY <1>1, RequestTypes DEF Loaded, GoodRequest, BookingKinds
  <2>2. Len(draft) \in Nat \ {0} /\ DOMAIN draft = 1 .. Len(draft)
    <3>1. PartyIn(b, searches, bookings) \in Parties
      BY <1>1, <2>1, RowTypes DEF JourneyInv
    <3>2. Size(PartyIn(b, searches, bookings)) \in Nat \ {0}
      BY <3>1, PartyTypes DEF Party, Size
    <3> QED BY <2>1, <3>2, LenProperties DEF Fits
  <2>3. /\ bookings' = [bookings EXCEPT ![b].passengers = draft,
                                        ![b].status = "passenger_details_added"]
        /\ \A i \in DOMAIN draft : draft[i].name # ""
    BY <1>1, OnlyStoreSaves
  <2>4. NamesIn(draft) = base
    <3> HIDE DEF draft, base
    <3> DEFINE n == Len(draft)
    <3>1. n \in Nat \ {0} /\ DOMAIN draft = 1 .. n
      BY <2>2
    <3> HIDE DEF n
    <3>2. 1 \in DOMAIN draft /\ 1 \in 1 .. n
      BY <3>1
    <3>3. draft[1].name # ""
      BY <2>3, <3>2
    <3>4. IF base = <<>> THEN \A i \in 1 .. Len(draft) : draft[i].name = ""
          ELSE NamesIn(draft) = base
      BY <2>1 DEF NamesFollow
    <3> QED BY <3>2, <3>3, <3>4 DEF n
  <2>5. bookings'[b].passengers = draft
    <3>1. bookings \in Seq(BookingRows) /\ bookings[b] \in BookingRows
      BY <1>1, <2>1, RowTypes DEF JourneyInv, TablesOK
    <3> HIDE DEF draft
    <3> QED BY <2>1, <2>3, <3>1 DEF BookingRows
  <2> QED BY <2>4, <2>5 DEF NamesOf
<1>2. JourneyInv /\ [Next]_vars =>
        [\A r \in Requests, b \in DOMAIN bookings :
          (/\ Loaded(r, "store") /\ requests[r].id = b /\ ~requests[r].edited
           /\ requests'[r] # requests[r] /\ bookings'[b] # bookings[b])
              => NamesOf(b)' = requests[r].base]_vars
  BY <1>1
<1> QED BY <1>2, JourneyInvariant, PTL DEF Spec, UntouchedFormSavesItsNames
=============================================================================
