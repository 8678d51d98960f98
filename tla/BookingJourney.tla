--------------------------- MODULE BookingJourney ---------------------------
(***************************************************************************)
(* A customer's browser from the search form to the stored passengers:     *)
(* FlightSearchForm, FlightResultCard, FareDetails, PassengerForm, the     *)
(* lookup and the account pages, with the handlers they post to and the    *)
(* session that says which bookings the browser may open.                  *)
(*                                                                         *)
(* The browser shows one page and waits for one answer; a new visit makes  *)
(* it ignore the answer to the one before, which is served all the same.   *)
(* Its back button shows a page as it was once served, without a request.  *)
(* Every request reads the session when it starts and writes it whole when *)
(* it ends; Overlap says whether others may be served in between.          *)
(*                                                                         *)
(* A passenger is a type and a name: the other fields that are required    *)
(* and the contact details stand with the name.  Prices are in PromoUsage. *)
(***************************************************************************)
EXTENDS Integers, Sequences, FiniteSets

CONSTANTS
    Parties,       \* what the three number fields may hold: [adult, child, infant]
    Names,
    MaxSearches,   \* bound: searches stored
    MaxBookings,   \* bound: bookings made
    Requests,      \* requests on their way
    Overlap,       \* may requests of the browser be served at the same time?
    FarBack        \* bound: may the customer go back more than one page?

DefaultParty == [adult |-> 1, child |-> 0, infant |-> 0]

ASSUME JourneyAssumption ==
    /\ Parties \subseteq [adult : Nat \ {0}, child : Nat, infant : Nat]
    /\ DefaultParty \in Parties
    /\ MaxSearches \in Nat /\ MaxBookings \in Nat
    /\ "none" \notin Requests /\ "" \notin Names
    /\ Overlap \in BOOLEAN /\ FarBack \in BOOLEAN

VARIABLES
    form,      \* the three number fields of FlightSearchForm
    page,      \* what is shown
    waiting,   \* the request whose answer will be shown, or "none"
    past,      \* the browser's history: passenger forms with the props they were served
    requests,  \* per request: what it asks and the session it has read
    searches,  \* rows of flight_searches with their offers
    bookings,  \* rows of bookings with their passengers
    session,   \* the stored session: who is logged in, manage_booking_access
    mine       \* ghost: the bookings selected since the session was started

browser == <<form, page, waiting, past>>
stored  == <<searches, bookings>>
vars == <<browser, requests, stored, session, mine>>

-----------------------------------------------------------------------------
(* Data. *)

Types == {"adult", "child", "infant_without_seat"}
Passenger == [type : Types, name : Names \union {""}]

\* expired: so have its offers, and the bookings made of them.
SearchRows == [party : Parties, expired : BOOLEAN]

\* user: made by the customer's account, otherwise by a guest.
BookingRows == [status : {"offer_selected", "passenger_details_added"},
                search : Nat, user : BOOLEAN, passengers : Seq(Passenger)]

Sessions == [user : BOOLEAN, access : SUBSET (1 .. MaxBookings)]
Guest == [user |-> FALSE, access |-> {}]

\* id: the search or the booking a form of the page posts to.
\* elsewhere: a page without a form of this module, with error "refused" the 403 page.
\* edited: the customer has typed into the draft.  base: a ghost, the names that were stored
\* when a draft was built that nobody has typed into.
NameLists == Seq(Names \union {""})
Pages == [at : {"search", "results", "passengers", "lookup", "elsewhere"},
          id : Nat, draft : Seq(Passenger), edited : BOOLEAN, base : NameLists,
          error : {"none", "search", "offer", "booking", "passengers", "fields",
                   "lookup", "refused"}]

Shown(at, id) == [at |-> at, id |-> id, draft |-> <<>>, edited |-> FALSE, base |-> <<>>,
                  error |-> "none"]

RequestStates == [kind : {"none", "search", "select", "edit", "store", "checkout",
                          "lookup", "show", "login", "logout"},
                  id : Nat, party : Parties, draft : Seq(Passenger), edited : BOOLEAN,
                  base : NameLists, loaded : BOOLEAN, session : Sessions]

Elsewhere == Shown("elsewhere", 0)
Refused == [Elsewhere EXCEPT !.error = "refused"]

NoRequest == [kind |-> "none", id |-> 0, party |-> DefaultParty, draft |-> <<>>,
              edited |-> FALSE, base |-> <<>>, loaded |-> FALSE, session |-> Guest]

JourneyTypeOK ==
    /\ form \in Parties
    /\ page \in Pages
    /\ waiting \in Requests \union {"none"}
    /\ past \subseteq Pages
    /\ requests \in [Requests -> RequestStates]
    /\ searches \in Seq(SearchRows) /\ Len(searches) <= MaxSearches
    /\ bookings \in Seq(BookingRows) /\ Len(bookings) <= MaxBookings
    /\ session \in Sessions
    /\ mine \subseteq DOMAIN bookings
    /\ \A r \in Requests : waiting = r => requests[r].kind # "none"

Init ==
    /\ form = DefaultParty
    /\ page = Shown("search", 0)
    /\ waiting = "none"
    /\ past = {}
    /\ requests = [r \in Requests |-> NoRequest]
    /\ searches = <<>>
    /\ bookings = <<>>
    /\ session = Guest
    /\ mine = {}

-----------------------------------------------------------------------------
(* The passenger page and the history of the browser. *)

\* passenger_counts
PartyOf(b) == searches[bookings[b].search].party

Size(party) == party.adult + party.child + party.infant

\* Bug: the word the search form uses.
BugTypeAt(party, i) ==
    IF i <= party.adult THEN "adult"
    ELSE IF i <= party.adult + party.child THEN "child" ELSE "infant"

TypeAt(party, i) ==
    IF i <= party.adult THEN "adult"
    ELSE IF i <= party.adult + party.child THEN "child" ELSE "infant_without_seat"

\* Bug: the stored rows come back newest first.
BugBuildNewestFirst(party, existing) ==
    [i \in 1 .. Size(party) |->
        [type |-> TypeAt(party, i),
         name |-> IF i \in DOMAIN existing THEN existing[Len(existing) + 1 - i].name ELSE ""]]

\* Adults first, then children, then infants; the fields are merged by position.
BuildPassengers(party, existing) ==
    [i \in 1 .. Size(party) |->
        [type |-> TypeAt(party, i),
         name |-> IF i \in DOMAIN existing THEN existing[i].name ELSE ""]]

NamesIn(passengers) == [i \in DOMAIN passengers |-> passengers[i].name]

\* The passenger page as the server renders it.
ServedForm(b) ==
    [Shown("passengers", b) EXCEPT
        !.draft = BuildPassengers(PartyOf(b), bookings[b].passengers),
        !.base = NamesIn(bookings[b].passengers)]

\* Bound: without FarBack the customer goes back only from the page that follows the form.
Kept == IF FarBack \/ page.at = "passengers" THEN past ELSE {}

\* Whenever the passenger page is rendered it goes into the history as it is; what is typed
\* does not.
Remembered(shown) ==
    IF shown.at = "passengers" THEN (IF FarBack THEN past ELSE {}) \union {ServedForm(shown.id)}
    ELSE Kept

-----------------------------------------------------------------------------
(* The browser.  A visit needs a free request; the one before is not       *)
(* waited for any more.                                                    *)

Visit(r, request) ==
    /\ requests[r] = NoRequest
    /\ requests' = [requests EXCEPT ![r] = request]
    /\ waiting' = r
    /\ past' = Kept
    /\ UNCHANGED <<form, page, stored, session, mine>>

\* What is typed into the search form lives as long as a page that shows it.
FormOn(shown) == IF shown.at = page.at THEN form ELSE DefaultParty

\* A button is disabled while its form is processing.  Bound: the customer leaves a page
\* only when every click before is served, except that he may select a fare again.
Free == \A r \in Requests : requests[r] = NoRequest

\* setData
EditSearch(party) ==
    /\ page.at = "search" /\ Free
    /\ form # party
    /\ form' = party
    /\ UNCHANGED <<page, waiting, past, requests, stored, session, mine>>

SubmitSearch(r) ==
    /\ page.at = "search" /\ Free
    /\ Visit(r, [NoRequest EXCEPT !.kind = "search", !.party = form])

\* "Select fare" and "Continue with this fare" are not disabled: a second click is a
\* second request.
SelectFare(r) ==
    /\ page.at = "results"
    /\ Visit(r, [NoRequest EXCEPT !.kind = "select", !.id = page.id])

\* updatePassenger
EditPassenger(i, name) ==
    /\ page.at = "passengers" /\ Free
    /\ page.draft[i].name # name
    /\ page' = [page EXCEPT !.draft[i].name = name, !.edited = TRUE, !.base = <<>>]
    /\ UNCHANGED <<form, waiting, past, requests, stored, session, mine>>

SubmitPassengers(r) ==
    /\ page.at = "passengers" /\ Free
    /\ Visit(r, [NoRequest EXCEPT !.kind = "store", !.id = page.id,
                                  !.draft = page.draft, !.edited = page.edited,
                                  !.base = page.base])

SubmitLookup(r, b) ==
    /\ page.at = "lookup" /\ Free
    /\ b \in DOMAIN bookings
    /\ Visit(r, [NoRequest EXCEPT !.kind = "lookup", !.id = b])

\* A link of the account's list of bookings.
Follow(r, b) ==
    /\ page.at = "elsewhere" /\ Free
    /\ b \in DOMAIN bookings
    /\ Visit(r, [NoRequest EXCEPT !.kind = "show", !.id = b])

\* An address that is typed, kept as a bookmark or loaded again: no link leads there.
\* Bound: this, too, from a page without a form.
OpenAddress(r, b, kind) ==
    /\ page.at = "elsewhere" /\ Free
    /\ b \in DOMAIN bookings
    /\ Visit(r, [NoRequest EXCEPT !.kind = kind, !.id = b])

Login(r) ==
    /\ page.at = "elsewhere" /\ Free
    /\ ~session.user
    /\ Visit(r, [NoRequest EXCEPT !.kind = "login"])

Logout(r) ==
    /\ page.at = "elsewhere" /\ Free
    /\ session.user
    /\ Visit(r, [NoRequest EXCEPT !.kind = "logout"])

\* Pages that change nothing on the server.
Open(at, id) ==
    /\ Free
    /\ page.at # at
    /\ page' = Shown(at, id)
    /\ form' = DefaultParty
    /\ past' = Remembered(page')
    /\ UNCHANGED <<waiting, requests, stored, session, mine>>

\* The back and forward buttons: Inertia restores the page from the history with its old
\* props and asks the server nothing; useForm, without a key to be remembered by, starts from
\* those props.  (For the pages without a draft that is what Open does.)
Back ==
    /\ Free
    /\ \E old \in past : old # page /\ page' = old
    /\ form' = DefaultParty
    /\ UNCHANGED <<waiting, past, requests, stored, session, mine>>

OpenPage ==
    \/ Open("search", 0) \/ Open("lookup", 0) \/ Open("elsewhere", 0)
    \/ \E s \in DOMAIN searches : Open("results", s)

-----------------------------------------------------------------------------
(* The handlers.                                                           *)

Loaded(r, kind) == requests[r].kind = kind /\ requests[r].loaded

LoadSession(r) ==
    /\ requests[r].kind # "none" /\ ~requests[r].loaded
    /\ Overlap \/ \A q \in Requests : ~requests[q].loaded
    /\ requests' = [requests EXCEPT ![r].loaded = TRUE, ![r].session = session]
    /\ UNCHANGED <<browser, stored, session, mine>>

\* AuthorizeManageBookingAccessAction::allows
Allows(s, b) == (s.user /\ bookings[b].user) \/ b \in s.access

\* The answer ends the request, writes its session and shows a page if it is waited for.
Answer(r, s, shown) ==
    /\ requests' = [requests EXCEPT ![r] = NoRequest]
    /\ session' = s
    /\ page' = IF waiting = r THEN shown ELSE page
    /\ waiting' = IF waiting = r THEN "none" ELSE waiting
    /\ form' = IF waiting = r THEN FormOn(shown) ELSE form
    /\ past' = IF waiting = r THEN Remembered(shown) ELSE past

\* back() with errors: the page and what was typed stay.
Again(error) == [page EXCEPT !.error = error]

\* A redirect: the browser, if it still waits, asks for the page it was sent to.
Redirect(r, s, kind, b) ==
    /\ requests' = [requests EXCEPT ![r] =
            IF waiting = r THEN [NoRequest EXCEPT !.kind = kind, !.id = b] ELSE NoRequest]
    /\ session' = s
    /\ UNCHANGED browser

\* FlightSearchRequest may refuse the fields that are left out; StoreFlightSearchAction.
ServeSearch(r) ==
    /\ Loaded(r, "search")
    /\ \/ /\ Answer(r, requests[r].session, Again("search"))
          /\ UNCHANGED searches
       \/ /\ Len(searches) < MaxSearches
          /\ searches' = Append(searches, [party |-> requests[r].party, expired |-> FALSE])
          /\ Answer(r, requests[r].session, Shown("results", Len(searches) + 1))
    /\ UNCHANGED <<bookings, mine>>

\* RevalidateFlightOfferAction refuses what has expired; otherwise a booking is made and
\* the session is granted access to it.
ServeSelect(r) ==
    LET s == requests[r].id
        mySession == requests[r].session
        b == Len(bookings) + 1
    IN
    /\ Loaded(r, "select")
    /\ IF searches[s].expired
       THEN /\ Answer(r, mySession, Again("offer"))
            /\ UNCHANGED <<bookings, mine>>
       ELSE /\ b <= MaxBookings
            /\ bookings' = Append(bookings, [status |-> "offer_selected", search |-> s,
                                             user |-> mySession.user, passengers |-> <<>>])
            /\ mine' = mine \union {b}
            /\ Redirect(r, [mySession EXCEPT !.access = @ \union {b}], "edit", b)
    /\ UNCHANGED searches

ServeEdit(r) ==
    LET b == requests[r].id IN
    /\ Loaded(r, "edit")
    /\ Answer(r, requests[r].session,
              IF Allows(requests[r].session, b) THEN ServedForm(b) ELSE Refused)
    /\ UNCHANGED <<stored, mine>>

\* Bug: the counts of the latest search are required.
BugRequiredParty(b) == searches[Len(searches)].party

RequiredParty(b) == PartyOf(b)

CountsMatch(b, draft) ==
    LET Count(type) == Cardinality({i \in DOMAIN draft : draft[i].type = type})
        party == RequiredParty(b)
    IN  /\ Len(draft) = Size(party)
        /\ Count("adult") = party.adult
        /\ Count("child") = party.child
        /\ Count("infant_without_seat") = party.infant

\* StorePassengerDetailsRequest comes first, then the access check, then the action.  back()
\* leads to the form, with fresh props and the draft as typed, through the check of edit.
ServeStore(r) ==
    LET b == requests[r].id
        draft == requests[r].draft
        mySession == requests[r].session
        Refuse(error) ==
            /\ Answer(r, mySession, IF Allows(mySession, b) THEN Again(error) ELSE Refused)
            /\ UNCHANGED bookings
    IN
    /\ Loaded(r, "store")
    /\ IF ~CountsMatch(b, draft) THEN Refuse("passengers")
       ELSE IF \E i \in DOMAIN draft : draft[i].name = "" THEN Refuse("fields")
       ELSE IF searches[bookings[b].search].expired THEN Refuse("booking")
       ELSE IF ~Allows(mySession, b) THEN Refuse("refused")
       ELSE /\ bookings' = [bookings EXCEPT ![b].passengers = draft,
                                            ![b].status = "passenger_details_added"]
            /\ Redirect(r, mySession, "checkout", b)
    /\ UNCHANGED <<searches, mine>>

ServeCheckout(r) ==
    LET b == requests[r].id IN
    /\ Loaded(r, "checkout")
    /\ Answer(r, requests[r].session,
              IF Allows(requests[r].session, b)
                    /\ bookings[b].status = "passenger_details_added"
              THEN Elsewhere ELSE Refused)
    /\ UNCHANGED <<stored, mine>>

\* The reference and the e-mail address, which is known once the passengers are stored.
ServeLookup(r) ==
    LET b == requests[r].id
        mySession == requests[r].session
    IN
    /\ Loaded(r, "lookup")
    /\ IF bookings[b].status = "passenger_details_added"
       THEN Redirect(r, [mySession EXCEPT !.access = @ \union {b}], "show", b)
       ELSE Answer(r, mySession, Again("lookup"))
    /\ UNCHANGED <<stored, mine>>

ServeShow(r) ==
    LET b == requests[r].id IN
    /\ Loaded(r, "show")
    /\ Answer(r, requests[r].session,
              IF Allows(requests[r].session, b) THEN Elsewhere ELSE Refused)
    /\ UNCHANGED <<stored, mine>>

\* Bug: the session is started anew.
BugLoginInvalidates(s) == [Guest EXCEPT !.user = TRUE]

\* regenerate(): another id, the same contents.
SessionAfterLogin(s) == [s EXCEPT !.user = TRUE]

ServeLogin(r) ==
    /\ Loaded(r, "login")
    /\ Answer(r, SessionAfterLogin(requests[r].session), Elsewhere)
    /\ UNCHANGED <<stored, mine>>

ServeLogout(r) ==
    /\ Loaded(r, "logout")
    /\ Answer(r, Guest, Shown("search", 0))
    /\ mine' = {}
    /\ UNCHANGED stored

\* Bound: an earlier search expires first, and the last that can be made does not.
Expire(s) ==
    /\ s \in DOMAIN searches /\ ~searches[s].expired
    /\ s < MaxSearches
    /\ \A earlier \in 1 .. s - 1 : searches[earlier].expired
    /\ searches' = [searches EXCEPT ![s].expired = TRUE]
    /\ UNCHANGED <<browser, requests, bookings, session, mine>>

-----------------------------------------------------------------------------
Serve(r) ==
    \/ LoadSession(r)
    \/ ServeSearch(r) \/ ServeSelect(r) \/ ServeEdit(r) \/ ServeStore(r)
    \/ ServeCheckout(r) \/ ServeLookup(r) \/ ServeShow(r) \/ ServeLogin(r) \/ ServeLogout(r)

Customer(r) ==
    \/ SubmitSearch(r) \/ SelectFare(r) \/ SubmitPassengers(r) \/ Login(r) \/ Logout(r)
    \/ \E b \in DOMAIN bookings : SubmitLookup(r, b)
    \/ \E b \in DOMAIN bookings : Follow(r, b)
    \/ \E b \in DOMAIN bookings, kind \in {"edit", "checkout"} : OpenAddress(r, b, kind)

Next ==
    \/ \E r \in Requests : Customer(r) \/ Serve(r)
    \/ OpenPage \/ Back
    \/ \E party \in Parties : EditSearch(party)
    \/ \E i \in DOMAIN page.draft, name \in Names : EditPassenger(i, name)
    \/ \E s \in DOMAIN searches : Expire(s)

Spec == Init /\ [][Next]_vars

-----------------------------------------------------------------------------
(* Properties. *)

NamesOf(b) == NamesIn(bookings[b].passengers)

\* Saving a passenger form nobody has typed into stores the names that were stored when the
\* form was rendered, each at its passenger, however long that is ago, after refusals, visits
\* of other pages and the back button, and although the rows are deleted and made again and
\* merged by position.  So it keeps the names, unless newer ones were saved in between.
UntouchedFormSavesItsNames ==
    [][\A r \in Requests, b \in DOMAIN bookings :
          (/\ Loaded(r, "store") /\ requests[r].id = b /\ ~requests[r].edited
           /\ requests'[r] # requests[r] /\ bookings'[b] # bookings[b])
              => NamesOf(b)' = requests[r].base]_vars

\* The form gives no way to add or to remove a passenger, so it is never refused for the
\* number of passengers, whatever was searched for in between.
NeverRefusedForCounts == page.error # "passengers"

\* What the customer has selected can be opened until he logs out: the login in between
\* keeps what the session was granted as a guest.
SelectedIsReachable == \A b \in mine : Allows(session, b)
=============================================================================
