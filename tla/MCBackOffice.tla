------------------------------ MODULE MCBackOffice ------------------------------
(* An instance of the back office for TLC: Accounts, LoginThrottle,         *)
(* Listing, Khqr, OrderAlert and Catalogue share no state - who may edit    *)
(* what is a guard the editors of Catalogue have passed - so a behaviour is *)
(* one of them, or one desk of the catalogue, chosen at the start.          *)
EXTENDS Accounts, LoginThrottle, Listing, Khqr, OrderAlert, Catalogue

CONSTANTS r1, r2, quote, payment

VARIABLE watched

(* Overlapping requests are interchangeable.                                *)
Interchangeable == Permutations({r1, r2})

-----------------------------------------------------------------------------
(* Accounts and the throttle                                               *)

Typed == {"ann@x", "Ann@x"}
SomeFolded == [a \in Typed |-> "ann@x"]

SomeEdits == {
  [user_management |-> FALSE],
  [admin |-> FALSE],
  [is_active |-> FALSE],
  [is_active |-> TRUE],
  [user_management |-> TRUE, admin |-> TRUE]}

Empty == [p \in Principals |-> NoRow]
JustBootstrapped == [Empty EXCEPT ![User(1)] = Bootstrap("ann@x")]
TwoManagers ==
  [Empty EXCEPT ![User(1)] = [Bootstrap("ann@x") EXCEPT !.admin = TRUE],
                ![User(2)] = Bootstrap("Ann@x"),
                ![Customer(1)] = CustomerRow("Ann@x")]
Members ==
  [JustBootstrapped EXCEPT
     ![Customer(1)] = [CustomerRow("Ann@x") EXCEPT !.password = 1, !.is_verified = TRUE]]
SomeOpenings == {JustBootstrapped, TwoManagers, Members}

-----------------------------------------------------------------------------
(* The listing: every catalogue of three products from a few kinds, two of  *)
(* them tied on name, price and age; stock unknown; one not for sale.       *)

Kind(name, price, stock, category, brand, listed) ==
  [name |-> name, words |-> {"bur"}, price |-> price, list_price |-> price, discount |-> 0,
   stock |-> stock, brand |-> brand, category |-> category, section |-> "machinery",
   is_purchasable |-> listed, delisted |-> FALSE, created |-> price % 2]

Kinds == {Kind(1, 10, 5, "burs", "b1", TRUE), Kind(1, 10, Unknown, "burs", "b2", TRUE),
          Kind(2, 8, 5, "files", "b1", TRUE), Kind(1, 9, 0, Uncategorised, "b2", FALSE)}

SomeStocks == [1 .. 3 -> Kinds]

Plain == [include_unpurchasable |-> FALSE, include_delisted |-> FALSE,
          section |-> "machinery", brand |-> All, categories |-> {}, q |-> All]

SomeFilters == {Plain, [Plain EXCEPT !.categories = {"burs"}],
                [Plain EXCEPT !.brand = "b1", !.include_unpurchasable = TRUE],
                [Plain EXCEPT !.brand = "b2", !.categories = {"burs", "files"}],
                [Plain EXCEPT !.q = "bur", !.section = All]}

SomeViewers == {
  [kind |-> "nobody", is_active |-> FALSE, access_permission |-> FALSE],
  [kind |-> "user", is_active |-> TRUE, access_permission |-> FALSE],
  [kind |-> "customer", is_active |-> TRUE, access_permission |-> FALSE]}

SomeQuestions ==
  [filter : SomeFilters, sort : Sorts, limit : {1, 2}, viewer : SomeViewers]

NoQuestion == CHOOSE a \in SomeQuestions : TRUE

-----------------------------------------------------------------------------
(* Payment QRs: account parts that just fit, that do not, and a bank's own  *)
(* static code with a private tag.                                          *)

Text(length) == [i \in 1 .. length |-> 64 + i]

Setup(account, information, bank, template) ==
  [account |-> Text(account), information |-> Text(information), bank |-> Text(bank),
   template |-> template, name |-> Text(30), city |-> Text(9), minutes |-> 15]

StaticCode ==
  Tlv(0, TwoDigits(1)) \o Tlv(1, TwoDigits(11)) \o Tlv(40, Text(99)) \o Tlv(29, Text(16))
  \o Tlv(53, UsDollar) \o Tlv(59, Text(26))

SomeSetups ==
  {Setup(16, 0, 0, StaticCode), Setup(40, 29, 26, <<>>), Setup(32, 32, 32, <<>>),
   Setup(0, 9, 8, StaticCode), Setup(0, 0, 0, Tlv(59, Text(26)))}

SomeBills == {Text(11), Text(30)}

-----------------------------------------------------------------------------
(* The catalogue: two products, one with a gallery, one of each other row.  *)

brand == <<"brands", 1>>
category == <<"categories", 1>>
chair == <<"products", 1>>
lamp == <<"products", 2>>

Goods(name, code, price, discount, list) ==
  [name |-> name, code |-> code, brand |-> brand, category |-> category,
   section |-> "machinery", price |-> price, discount |-> discount,
   discount_type |-> "percent", list_price |-> list, image |-> None]

Photo(n) == [parent |-> chair, sort_order |-> n - 1, media_type |-> "image"]

SomeStorerooms == {
  brand :> [name |-> "A", image |-> None] @@ category :> [name |-> "A"]
  @@ chair :> Goods("A", "a", 9000, 1000, 10000)
  @@ lamp :> Goods("B", None, 500, 0, 500)
  @@ [k \in {<<"product_images", n>> : n \in 1 .. 3} |-> Photo(k[2])]
  @@ <<"product_free_items", 1>> :> [parent |-> chair, member |-> lamp, qty |-> 1]
  @@ <<"manuals", 1>> :> [parent |-> chair, image |-> None, pdf |-> None]
  @@ <<"promotions", 1>> :> [name |-> "A", image |-> None, banner |-> None]
  @@ <<"promotion_items", 1>> :> [parent |-> <<"promotions", 1>>, member |-> lamp, qty |-> 1]
  @@ <<"sets", 1>> :> [name |-> "A", brand |-> brand, image |-> None, detail |-> None]
  @@ <<"set_items", 1>> :> [parent |-> <<"sets", 1>>, member |-> chair, qty |-> 1]
  @@ <<"set_option_groups", 1>> :> [parent |-> <<"sets", 1>>]
  @@ <<"set_option_choices", 1>> :> [parent |-> <<"set_option_groups", 1>>, member |-> lamp]
  @@ <<"hero_slides", 1>> :> [name |-> "A", image |-> None]}

SomeItemForms == {<<>>, lamp :> 2, chair :> 1}
SomeGroupForms == {<<{chair, lamp}, {lamp}>>}

SomePriceForms == {
  [price |-> 8000], [price |-> 12000], [list_price |-> 9500], [discount |-> 0],
  [discount |-> 500, discount_type |-> "cash"], [price |-> 7000, list_price |-> 6000]}

Form == [name |-> "B", code |-> "b", brand |-> brand, category |-> None,
         section |-> "machinery", price |-> 9000, discount |-> 1000,
         discount_type |-> "percent"]
SomeProductForms == {Form, [list_price |-> 9500, code |-> None] @@ Form}

\* Bound: the two desks of many screens get as far as two overlapping requests.
ShortDesks == {"bundles", "shelves"}

MCInit ==
  /\ Init /\ ThrottleInit /\ CatalogueInit
  /\ \/ watched \in Desks \cup {"accounts", "passwords", "throttle", "qr", "alerts"}
        /\ shelf = <<>> /\ asked = NoQuestion /\ skip = 0 /\ shown = <<>>
     \/ watched = "listing" /\ ListingInit
  /\ KhqrInit /\ AlertInit
  /\ watched # "accounts" => rows = Members
  /\ watched = "accounts" => rows # Members

MCNext ==
  \/ /\ \/ watched = "accounts" /\ (ProfileNext \/ AccountNext)
        \/ watched = "passwords" /\ (ProfileNext \/ PasswordNext)
        \/ watched \in {"accounts", "passwords"} /\ (SessionNext \/ CommitNext \/ MailNext)
     /\ UNCHANGED <<throttleVars, listingVars, qr, alertVars, catalogueVars>>
  \/ watched = "throttle" /\ ThrottleNext /\ UNCHANGED <<vars, listingVars, qr, alertVars, catalogueVars>>
  \/ watched = "listing" /\ ListProducts /\ UNCHANGED <<vars, throttleVars, qr, alertVars, catalogueVars>>
  \/ watched = "qr" /\ NewQr /\ UNCHANGED <<vars, throttleVars, listingVars, alertVars, catalogueVars>>
  \/ watched = "alerts" /\ AlertNext /\ UNCHANGED <<vars, throttleVars, listingVars, qr, catalogueVars>>
  \/ watched \in Desks /\ CatalogueStep(watched) /\ UNCHANGED <<vars, throttleVars, listingVars, qr, alertVars>>
       /\ (watched \in ShortDesks => edits' <= 2)

MCSpec ==
  MCInit
    /\ [][MCNext /\ UNCHANGED watched]_<<vars, throttleVars, listingVars, qr, alertVars, catalogueVars, watched>>
=============================================================================
