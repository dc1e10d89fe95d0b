------------------------------- MODULE Pricing -------------------------------
(***************************************************************************)
(* What a request is priced at (pricing.go).  The price book lays the      *)
(* saved catalog over the built-in table, later catalogs over that, and    *)
(* keeps the operator's overrides apart.  A model's name is a sequence of  *)
(* words: "gpt-5.6-sol-high" ends in an effort suffix, a dated name begins *)
(* with the name it belongs to.                                            *)
(***************************************************************************)
EXTENDS Naturals, SequencesExt

CONSTANTS
    Name,       \* model names requests come with
    Effort,     \* effortSuffixes
    Builtin,    \* builtinPrices: a function from names to prices
    Offers,     \* catalogs price_source_url may serve
    Settings,   \* price_overrides an operator may configure
    MaxSteps    \* bound: refreshes, reconfigurations and restarts

ASSUME PriceAssumption == MaxSteps \in Nat

VARIABLES
    catalog,     \* priceBook.catalog
    overrides,   \* priceBook.overrides
    cached,      \* the models of prices.json; empty when there is none
    steps

priceVars == <<catalog, overrides, cached, steps>>

NoPrices == [n \in {} |-> 0]
Price == UNION {{book[n] : n \in DOMAIN book} : book \in {Builtin} \cup Offers \cup Settings}
IsBook(book) == DOMAIN book \subseteq UNION {DOMAIN b : b \in {Builtin} \cup Offers \cup Settings}
                /\ \A n \in DOMAIN book : book[n] \in Price

PriceTypeOK ==
    /\ IsBook(catalog) /\ IsBook(overrides) /\ IsBook(cached)
    /\ steps \in 0 .. MaxSteps

(* Entries of a new catalog replace those of the old one.                  *)
Merge(old, new) ==
    [n \in DOMAIN old \cup DOMAIN new |-> IF n \in DOMAIN new THEN new[n] ELSE old[n]]

(* newPriceBook and loadCache                                              *)
NewBook(file) == Merge(Builtin, file)

PriceInit ==
    /\ cached = NoPrices
    /\ catalog = NewBook(cached)
    /\ overrides \in Settings
    /\ steps = 0

-----------------------------------------------------------------------------
(* An effort suffix is stripped, one of them.                              *)
Trimmed(n) ==
    IF Len(n) > 1 /\ Last(n) \in Effort THEN Front(n) ELSE n

PrefixesIn(book, n) == {p \in DOMAIN book : IsPrefix(p, Trimmed(n))}
Longest(names) == CHOOSE p \in names : \A q \in names : Len(q) <= Len(p)

(* The longest known prefix; of one that both books know, the catalog's.   *)
ByPrefix(n) ==
    LET p == Longest(PrefixesIn(catalog, n) \cup PrefixesIn(overrides, n)) IN
    IF p \in DOMAIN catalog THEN catalog[p] ELSE overrides[p]

Priced(n) ==
    \/ n \in DOMAIN overrides \cup DOMAIN catalog
    \/ PrefixesIn(catalog, n) \cup PrefixesIn(overrides, n) # {}

(* Lookup of a name that is priced at all: the exact name, the name        *)
(* without its effort, the longest known prefix; overrides first, except   *)
(* for the last.                                                           *)
Lookup(n) ==
    LET t == Trimmed(n)
        exact == DOMAIN overrides \cup DOMAIN catalog
    IN
    CASE n \in DOMAIN overrides -> overrides[n]
      [] n \in DOMAIN catalog \ DOMAIN overrides -> catalog[n]
      [] n \notin exact /\ t \in DOMAIN overrides -> overrides[t]
      [] n \notin exact /\ t \in DOMAIN catalog \ DOMAIN overrides -> catalog[t]
      [] n \notin exact /\ t \notin exact -> ByPrefix(n)

-----------------------------------------------------------------------------
Step == steps < MaxSteps /\ steps' = steps + 1

\* Mutant: a fetched catalog replaces the one before.
RefreshReplaces ==
    /\ Step
    /\ \E fetched \in Offers :
          /\ fetched # NoPrices
          /\ catalog' = fetched
          /\ cached' \in {cached, catalog'}
    /\ UNCHANGED overrides

(* refresh: a catalog with prices in it is merged and saved, if the write  *)
(* succeeds; anything else is an error and changes no price.               *)
Refresh ==
    /\ Step
    /\ \E fetched \in Offers :
          /\ fetched # NoPrices
          /\ catalog' = Merge(catalog, fetched)
          /\ cached' \in {cached, catalog'}
    /\ UNCHANGED overrides

(* setOverrides, on every reconfiguration                                  *)
SetOverrides ==
    /\ Step
    /\ overrides' \in Settings
    /\ UNCHANGED <<catalog, cached>>

(* The process ends, and newApp begins again with the same configuration.  *)
NewApp ==
    /\ Step
    /\ catalog' = NewBook(cached)
    /\ UNCHANGED <<overrides, cached>>

PriceNext == Refresh \/ SetOverrides \/ NewApp

PriceSpec == PriceInit /\ [][PriceNext]_priceVars

-----------------------------------------------------------------------------
Listed == DOMAIN overrides \cup DOMAIN catalog

\* A restart forgets a catalog that was fetched and could not be saved.
Forgets == cached # catalog /\ catalog' = NewBook(cached)

(* "The plugin keeps working when models.dev is unreachable": a request    *)
(* that has a price keeps one whatever is fetched and however often the    *)
(* plugin restarts, unless the operator takes an override back; and        *)
(* "PriceOverrides wins over both the catalog and the built-in table" for  *)
(* a name it has and, unless they are listed themselves, its efforts.      *)
PricesHold ==
    [][steps' > steps => \A n \in Name :
          /\ Priced(n) /\ overrides' = overrides /\ ~Forgets => Priced(n)'
          /\ \A o \in DOMAIN overrides' \cap {n, Trimmed(n)} :
                n = o \/ n \notin Listed' => Lookup(n)' = overrides'[o]]_priceVars
=============================================================================
