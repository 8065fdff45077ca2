------------------------------- MODULE MCStores -------------------------------
(* The instance of Stores that TLC checks.                                 *)
EXTENDS Stores

\* Requests that ask for a genre, a person or a country, exclude a country, name a
\* type, or refer to another content.
RawIntents ==
    [want : [genres : {{}, {1}}, personNames : {{}, {2}}, countries : {{}, {1}},
             ottProviderNames : {{}}],
     notCountries : {{}, {1}}, contentType : {"any", "movie"}, said : {{}, {"movie"}},
     reference : BOOLEAN]

User(rated, seen, countries, disliked, otts) ==
    [rated |-> rated, watched |-> seen, favorite |-> {}, wanted |-> seen,
     countries |-> countries, disliked |-> disliked, dislikedBy |-> <<0, disliked[2]>>,
     otts |-> otts]

\* Somebody new; a user with a preferred genre, country and service; one whose
\* disliked genre is none of the preferred ones; one who prefers what is disliked.
KnownUsers ==
    {User(<<0, 0>>, {}, {}, <<0, 0>>, {}),
     User(<<2, 0>>, {2}, {1}, <<0, 2>>, {1}),
     User(<<1, 0>>, {2}, {2}, <<2, 0>>, {}),
     User(<<0, 1>>, {}, {2}, <<2, 1>>, {2})}

Candidate(genre, by, country, ott, type, kind) ==
    [is |-> [genres |-> genre, personNames |-> by, countries |-> country,
             ottProviderNames |-> ott],
     contentType |-> type, adult |-> kind = "adult", watched |-> kind = "watched",
     poster |-> kind # "bare", told |-> kind = "told",
     described |-> kind \in {"described", "bare"}, ranked |-> kind = "ranked"]

Stock ==
    {Candidate(1, 1, 1, 1, "movie", "described"), Candidate(1, 2, 2, 1, "movie", "plain"),
     Candidate(2, 2, 2, 2, "tv", "ranked"), Candidate(1, 2, 1, 2, "movie", "told"),
     Candidate(2, 1, 2, 1, "movie", "adult"), Candidate(2, 1, 2, 2, "movie", "described")}

Stocks == SUBSET Stock
=============================================================================
