------------------------------ MODULE MCDiscover ------------------------------
(* Discover on two pages, one of them under a country's domain.             *)
EXTENDS Discover

MCHostCountry == [p \in Pages \cup {Relative} |-> IF p = "p.dk" THEN "DK" ELSE NoCountry]
MCFeeds == <<"daad", "my_university">>
MCKnown == {[page |-> "p.dk", query |-> FALSE]}

=============================================================================
