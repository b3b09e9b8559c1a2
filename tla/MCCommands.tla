----------------------------- MODULE MCCommands -----------------------------
(* Small instances of the four parts of Commands, for one run of TLC. *)
EXTENDS Commands

(* No cap, a cap of zero, and one that the second dear call crosses. *)
MCCaps == {None, 0, 3}

MCBills ==
  {[cost |-> 2, tokens |-> 1, priced |-> TRUE],
   [cost |-> 0, tokens |-> 1, priced |-> FALSE]}

Usage(input, write) == [NoTokens EXCEPT !["input"] = input, !["cache_write"] = write]

(* A paid call, and a cache hit of another model's answer another day. *)
MCRows ==
  {[provider |-> "p", model |-> "m", day |-> "d", cost |-> 2, usage |-> Usage(1, 1)],
   [provider |-> "p", model |-> "n", day |-> "e", cost |-> 0, usage |-> Usage(2, 0)]}

(* Two papers from before 2007 that have one number in two archives, one   *)
(* with a theorem and one with two and a sentence that is none; a survey   *)
(* of the three; and a later one with none.                                *)
Physics == [archive |-> "hep-th", number |-> 1, sentences |-> <<"s">>]
Algebra == [archive |-> "math", number |-> 1, sentences |-> <<"t", "aside", "s">>]
Survey == [archive |-> "math", number |-> 2, sentences |-> <<"s", "t", "s">>]
Plain == [archive |-> "", number |-> 2, sentences |-> <<"aside">>]

MCFeeds == {<<>>, <<Physics>>, <<Physics, Algebra>>, <<None, Physics>>, <<Survey>>, <<Plain>>}

(* A part that keeps still starts in one of its states only. *)
MCInit ==
  /\ PartsInit
  /\ part # "solve" => ~server
  /\ part # "server" => default_max_cost_usd = None

MCSpec == MCInit /\ [][PartsNext]_all_vars /\ PartsFairness
=============================================================================
