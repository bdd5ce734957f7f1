------------------------- MODULE MCThreadMapReduce --------------------------
(* ThreadMapReduce on a few lines, counted once and searched for attacks    *)
(* once: two lines of one key, one of another and an invalid one, in which  *)
(* are a bad code behind a quotation mark of the URL, a plain bad code and  *)
(* a code that is not searched for.                                         *)
EXTENDS ThreadMapReduce, TLC

CONSTANTS home, page, notfound, ok

MCKey == {home, page, notfound, ok}

MCCalls == << "count", "attacks" >>

Request(where, ip, codes) == [count |-> where, hasIp |-> ip, quoted |-> codes]

MCInput ==
  << Request(home, TRUE, << NoKey, notfound >>),
     Request(NoKey, FALSE, << >>),
     Request(home, TRUE, << ok >>),
     Request(page, TRUE, << notfound >>) >>
=============================================================================
