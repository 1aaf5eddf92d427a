---------------------------- MODULE MCParserLoad ----------------------------
(* Files with one to three clusters of one to three speed steps, and files *)
(* with eleven clusters, the first count whose cluster numbers do not sort *)
(* as numbers.                                                             *)
EXTENDS ParserLoadProofs

RECURSIVE MCDigits(_)
\* The decimal digits of n, as std::to_string prints them.
MCDigits(n) == IF n < 10 THEN <<n>> ELSE MCDigits(n \div 10) \o <<n % 10>>
=============================================================================
