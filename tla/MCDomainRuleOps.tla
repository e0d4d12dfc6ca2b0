-------------------------- MODULE MCDomainRuleOps --------------------------
(***************************************************************************)
(* Two candidates of one site: each may propose its own name or the site.  *)
(***************************************************************************)
EXTENDS DomainRuleOps, TLC

CONSTANTS o1, o2, c1, c2, exact1, exact2, site

OpSymmetry == Permutations({o1, o2})
MCExact == [c \in Candidates |-> IF c = c1 THEN exact1 ELSE exact2]
MCSite  == [c \in Candidates |-> site]

=============================================================================
