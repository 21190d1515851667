------------------------------ MODULE MCFlash ------------------------------
\* Instances of Flash for TLC: a page of three cells, so that a write can
\* cover a page in part, cross into the next one or fill it.
EXTENDS Flash, TLC

\* Values are only compared with each other.
ValueSymmetry == Permutations(Value)
=============================================================================
