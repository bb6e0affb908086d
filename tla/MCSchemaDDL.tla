---------------------------- MODULE MCSchemaDDL -----------------------------
EXTENDS SchemaDDL, TLC

CONSTANTS c1, k1, x1, x2, x3

Req(op, key, column, materialize) ==
  [op |-> op, key |-> key, column |-> column, materialize |-> materialize]

\* Every operation; one key used twice and for two requests.
EveryOperation ==
  {Req("createTable", None, None, FALSE), Req("addColumn", k1, c1, TRUE),
   Req("retypeColumn", None, c1, TRUE), Req("declareView", None, None, FALSE),
   Req("redeclareView", k1, None, FALSE)}

Symmetry == Permutations({x1, x2})

Materializes == {Req("addColumn", None, c1, TRUE)}
=============================================================================
