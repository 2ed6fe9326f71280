-------------------------- MODULE MCContractRounds --------------------------
(***************************************************************************)
(* A DELETE that cascades, an INSERT, a SELECT and a statement whose kind  *)
(* and table were not recognised, with memories that hold more precedents  *)
(* than a document shows, some of another tenant or without an embedding.  *)
(***************************************************************************)
EXTENDS ContractRounds

MCTables == {"users", "orders", "items", "logs"}

MCStatements ==
    {[kind |-> "DELETE", primary |-> {"users"}, cascade |-> {"orders", "items"}],
     [kind |-> "INSERT", primary |-> {"orders"}, cascade |-> {}],
     [kind |-> "SELECT", primary |-> {"users"}, cascade |-> {}],
     [kind |-> "UNKNOWN", primary |-> {}, cascade |-> {}]}

Past(id, own, tables, outcome, delta, similarity, embedded, textual) ==
    [id |-> id, own |-> own, tables |-> tables, outcome |-> outcome, delta |-> delta,
     similarity |-> similarity, embedded |-> embedded, textual |-> textual]

MCMemories ==
    {<<>>,
     \* Rejections among better matches, one on other tables, one of another
     \* tenant, one that was never embedded.
     <<Past(101, TRUE,  {"users"}, "APPROVED", FALSE, 95, TRUE, FALSE),
       Past(102, TRUE,  {"users", "orders"}, "APPROVED", TRUE, 90, TRUE, FALSE),
       Past(103, TRUE,  {"users", "orders", "items"}, "MODIFIED", FALSE, 80, TRUE, FALSE),
       Past(104, TRUE,  {"orders", "logs"}, "REJECTED", FALSE, 40, TRUE, FALSE),
       Past(105, FALSE, {"users"}, "REJECTED", FALSE, 99, TRUE, TRUE),
       Past(106, TRUE,  {"users"}, "REJECTED", FALSE, 90, FALSE, FALSE),
       Past(107, TRUE,  {"orders", "items", "logs"}, "ROLLED_BACK", FALSE, -5, TRUE, FALSE)>>,
     \* More rejections than a document shows.
     <<Past(101, TRUE, {"users"}, "REJECTED", FALSE, 10, TRUE, TRUE),
       Past(102, TRUE, {"users", "orders"}, "REJECTED", TRUE, 20, TRUE, TRUE),
       Past(103, TRUE, {"users"}, "AUTO_REJECTED", TRUE, 90, TRUE, TRUE),
       Past(104, TRUE, {"users", "items"}, "REJECTED", FALSE, 30, TRUE, TRUE),
       Past(105, TRUE, {"orders"}, "REJECTED", FALSE, 70, TRUE, TRUE),
       Past(106, TRUE, {}, "REJECTED", FALSE, 60, TRUE, TRUE)>>}

=============================================================================
