------------------------------- MODULE MCTables -------------------------------
EXTENDS Tables
MCBackends == {"HashMapTable", "CuckooTable", "RDBTable", "PBPTreeTable", "BDCCPTable"}
=============================================================================
