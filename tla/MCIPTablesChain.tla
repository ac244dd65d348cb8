--------------------------- MODULE MCIPTablesChain ---------------------------
EXTENDS IPTablesChain
=============================================================================
