---------------------------- MODULE MCSecurityScan -----------------------------
EXTENDS SecurityScan

CONSTANTS w1, w2, w3
================================================================================
