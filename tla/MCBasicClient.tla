---------------------------- MODULE MCBasicClient ----------------------------
EXTENDS BasicClient
==============================================================================
