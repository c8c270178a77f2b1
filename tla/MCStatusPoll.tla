---------------------------- MODULE MCStatusPoll ----------------------------
EXTENDS StatusPoll

CONSTANTS poller, request

MCCalls == {poller, request}
=============================================================================
