----------------------------- MODULE MCChatClient -----------------------------
EXTENDS ChatClient
=============================================================================
