---------------------------- MODULE MCOpenAIAuth ----------------------------
EXTENDS OpenAIAuth
=============================================================================
