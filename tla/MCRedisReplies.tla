---------------------------- MODULE MCRedisReplies ----------------------------
EXTENDS RedisReplies
=============================================================================
