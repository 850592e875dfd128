----------------------- MODULE MCResumableConversion -----------------------
\* One and two shards, of which the stream downloads and converts every one.
EXTENDS ResumableConversion

TwoShards == <<"s1", "s2">>
OneShard == <<"s1">>
============================================================================
