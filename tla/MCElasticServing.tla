-------------------------- MODULE MCElasticServing --------------------------
\* ElasticServing on a small instance.
EXTENDS ElasticServing
=============================================================================
